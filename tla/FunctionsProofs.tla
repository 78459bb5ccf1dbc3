--------------------------- MODULE FunctionsProofs ---------------------------
(***************************************************************************)
(* Proofs about the port arguments of goscan (module GoPorts); the append  *)
(* handler (module Raft), for every set of leaders and their logs; the     *)
(* runners (module Runners), for any targets, ports and number of          *)
(* campaigns; the scope file (module ScopeFile), for every file; the       *)
(* search for a route and the degrees, components and shortest paths       *)
(* (module AssetGraph), for every graph and its costs;                     *)
(* and the pattern matcher (module Matcher), for every set of patterns and *)
(* every text.                                                             *)
(***************************************************************************)
EXTENDS GoPorts, Raft, Runners, ScopeFile, AssetGraph, Matcher, FiniteSetTheorems, WellFoundedInduction, TLAPS

\* Every set of numbers that is not empty has a least one.
LEMMA LeastNumber == ASSUME NEW S \in SUBSET Nat, S # {} PROVE \E m \in S : \A k \in S : m <= k
<1>1. PICK m \in S : \A k \in S : ~(<<k, m>> \in OpToRel(<, Nat))
  BY NatLessThanWellFounded, WFMin
<1>2. \A k \in S : k < m => <<k, m>> \in OpToRel(<, Nat)
  BY DEF OpToRel
<1>3. \A k \in S : ~(k < m)
  BY <1>1, <1>2, Zenon
<1> QED BY <1>3

\* What holds before a loop, and after each turn if it did before, holds after
\* every turn.
LEMMA EachTurn ==
  ASSUME NEW N \in Nat, NEW Good \in SUBSET (0..N), 0 \in Good,
         \A n \in 1..N : n - 1 \in Good => n \in Good
  PROVE  Good = 0..N
<1> DEFINE Bad == (0..N) \ Good
<1> SUFFICES ASSUME Bad # {} PROVE FALSE
  OBVIOUS
<1>1. PICK m \in Bad : \A k \in Bad : m <= k
  <2>1. Bad \in SUBSET Nat
    OBVIOUS
  <2> HIDE DEF Bad
  <2> QED BY <2>1, LeastNumber
<1>2. m \in 1..N /\ m - 1 \in 0..N /\ ~(m <= m - 1)
  OBVIOUS
<1>3. m - 1 \in Good
  BY <1>1, <1>2
<1> QED BY <1>1, <1>2, <1>3

\* A run of a loop of N turns: turn n makes F[<<n, s>>] of s.
Run(S, N, s0, F, f) == f \in [0..N -> S] /\ f[0] = s0 /\ \A n \in 1..N : f[n] = F[<<n, f[n - 1]>>]

\* Every loop has one.
LEMMA LoopRuns ==
  ASSUME NEW S, NEW N \in Nat, NEW s0 \in S, NEW F \in [(1..N) \X S -> S]
  PROVE  \E f : Run(S, N, s0, F, f)
<1> DEFINE Steps(f, m) == f[0] = s0 /\ \A n \in 1..m : f[n] = F[<<n, f[n - 1]>>]
           Good == {m \in 0..N : \E f \in [0..m -> S] : Steps(f, m)}
<1>1. 0 \in Good
  <2> DEFINE f == [n \in 0..0 |-> s0]
  <2>1. f \in [0..0 -> S] /\ Steps(f, 0)
    OBVIOUS
  <2> HIDE DEF f
  <2>2. \E h \in [0..0 -> S] : Steps(h, 0)
    BY <2>1
  <2> QED BY <2>2
<1>2. ASSUME NEW m \in 1..N, m - 1 \in Good PROVE m \in Good
  <2>1. PICK f \in [0..(m - 1) -> S] : Steps(f, m - 1)
    BY <1>2
  <2> DEFINE last == F[<<m, f[m - 1]>>]
             g == [n \in 0..m |-> IF n = m THEN last ELSE f[n]]
  <2>2. last \in S
    <3>1. f[m - 1] \in S
      OBVIOUS
    <3> QED BY <3>1
  <2>3. g \in [0..m -> S] /\ g[m] = last /\ \A n \in 0..(m - 1) : g[n] = f[n]
    <3> HIDE DEF last
    <3> QED BY <2>2
  <2> HIDE DEF g
  <2>4. ASSUME NEW n \in 1..m PROVE g[n] = F[<<n, g[n - 1]>>]
    <3>1. CASE n = m
      <4>1. m - 1 \in 0..(m - 1)
        OBVIOUS
      <4> QED BY <2>3, <3>1, <4>1
    <3>2. CASE n # m
      <4>1. n \in 1..(m - 1) /\ n \in 0..(m - 1) /\ n - 1 \in 0..(m - 1)
        BY <3>2
      <4> QED BY <2>1, <2>3, <4>1
    <3> QED BY <3>1, <3>2
  <2>5. Steps(g, m)
    <3>1. 0 \in 0..(m - 1)
      OBVIOUS
    <3> QED BY <2>1, <2>3, <2>4, <3>1
  <2> QED BY <2>3, <2>5
<1>3. N \in Good
  <2> HIDE DEF Good
  <2>1. Good = 0..N
    <3>1. Good \in SUBSET (0..N)
      BY DEF Good
    <3> QED BY <1>1, <1>2, <3>1, EachTurn
  <2> QED BY <2>1
<1> QED BY <1>3 DEF Run

\* A function that does in each turn what the loop does, is a run of it.
LEMMA RunOf ==
  ASSUME NEW S, NEW N \in Nat, NEW s0 \in S, NEW F \in [(1..N) \X S -> S],
         NEW h, h = [n \in 0..N |-> h[n]], h[0] = s0,
         \A n \in 1..N : h[n - 1] \in S => h[n] = F[<<n, h[n - 1]>>]
  PROVE  Run(S, N, s0, F, h)
<1> DEFINE Good == {n \in 0..N : h[n] \in S}
<1>1. Good = 0..N
  <2>1. 0 \in Good
    OBVIOUS
  <2>2. ASSUME NEW n \in 1..N, n - 1 \in Good PROVE n \in Good
    <3>1. h[n - 1] \in S /\ n \in 0..N
      BY <2>2
    <3>2. F[<<n, h[n - 1]>>] \in S
      BY <3>1
    <3> QED BY <3>1, <3>2
  <2>3. Good \in SUBSET (0..N)
    OBVIOUS
  <2> HIDE DEF Good
  <2> QED BY <2>1, <2>2, <2>3, EachTurn
<1>2. \A n \in 0..N : h[n] \in S
  BY <1>1
<1>3. h \in [0..N -> S]
  <2> DEFINE g == [n \in 0..N |-> h[n]]
  <2>1. g \in [0..N -> S]
    BY <1>2
  <2> HIDE DEF g
  <2>2. h = g
    BY DEF g
  <2> QED BY <2>1, <2>2
<1>4. \A n \in 1..N : n - 1 \in 0..N
  OBVIOUS
<1> QED BY <1>2, <1>3, <1>4 DEF Run

-----------------------------------------------------------------------------
(***************************************************************************)
(* Port arguments (module GoPorts)                                         *)
(***************************************************************************)
\* What is a port.
PortSpace == 1..MaxPort

\* The ports that the loop over the tokens, and the loop that drops repetitions,
\* have so far.
LEMMA ExpandedSteps ==
  ASSUME NEW tokens, Len(tokens) \in Nat,
         \A n \in 1..Len(tokens) : parsePortToken(tokens[n]).ports \in Seq(PortSpace)
  PROVE  \E upTo \in [0..Len(tokens) -> Seq(PortSpace)] :
           /\ upTo[0] = <<>>
           /\ \A n \in 1..Len(tokens) : upTo[n] = upTo[n - 1] \o parsePortToken(tokens[n]).ports
           /\ Expanded(tokens) = upTo[Len(tokens)]
<1> DEFINE N == Len(tokens)
           S == Seq(PortSpace)
           part(n) == parsePortToken(tokens[n]).ports
           F == [p \in (1..N) \X S |-> p[2] \o part(p[1])]
           Body(f) == [n \in 0..N |-> IF n = 0 THEN <<>> ELSE f[n - 1] \o part(n)]
<1>1. N \in Nat /\ <<>> \in S /\ \A n \in 1..N : part(n) \in S
  OBVIOUS
<1>2. \A n \in 1..N, s \in S : s \o part(n) \in S
  <2> HIDE DEF part
  <2> QED BY <1>1
<1> HIDE DEF N, S, part
<1>3. F \in [(1..N) \X S -> S] /\ \A n \in 1..N, s \in S : F[<<n, s>>] = s \o part(n)
  <2>1. ASSUME NEW p \in (1..N) \X S PROVE p[2] \o part(p[1]) \in S
    BY <1>2
  <2> QED BY <2>1
<1> HIDE DEF F
<1>4. PICK f : f \in [0..N -> S] /\ f[0] = <<>> /\ \A n \in 1..N : f[n] = F[<<n, f[n - 1]>>]
  <2>1. \E f : Run(S, N, <<>>, F, f)
    BY <1>1, <1>3, LoopRuns
  <2> QED BY <2>1 DEF Run
<1>5. ASSUME NEW n \in 1..N PROVE f[n] = f[n - 1] \o part(n)
  <2>1. n - 1 \in 0..N /\ f[n - 1] \in S
    BY <1>1, <1>4
  <2> QED BY <1>3, <1>4, <2>1
<1>6. f = Body(f)
  <2>0. f = [n \in 0..N |-> f[n]]
    BY <1>4
  <2>1. ASSUME NEW n \in 0..N PROVE f[n] = Body(f)[n]
    <3>1. CASE n = 0
      BY <1>4, <3>1
    <3>2. CASE n # 0
      <4>1. n \in 1..N
        BY <3>2
      <4>2. Body(f)[n] = f[n - 1] \o part(n)
        BY <3>2
      <4> QED BY <1>5, <4>1, <4>2
    <3> QED BY <3>1, <3>2
  <2> QED BY <2>0, <2>1
<1> DEFINE upTo == CHOOSE h : h = Body(h)
<1>7. upTo = Body(upTo)
  BY <1>6
<1>8. Expanded(tokens) = upTo[N]
  BY DEF Expanded, part, N
<1> HIDE DEF upTo
<1>9. upTo[0] = <<>> /\ \A n \in 1..N : upTo[n] = upTo[n - 1] \o part(n)
  <2>1. \A n \in 0..N : upTo[n] = Body(upTo)[n]
    BY <1>7
  <2>2. 0 \in 0..N /\ \A n \in 1..N : n \in 0..N /\ n # 0
    BY <1>1
  <2> QED BY <2>1, <2>2
<1> DEFINE Good == {n \in 0..N : upTo[n] \in S}
<1>10. Good = 0..N
  <2>1. 0 \in Good
    BY <1>1, <1>9
  <2>2. ASSUME NEW n \in 1..N, n - 1 \in Good PROVE n \in Good
    <3>1. upTo[n - 1] \in S /\ n \in 0..N
      BY <1>1, <2>2
    <3> QED BY <1>2, <1>9, <3>1
  <2>3. Good \in SUBSET (0..N)
    OBVIOUS
  <2> HIDE DEF Good
  <2> QED BY <1>1, <2>1, <2>2, <2>3, EachTurn
<1>11. upTo \in [0..N -> S]
  <2>1. DOMAIN upTo = 0..N /\ upTo = [n \in DOMAIN upTo |-> upTo[n]]
    BY <1>7
  <2>2. \A n \in 0..N : upTo[n] \in S
    BY <1>10
  <2> QED BY <2>1, <2>2
<1> QED BY <1>8, <1>9, <1>11 DEF part, S, N

LEMMA DedupeSteps ==
  ASSUME NEW s \in Seq(PortSpace)
  PROVE  \E out \in [0..Len(s) -> Seq(PortSpace)] :
           /\ out[0] = <<>>
           /\ \A n \in 1..Len(s) : out[n] = Once(out[n - 1], s[n])
           /\ dedupePorts(s) = out[Len(s)]
<1> DEFINE N == Len(s)
           S == Seq(PortSpace)
           F == [p \in (1..N) \X S |-> Once(p[2], s[p[1]])]
           Body(f) == [n \in 0..N |-> IF n = 0 THEN <<>> ELSE Once(f[n - 1], s[n])]
<1>1. N \in Nat /\ <<>> \in S /\ \A n \in 1..N : s[n] \in PortSpace
  OBVIOUS
<1>2. \A n \in 1..N, r \in S : Once(r, s[n]) \in S
  BY <1>1 DEF Once
<1> HIDE DEF N, S
<1>3. F \in [(1..N) \X S -> S] /\ \A n \in 1..N, r \in S : F[<<n, r>>] = Once(r, s[n])
  <2>1. ASSUME NEW p \in (1..N) \X S PROVE Once(p[2], s[p[1]]) \in S
    BY <1>2
  <2> QED BY <2>1
<1> HIDE DEF F
<1>4. PICK f : f \in [0..N -> S] /\ f[0] = <<>> /\ \A n \in 1..N : f[n] = F[<<n, f[n - 1]>>]
  <2>1. \E f : Run(S, N, <<>>, F, f)
    BY <1>1, <1>3, LoopRuns
  <2> QED BY <2>1 DEF Run
<1>5. ASSUME NEW n \in 1..N PROVE f[n] = Once(f[n - 1], s[n])
  <2>1. n - 1 \in 0..N /\ f[n - 1] \in S
    BY <1>1, <1>4
  <2> QED BY <1>3, <1>4, <2>1
<1>6. f = Body(f)
  <2>1. f = [n \in 0..N |-> f[n]]
    BY <1>4
  <2>2. ASSUME NEW n \in 0..N PROVE f[n] = Body(f)[n]
    <3>1. CASE n = 0
      BY <1>4, <3>1
    <3>2. CASE n # 0
      <4>1. n \in 1..N
        BY <1>1, <3>2
      <4>2. Body(f)[n] = Once(f[n - 1], s[n])
        BY <3>2
      <4> QED BY <1>5, <4>1, <4>2
    <3> QED BY <3>1, <3>2
  <2> QED BY <2>1, <2>2
<1> DEFINE out == CHOOSE h : h = Body(h)
<1>7. out = Body(out)
  BY <1>6
<1>8. dedupePorts(s) = out[N]
  BY DEF dedupePorts, N
<1> HIDE DEF out
<1>9. out[0] = <<>> /\ \A n \in 1..N : out[n] = Once(out[n - 1], s[n])
  <2>1. \A n \in 0..N : out[n] = Body(out)[n]
    BY <1>7
  <2>2. 0 \in 0..N /\ \A n \in 1..N : n \in 0..N /\ n # 0
    BY <1>1
  <2> QED BY <2>1, <2>2
<1> DEFINE Good == {n \in 0..N : out[n] \in S}
<1>10. Good = 0..N
  <2>1. 0 \in Good
    BY <1>1, <1>9
  <2>2. ASSUME NEW n \in 1..N, n - 1 \in Good PROVE n \in Good
    <3>1. out[n - 1] \in S /\ n \in 0..N
      BY <1>1, <2>2
    <3> QED BY <1>2, <1>9, <3>1
  <2>3. Good \in SUBSET (0..N)
    OBVIOUS
  <2> HIDE DEF Good
  <2> QED BY <1>1, <2>1, <2>2, <2>3, EachTurn
<1>11. out \in [0..N -> S]
  <2>1. DOMAIN out = 0..N /\ out = [n \in DOMAIN out |-> out[n]]
    BY <1>7
  <2>2. \A n \in 0..N : out[n] \in S
    BY <1>10
  <2> QED BY <2>1, <2>2
<1> QED BY <1>8, <1>9, <1>11 DEF S, N

\* The ports of one token are those it names, in order.
LEMMA TokenPorts ==
  ASSUME NEW t \in PortTokens, t.kind = "number" => t.lo = t.hi
  PROVE  LET s == parsePortToken(t).ports IN
           /\ s \in Seq(PortSpace)
           /\ \A m \in 1..Len(s) : s[m] \in Named(t)
           /\ \A p \in Named(t) : \E m \in 1..Len(s) : s[m] = p
           /\ \A m, o \in 1..Len(s) : m < o => s[m] < s[o]
<1> DEFINE s == parsePortToken(t).ports
<1>0. MaxPort \in Nat /\ MaxPort > 0 /\ t.lo \in Int /\ t.hi \in Int /\ t.kind \in {"junk", "number", "range"}
  BY PortsAssumption DEF PortTokens
<1>1. CASE t.kind = "number" /\ validPort(t.lo)
  <2>1. s = <<t.lo>>
    BY <1>1 DEF parsePortToken
  <2>2. Named(t) = {t.lo} /\ t.lo \in PortSpace
    BY <1>0, <1>1 DEF Named, validPort, PortSpace
  <2> HIDE DEF s
  <2>3. Len(s) = 1 /\ s[1] = t.lo /\ s \in Seq(PortSpace)
    BY <2>1, <2>2
  <2> QED BY <2>2, <2>3 DEF s
<1>2. CASE t.kind = "range" /\ t.lo <= t.hi
  <2> DEFINE from == IF t.lo < 1 THEN 1 ELSE t.lo
             to == IF t.hi > MaxPort THEN MaxPort ELSE t.hi
  <2>1. s = IF from > to THEN <<>> ELSE [k \in 1..(to - from + 1) |-> from + k - 1]
    BY <1>2 DEF parsePortToken, Expand
  <2>2. from \in Int /\ to \in Int /\ from >= 1 /\ to <= MaxPort
    BY <1>0
  <2>3. Named(t) = {p \in PortSpace : from <= p /\ p <= to}
    BY <1>0, <1>2 DEF Named, PortSpace
  <2> HIDE DEF s, from, to
  <2>4. CASE from > to
    <3>1. s = <<>> /\ Named(t) = {}
      BY <1>0, <2>1, <2>2, <2>3, <2>4 DEF PortSpace
    <3>2. <<>> \in Seq(PortSpace) /\ Len(<<>>) = 0
      OBVIOUS
    <3> QED BY <3>1, <3>2 DEF s
  <2>5. CASE from <= to
    <3> DEFINE L == to - from + 1
    <3>1. L \in Nat /\ s = [k \in 1..L |-> from + k - 1]
      BY <2>1, <2>2, <2>5
    <3>2. \A k \in 1..L : from + k - 1 \in PortSpace /\ from + k - 1 \in Named(t)
      BY <1>0, <2>2, <2>3 DEF PortSpace
    <3>3. \A p \in Named(t) : p - from + 1 \in 1..L /\ from + (p - from + 1) - 1 = p
      BY <1>0, <2>2, <2>3 DEF PortSpace
    <3> HIDE DEF L
    <3>4. s \in Seq(PortSpace) /\ Len(s) = L
      BY <3>1, <3>2
    <3>5. \A k \in 1..L : s[k] = from + k - 1
      BY <3>1
    <3>6. \A p \in Named(t) : \E m \in 1..L : s[m] = p
      BY <3>3, <3>5
    <3>7. \A m, o \in 1..L : m < o => s[m] < s[o]
      BY <2>2, <3>1, <3>5
    <3>8. \A m \in 1..L : s[m] \in Named(t)
      BY <3>2, <3>5
    <3> QED BY <3>4, <3>6, <3>7, <3>8 DEF s
  <2> QED BY <2>2, <2>4, <2>5
<1>3. CASE ~(t.kind = "number" /\ validPort(t.lo)) /\ ~(t.kind = "range" /\ t.lo <= t.hi)
  <2>1. s = <<>>
    BY <1>3 DEF parsePortToken
  <2>2. Named(t) = {}
    BY <1>0, <1>3 DEF Named, validPort
  <2>3. <<>> \in Seq(PortSpace) /\ Len(<<>>) = 0
    OBVIOUS
  <2> HIDE DEF s
  <2> QED BY <2>1, <2>2, <2>3 DEF s
<1> QED BY <1>1, <1>2, <1>3

\* The ports s are those of the first n tokens, the m-th of token from[m]: token
\* after token, and in order within each.
PortsOf(s, from, tokens, n) ==
  /\ from \in [1..Len(s) -> 1..n]
  /\ \A m \in 1..Len(s) : s[m] \in Named(tokens[from[m]])
  /\ \A k \in 1..n : \A p \in Named(tokens[k]) : \E m \in 1..Len(s) : from[m] = k /\ s[m] = p
  /\ \A m, o \in 1..Len(s) : m < o => from[m] < from[o] \/ (from[m] = from[o] /\ s[m] < s[o])

LEMMA OneTokenMore ==
  ASSUME NEW tokens, NEW b \in Nat, NEW n \in Nat, n = b + 1,
         NEW s \in Seq(PortSpace), NEW r \in Seq(PortSpace), NEW from, PortsOf(s, from, tokens, b),
         \A m \in 1..Len(r) : r[m] \in Named(tokens[n]),
         \A p \in Named(tokens[n]) : \E m \in 1..Len(r) : r[m] = p,
         \A m, o \in 1..Len(r) : m < o => r[m] < r[o]
  PROVE  \E f : PortsOf(s \o r, f, tokens, n)
<1> DEFINE u == s \o r
           f == [m \in 1..Len(u) |-> IF m <= Len(s) THEN from[m] ELSE n]
<1>1. /\ u \in Seq(PortSpace) /\ Len(u) = Len(s) + Len(r) /\ Len(s) \in Nat /\ Len(r) \in Nat
      /\ \A m \in 1..Len(s) : u[m] = s[m]
      /\ \A m \in 1..Len(r) : u[Len(s) + m] = r[m]
  OBVIOUS
<1> HIDE DEF u
<1>2. \A m \in 1..Len(s) : m \in 1..Len(u) /\ from[m] \in 1..b
  <2>1. from \in [1..Len(s) -> 1..b]
    BY Zenon DEF PortsOf
  <2> QED BY <1>1, <2>1
<1>3. \A m \in 1..Len(r) : Len(s) + m \in 1..Len(u)
  BY <1>1
<1>4. \A m \in 1..Len(s) : f[m] = from[m]
  BY <1>1, <1>2
<1>5. \A m \in 1..Len(u) : m > Len(s) => m - Len(s) \in 1..Len(r) /\ u[m] = r[m - Len(s)] /\ f[m] = n
  BY <1>1
<1>6. f \in [1..Len(u) -> 1..n]
  BY <1>1, <1>2
<1> HIDE DEF f
<1>7. ASSUME NEW m \in 1..Len(u) PROVE u[m] \in Named(tokens[f[m]])
  <2>1. CASE m <= Len(s)
    <3>1. m \in 1..Len(s)
      BY <1>1, <2>1
    <3> QED BY <1>1, <1>4, <3>1 DEF PortsOf
  <2>2. CASE m > Len(s)
    BY <1>5, <2>2
  <2> QED BY <1>1, <2>1, <2>2
<1>8. ASSUME NEW k \in 1..n, NEW p \in Named(tokens[k])
      PROVE  \E m \in 1..Len(u) : f[m] = k /\ u[m] = p
  <2>1. CASE k = n
    <3>1. PICK m \in 1..Len(r) : r[m] = p
      BY <2>1
    <3>2. Len(s) + m \in 1..Len(u) /\ Len(s) + m > Len(s) /\ u[Len(s) + m] = p
      BY <1>1, <1>3, <3>1, SMTT(30)
    <3> QED BY <1>5, <2>1, <3>2
  <2>2. CASE k # n
    <3>1. k \in 1..b
      BY <2>2
    <3>2. PICK m \in 1..Len(s) : from[m] = k /\ s[m] = p
      BY <3>1, Zenon DEF PortsOf
    <3> QED BY <1>1, <1>2, <1>4, <3>2
  <2> QED BY <2>1, <2>2
<1>9. ASSUME NEW m \in 1..Len(u), NEW o \in 1..Len(u), m < o
      PROVE  f[m] < f[o] \/ (f[m] = f[o] /\ u[m] < u[o])
  <2>1. CASE o <= Len(s)
    <3>1. m \in 1..Len(s) /\ o \in 1..Len(s)
      BY <1>1, <1>9, <2>1
    <3> QED BY <1>1, <1>4, <1>9, <3>1 DEF PortsOf
  <2>2. CASE m <= Len(s) /\ o > Len(s)
    <3>1. m \in 1..Len(s)
      BY <1>1, <2>2
    <3>2. f[o] = n /\ f[m] \in 1..b
      BY <1>2, <1>4, <1>5, <2>2, <3>1
    <3> QED BY <3>2
  <2>3. CASE m > Len(s) /\ o > Len(s)
    <3> DEFINE i == m - Len(s)
               j == o - Len(s)
    <3>1. i \in 1..Len(r) /\ j \in 1..Len(r) /\ i < j
      BY <1>1, <1>5, <1>9, <2>3
    <3>2. u[m] = r[i] /\ u[o] = r[j] /\ f[m] = f[o]
      BY <1>5, <2>3
    <3> HIDE DEF i, j
    <3> QED BY <3>1, <3>2
  <2> QED BY <1>1, <1>9, <2>1, <2>2, <2>3
<1> QED BY <1>6, <1>7, <1>8, <1>9 DEF PortsOf, u

\* So the loop over the tokens makes the ports of all of them.
LEMMA ExpandedIs ==
  ASSUME NEW tokens \in Seq(PortTokens), \A k \in DOMAIN tokens : tokens[k].kind = "number" => tokens[k].lo = tokens[k].hi
  PROVE  /\ Expanded(tokens) \in Seq(PortSpace)
         /\ \E from : PortsOf(Expanded(tokens), from, tokens, Len(tokens))
<1> DEFINE N == Len(tokens)
           part(n) == parsePortToken(tokens[n]).ports
<1>0. N \in Nat
  OBVIOUS
<1>1. ASSUME NEW n \in 1..N
      PROVE  /\ part(n) \in Seq(PortSpace)
             /\ \A m \in 1..Len(part(n)) : part(n)[m] \in Named(tokens[n])
             /\ \A p \in Named(tokens[n]) : \E m \in 1..Len(part(n)) : part(n)[m] = p
             /\ \A m, o \in 1..Len(part(n)) : m < o => part(n)[m] < part(n)[o]
  <2>1. tokens[n] \in PortTokens /\ (tokens[n].kind = "number" => tokens[n].lo = tokens[n].hi)
    BY <1>1
  <2> QED BY <2>1, TokenPorts
<1>2. PICK upTo \in [0..N -> Seq(PortSpace)] :
        /\ upTo[0] = <<>>
        /\ \A n \in 1..N : upTo[n] = upTo[n - 1] \o part(n)
        /\ Expanded(tokens) = upTo[N]
  BY <1>0, <1>1, ExpandedSteps
<1> HIDE DEF N, part
<1> DEFINE Good == {n \in 0..N : \E from : PortsOf(upTo[n], from, tokens, n)}
<1>3. 0 \in Good
  <2> DEFINE from == [m \in 1..0 |-> 0]
  <2>1. Len(<<>>) = 0 /\ 1..0 = {}
    OBVIOUS
  <2>2. PortsOf(<<>>, from, tokens, 0)
    BY <2>1 DEF PortsOf
  <2> QED BY <1>0, <1>2, <2>2
<1>4. ASSUME NEW n \in 1..N, n - 1 \in Good PROVE n \in Good
  <2>1. PICK from : PortsOf(upTo[n - 1], from, tokens, n - 1)
    BY <1>4
  <2>2. n \in Nat \ {0} /\ n \in 0..N /\ upTo[n - 1] \in Seq(PortSpace) /\ upTo[n] = upTo[n - 1] \o part(n)
    <3>1. n \in Nat \ {0} /\ n \in 0..N /\ n - 1 \in 0..N
      BY <1>0
    <3> QED BY <1>2, <3>1
  <2>3. \E f : PortsOf(upTo[n - 1] \o part(n), f, tokens, n)
    <3> DEFINE s == upTo[n - 1]
               r == part(n)
    <3>1. s \in Seq(PortSpace) /\ r \in Seq(PortSpace) /\ PortsOf(s, from, tokens, n - 1)
      BY <1>1, <2>1, <2>2
    <3>2. /\ \A m \in 1..Len(r) : r[m] \in Named(tokens[n])
          /\ \A p \in Named(tokens[n]) : \E m \in 1..Len(r) : r[m] = p
          /\ \A m, o \in 1..Len(r) : m < o => r[m] < r[o]
      BY <1>1
    <3> HIDE DEF s, r
    <3>3. \E f : PortsOf(s \o r, f, tokens, n)
      <4> DEFINE b == n - 1
      <4>1. b \in Nat /\ n \in Nat /\ n = b + 1 /\ PortsOf(s, from, tokens, b)
        BY <2>2, <3>1
      <4> HIDE DEF b
      <4> QED BY <3>1, <3>2, <4>1, OneTokenMore
    <3> QED BY <3>3 DEF s, r
  <2> QED BY <2>2, <2>3
<1>5. N \in Good
  <2>1. Good \in SUBSET (0..N)
    OBVIOUS
  <2> HIDE DEF Good
  <2>2. Good = 0..N
    BY <1>0, <1>3, <1>4, <2>1, EachTurn
  <2> QED BY <1>0, <2>2
<1>6. upTo[N] \in Seq(PortSpace)
  BY <1>0, <1>2
<1> QED BY <1>2, <1>5, <1>6 DEF N

\* out holds each of the first n ports of s once, the i-th from its first place at[i].
OnceEach(s, out, at, n) ==
  /\ at \in [1..Len(out) -> 1..n]
  /\ \A i \in 1..Len(out) : out[i] = s[at[i]] /\ \A m \in 1..(at[i] - 1) : s[m] # out[i]
  /\ \A i, j \in 1..Len(out) : i < j => at[i] < at[j]
  /\ \A m \in 1..n : \E i \in 1..Len(out) : out[i] = s[m]

LEMMA OnePortMore ==
  ASSUME NEW s \in Seq(PortSpace), NEW out \in Seq(PortSpace), NEW at, NEW b \in Nat, NEW n \in Nat, n = b + 1,
         n <= Len(s), OnceEach(s, out, at, b)
  PROVE  \E q : OnceEach(s, Once(out, s[n]), q, n)
<1>1. /\ at \in [1..Len(out) -> 1..b]
      /\ \A i \in 1..Len(out) : out[i] = s[at[i]] /\ \A m \in 1..(at[i] - 1) : s[m] # out[i]
      /\ \A i, j \in 1..Len(out) : i < j => at[i] < at[j]
      /\ \A m \in 1..b : \E i \in 1..Len(out) : out[i] = s[m]
  BY DEF OnceEach
<1>2. Len(out) \in Nat /\ s[n] \in PortSpace /\ \A m \in 1..n : m \in 1..b \/ m = n
  OBVIOUS
<1>3. CASE s[n] \in Range(out)
  <2>1. Once(out, s[n]) = out
    BY <1>3 DEF Once
  <2>2. at \in [1..Len(out) -> 1..n]
    BY <1>1
  <2>3. \E i \in 1..Len(out) : out[i] = s[n]
    BY <1>3 DEF Range
  <2>4. \A m \in 1..n : \E i \in 1..Len(out) : out[i] = s[m]
    BY <1>1, <1>2, <2>3
  <2>5. OnceEach(s, out, at, n)
    BY <1>1, <2>2, <2>4 DEF OnceEach
  <2> QED BY <2>1, <2>5
<1>4. CASE s[n] \notin Range(out)
  <2> DEFINE L == Len(out)
             new == Append(out, s[n])
             q == [i \in 1..Len(new) |-> IF i <= L THEN at[i] ELSE n]
  <2>1. Once(out, s[n]) = new
    BY <1>4 DEF Once
  <2>2. Len(new) = L + 1 /\ new[L + 1] = s[n] /\ \A i \in 1..L : new[i] = out[i]
    BY <1>2
  <2>3. \A i \in 1..Len(new) : i \in 1..L \/ i = L + 1
    BY <1>2, <2>2
  <2>4. /\ \A i \in 1..L : i \in 1..Len(new) /\ q[i] = at[i] /\ at[i] \in 1..b
        /\ L + 1 \in 1..Len(new) /\ q[L + 1] = n
    <3> HIDE DEF new
    <3>1. L \in Nat /\ \A i \in 1..L : i \in 1..Len(new) /\ i <= L
      BY <1>2, <2>2
    <3>2. L + 1 \in 1..Len(new) /\ ~(L + 1 <= L)
      BY <2>2, <3>1
    <3> HIDE DEF L
    <3>3. \A i \in 1..L : at[i] \in 1..b
      BY <1>1 DEF L
    <3> QED BY <3>1, <3>2, <3>3
  <2>5. q \in [1..Len(new) -> 1..n]
    BY <1>1, <1>2, <2>2
  <2>6. \A i \in 1..L : out[i] # s[n]
    BY <1>4 DEF Range
  <2> HIDE DEF L, new, q
  <2>7. ASSUME NEW i \in 1..Len(new) PROVE new[i] = s[q[i]] /\ \A m \in 1..(q[i] - 1) : s[m] # new[i]
    <3>1. CASE i \in 1..L
      BY <1>1, <2>2, <2>4, <3>1, ZenonT(60) DEF L
    <3>2. CASE i = L + 1
      <4>1. ASSUME NEW m \in 1..(n - 1), s[m] = s[n] PROVE FALSE
        <5>1. m \in 1..b
          OBVIOUS
        <5>2. PICK j \in 1..Len(out) : out[j] = s[m]
          BY <1>1, <5>1
        <5> QED BY <2>6, <4>1, <5>2 DEF L
      <4> QED BY <2>2, <2>4, <3>2, <4>1
    <3> QED BY <2>3, <3>1, <3>2
  <2>8. ASSUME NEW i \in 1..Len(new), NEW j \in 1..Len(new), i < j PROVE q[i] < q[j]
    <3>0. L \in Nat
      BY <1>2 DEF L
    <3>1. i \in 1..L
      BY <2>3, <2>2, <2>8, <3>0
    <3>2. CASE j \in 1..L
      BY <1>1, <2>4, <2>8, <3>1, <3>2 DEF L
    <3>3. CASE j = L + 1
      BY <2>4, <3>1, <3>3
    <3> QED BY <2>3, <3>2, <3>3
  <2>9. ASSUME NEW m \in 1..n PROVE \E i \in 1..Len(new) : new[i] = s[m]
    <3>1. CASE m = n
      BY <2>2, <2>4, <3>1
    <3>2. CASE m \in 1..b
      <4>1. PICK i \in 1..L : out[i] = s[m]
        BY <1>1, <3>2 DEF L
      <4> QED BY <2>2, <2>4, <4>1
    <3> QED BY <1>2, <3>1, <3>2
  <2>10. OnceEach(s, new, q, n)
    BY <2>5, <2>7, <2>8, <2>9 DEF OnceEach
  <2> QED BY <2>1, <2>10
<1> QED BY <1>3, <1>4

LEMMA DedupeIs ==
  ASSUME NEW s \in Seq(PortSpace)
  PROVE  dedupePorts(s) \in Seq(PortSpace) /\ \E at : OnceEach(s, dedupePorts(s), at, Len(s))
<1> DEFINE N == Len(s)
<1>0. N \in Nat
  OBVIOUS
<1>1. PICK out \in [0..N -> Seq(PortSpace)] :
        /\ out[0] = <<>>
        /\ \A n \in 1..N : out[n] = Once(out[n - 1], s[n])
        /\ dedupePorts(s) = out[N]
  BY DedupeSteps
<1> HIDE DEF N
<1> DEFINE Good == {n \in 0..N : \E at : OnceEach(s, out[n], at, n)}
<1>2. 0 \in Good
  <2> DEFINE at == [m \in 1..0 |-> 0]
  <2>1. Len(<<>>) = 0 /\ 1..0 = {}
    OBVIOUS
  <2>2. OnceEach(s, <<>>, at, 0)
    BY <2>1 DEF OnceEach
  <2> QED BY <1>0, <1>1, <2>2
<1>3. ASSUME NEW n \in 1..N, n - 1 \in Good PROVE n \in Good
  <2> DEFINE b == n - 1
             o == out[n - 1]
  <2>1. PICK at : OnceEach(s, o, at, b)
    BY <1>3
  <2>2. b \in Nat /\ n \in Nat /\ n = b + 1 /\ n <= Len(s) /\ n \in 0..N /\ b \in 0..N
    BY <1>0 DEF N
  <2>3. o \in Seq(PortSpace) /\ out[n] = Once(o, s[n])
    BY <1>1, <2>2
  <2> HIDE DEF b, o
  <2>4. \E q : OnceEach(s, Once(o, s[n]), q, n)
    BY <2>1, <2>2, <2>3, OnePortMore
  <2> QED BY <2>2, <2>3, <2>4
<1>4. N \in Good
  <2>1. Good \in SUBSET (0..N)
    OBVIOUS
  <2> HIDE DEF Good
  <2>2. Good = 0..N
    BY <1>0, <1>2, <1>3, <2>1, EachTurn
  <2> QED BY <1>0, <2>2
<1>5. out[N] \in Seq(PortSpace)
  BY <1>0, <1>1
<1> QED BY <1>1, <1>4, <1>5 DEF N

\* What is once each of the ports of the tokens is as it is asked for.
LEMMA OrderOfNaming ==
  ASSUME arg \in Arguments, NEW s \in Seq(PortSpace), NEW from, PortsOf(s, from, arg.tokens, Len(arg.tokens)),
         NEW out \in Seq(PortSpace), NEW at, OnceEach(s, out, at, Len(s))
  PROVE  /\ Range(out) = UNION {Named(arg.tokens[k]) : k \in DOMAIN arg.tokens}
         /\ \A i, j \in DOMAIN out : i < j =>
              \/ FirstToken(out[i]) < FirstToken(out[j])
              \/ FirstToken(out[i]) = FirstToken(out[j]) /\ out[i] < out[j]
<1> DEFINE tokens == arg.tokens
           N == Len(tokens)
           asked == UNION {Named(tokens[k]) : k \in DOMAIN tokens}
<1>0. N \in Nat /\ DOMAIN tokens = 1..N /\ DOMAIN out = 1..Len(out) /\ Len(s) \in Nat
  BY PortsAssumption
<1>1. /\ from \in [1..Len(s) -> 1..N]
      /\ \A m \in 1..Len(s) : s[m] \in Named(tokens[from[m]])
      /\ \A k \in 1..N : \A p \in Named(tokens[k]) : \E m \in 1..Len(s) : from[m] = k /\ s[m] = p
      /\ \A m, o \in 1..Len(s) : m < o => from[m] < from[o] \/ (from[m] = from[o] /\ s[m] < s[o])
  BY Zenon DEF PortsOf
<1>2. /\ at \in [1..Len(out) -> 1..Len(s)]
      /\ \A i \in 1..Len(out) : out[i] = s[at[i]] /\ \A m \in 1..(at[i] - 1) : s[m] # out[i]
      /\ \A i, j \in 1..Len(out) : i < j => at[i] < at[j]
      /\ \A m \in 1..Len(s) : \E i \in 1..Len(out) : out[i] = s[m]
  BY Zenon DEF OnceEach
<1>3. ASSUME NEW i \in 1..Len(out) PROVE FirstToken(out[i]) = from[at[i]] /\ out[i] \in Named(tokens[from[at[i]]])
  <2> DEFINE p == out[i]
             k == from[at[i]]
  <2>1. at[i] \in 1..Len(s) /\ k \in 1..N /\ p \in Named(tokens[k])
    BY <1>1, <1>2
  <2>2. ASSUME NEW j \in 1..(k - 1), p \in Named(tokens[j]) PROVE FALSE
    <3>1. j \in 1..N
      BY <2>1, <1>0
    <3>2. PICK m \in 1..Len(s) : from[m] = j /\ s[m] = p
      BY <1>1, <2>2, <3>1
    <3>3. m # at[i] /\ ~(m \in 1..(at[i] - 1))
      BY <1>2, <2>1, <3>2
    <3>4. at[i] < m
      BY <2>1, <3>3
    <3>5. k < j \/ k = j
      BY <1>1, <2>1, <3>2, <3>4
    <3> QED BY <2>1, <3>5
  <2> DEFINE First(x) == p \in Named(tokens[x]) /\ \A j \in 1..(x - 1) : p \notin Named(tokens[j])
  <2>3. First(k) /\ k \in DOMAIN tokens
    BY <1>0, <2>1, <2>2
  <2>4. \A x \in DOMAIN tokens : First(x) => x = k
    <3>1. SUFFICES ASSUME NEW x \in 1..N, First(x), x # k PROVE FALSE
      BY <1>0
    <3>2. x \in 1..(k - 1) \/ k \in 1..(x - 1)
      BY <2>1, <3>1
    <3> QED BY <2>3, <3>1, <3>2
  <2>5. FirstToken(p) = CHOOSE x \in DOMAIN tokens : First(x)
    BY DEF FirstToken
  <2> HIDE DEF First
  <2>6. FirstToken(p) = k
    BY <2>3, <2>4, <2>5
  <2> QED BY <2>1, <2>6
<1>4. Range(out) = asked
  <2>1. ASSUME NEW x \in Range(out) PROVE x \in asked
    <3>1. PICK i \in 1..Len(out) : x = out[i]
      BY <1>0 DEF Range
    <3>2. at[i] \in 1..Len(s)
      BY <1>2
    <3>3. from[at[i]] \in 1..N
      BY <1>1, <3>2
    <3> QED BY <1>0, <1>3, <3>1, <3>3
  <2>2. ASSUME NEW x \in asked PROVE x \in Range(out)
    <3>1. PICK k \in 1..N : x \in Named(tokens[k])
      BY <1>0
    <3>2. PICK m \in 1..Len(s) : s[m] = x
      BY <1>1, <3>1
    <3>3. PICK i \in 1..Len(out) : out[i] = s[m]
      BY <1>2
    <3> QED BY <1>0, <3>2, <3>3 DEF Range
  <2> QED BY <2>1, <2>2
<1>5. ASSUME NEW i \in 1..Len(out), NEW j \in 1..Len(out), i < j
      PROVE  \/ FirstToken(out[i]) < FirstToken(out[j])
             \/ FirstToken(out[i]) = FirstToken(out[j]) /\ out[i] < out[j]
  <2>1. at[i] \in 1..Len(s) /\ at[j] \in 1..Len(s) /\ at[i] < at[j] /\ out[i] = s[at[i]] /\ out[j] = s[at[j]]
    BY <1>2, <1>5
  <2>2. from[at[i]] < from[at[j]] \/ (from[at[i]] = from[at[j]] /\ s[at[i]] < s[at[j]])
    BY <1>1, <2>1
  <2> QED BY <1>3, <2>1, <2>2
<1> QED BY <1>0, <1>4, <1>5

\* parsePorts keeps the promise: a list of tokens by its loops, and a single
\* token without.
LEMMA ParsesWhatIsNamed ==
  ASSUME arg \in Arguments, ports = parsePorts(arg) PROVE SweepsWhatIsNamed
<1> DEFINE tokens == arg.tokens
           asked == UNION {Named(tokens[k]) : k \in DOMAIN tokens}
           s == Expanded(tokens)
<1> SUFFICES ASSUME asked # {}
             PROVE  /\ Range(ports) = asked
                    /\ \A i, j \in DOMAIN ports : i < j =>
                         \/ FirstToken(ports[i]) < FirstToken(ports[j])
                         \/ FirstToken(ports[i]) = FirstToken(ports[j]) /\ ports[i] < ports[j]
  BY DEF SweepsWhatIsNamed
<1>1. PICK k \in DOMAIN tokens : Named(tokens[k]) # {}
  OBVIOUS
<1>2. /\ tokens \in Seq(PortTokens) /\ Len(tokens) \in Nat /\ k \in 1..Len(tokens) /\ arg.preset = "no"
      /\ \A n \in DOMAIN tokens : tokens[n].kind = "number" => tokens[n].lo = tokens[n].hi
  <2>1. tokens \in Seq(PortTokens) /\ (arg.preset = "no" <=> tokens # <<>>)
    BY PortsAssumption
  <2>2. k \in 1..Len(tokens) /\ tokens # <<>> /\ Len(tokens) \in Nat
    BY <2>1
  <2> QED BY <2>1, <2>2, PortsAssumption
<1>3. CASE Len(tokens) >= 2
  <2>1. s \in Seq(PortSpace) /\ \E from : PortsOf(s, from, tokens, Len(tokens))
    BY <1>2, ExpandedIs
  <2>2. PICK from : PortsOf(s, from, tokens, Len(tokens))
    BY <2>1
  <2>3. PICK p : p \in Named(tokens[k])
    BY <1>1
  <2>4. \E m \in 1..Len(s) : from[m] = k /\ s[m] = p
    <3> HIDE DEF s, tokens
    <3>1. \A n \in 1..Len(tokens) : \A x \in Named(tokens[n]) : \E m \in 1..Len(s) : from[m] = n /\ s[m] = x
      BY <2>2, Zenon DEF PortsOf
    <3> QED BY <1>2, <2>3, <3>1, Zenon
  <2>5. s # <<>>
    BY <2>4
  <2>6. ports = dedupePorts(s)
    BY <1>2, <1>3, <2>5 DEF parsePorts
  <2>7. ports \in Seq(PortSpace) /\ \E at : OnceEach(s, ports, at, Len(s))
    BY <2>1, <2>6, DedupeIs
  <2> HIDE DEF s, tokens
  <2> QED BY <2>1, <2>2, <2>7, OrderOfNaming DEF tokens
<1>4. CASE Len(tokens) = 1
  <2> DEFINE t == tokens[1]
             r == parsePortToken(t).ports
             from == [m \in 1..Len(r) |-> 1]
             at == [m \in 1..Len(r) |-> m]
  <2>1. k = 1 /\ t \in PortTokens /\ (t.kind = "number" => t.lo = t.hi)
    BY <1>2, <1>4
  <2>2. /\ r \in Seq(PortSpace)
        /\ \A m \in 1..Len(r) : r[m] \in Named(t)
        /\ \A p \in Named(t) : \E m \in 1..Len(r) : r[m] = p
        /\ \A m, o \in 1..Len(r) : m < o => r[m] < r[o]
    BY <2>1, TokenPorts
  <2>3. parsePortToken(t).recognized
    <3>1. t.kind \in {"junk", "number", "range"} /\ t.lo \in Int /\ t.hi \in Int /\ MaxPort \in Nat
      BY <2>1, PortsAssumption DEF PortTokens
    <3>2. PICK p \in 1..MaxPort : t.kind # "junk" /\ t.lo <= p /\ p <= t.hi
      BY <1>1, <2>1 DEF Named
    <3>3. t.kind = "number" => validPort(t.lo)
      BY <2>1, <3>1, <3>2 DEF validPort
    <3> QED BY <3>1, <3>2, <3>3 DEF parsePortToken
  <2>4. ports = r
    BY <1>2, <1>4, <2>3 DEF parsePorts
  <2> HIDE DEF r
  <2>5. Len(r) \in Nat /\ from \in [1..Len(r) -> 1..1] /\ \A m \in 1..Len(r) : from[m] = 1
    BY <2>2
  <2>6. PortsOf(r, from, tokens, 1)
    <3> HIDE DEF from
    <3>1. \A x \in 1..1 : x = 1
      OBVIOUS
    <3> QED BY <2>2, <2>5, <3>1 DEF PortsOf
  <2>7. at \in [1..Len(r) -> 1..Len(r)] /\ \A m \in 1..Len(r) : at[m] = m
    OBVIOUS
  <2>8. OnceEach(r, r, at, Len(r))
    <3> HIDE DEF at
    <3>1. ASSUME NEW i \in 1..Len(r), NEW m \in 1..(i - 1) PROVE r[m] # r[i]
      <4>1. m \in 1..Len(r) /\ m < i
        BY <2>5
      <4>2. r[m] \in PortSpace /\ r[i] \in PortSpace /\ r[m] < r[i]
        BY <2>2, <4>1
      <4> QED BY <4>2, PortsAssumption DEF PortSpace
    <3> QED BY <2>5, <2>7, <3>1 DEF OnceEach
  <2>9. PortsOf(r, from, arg.tokens, Len(arg.tokens))
    BY <1>4, <2>6
  <2>10. r \in Seq(PortSpace) /\ ports \in Seq(PortSpace) /\ OnceEach(r, ports, at, Len(r))
    BY <2>2, <2>4, <2>8
  <2> HIDE DEF from, at, tokens
  <2> QED BY <2>9, <2>10, OrderOfNaming DEF tokens
<1>5. Len(tokens) = 1 \/ Len(tokens) >= 2
  <2> DEFINE N == Len(tokens)
  <2>1. N \in Nat /\ k \in 1..N
    BY <1>2
  <2> HIDE DEF N
  <2>2. N = 1 \/ N >= 2
    BY <2>1
  <2> QED BY <2>2 DEF N
<1> QED BY <1>3, <1>4, <1>5

\* For every argument and every size of the port space: an argument that names a
\* port is swept for exactly the ports it names, once each, in the order in
\* which they are first named (parsePorts, dedupePorts).
THEOREM SweptAsNamed == PortsSpec => []SweepsWhatIsNamed
<1> DEFINE PortsInv == arg \in Arguments /\ ports \in {Unparsed, parsePorts(arg)}
<1>1. PortsInit => PortsInv
  BY DEF PortsInit
<1>2. PortsInv /\ [PortsNext]_portsVars => PortsInv'
  BY DEF PortsNext, Parse, portsVars
<1>3. PortsInv => SweepsWhatIsNamed
  BY ParsesWhatIsNamed DEF SweepsWhatIsNamed, Parsed
<1> QED BY <1>1, <1>2, <1>3, PTL DEF PortsSpec

-----------------------------------------------------------------------------
(***************************************************************************)
(* The append handler (module Raft)                                        *)
(***************************************************************************)
Logs == Seq(Nat)

LEMMA PlaceType ==
  ASSUME NEW l \in Logs, NEW i \in Nat \ {0}, NEW entry \in Nat
  PROVE  Place(l, i, entry) \in Logs
<1>1. i <= Len(l) => SubSeq(l, 1, i - 1) \in Seq(Nat)
  BY DEF Logs
<1> QED BY <1>1 DEF Place, Replace, Logs

\* The loop over the entries is what its function says: the log after n entries
\* is that after n - 1 with the n-th put in its place.
LEMMA ReplicateSteps ==
  ASSUME NEW l \in Logs, NEW i \in Nat \ {0}, NEW entries \in Logs
  PROVE  \E after \in [0..Len(entries) -> Logs] :
           /\ after[0] = l
           /\ \A n \in 1..Len(entries) : after[n] = Place(after[n - 1], i + n - 1, entries[n])
           /\ Replicate(l, i, entries) = after[Len(entries)]
<1> DEFINE N == Len(entries)
           F == [p \in (1..N) \X Logs |-> Place(p[2], i + p[1] - 1, entries[p[1]])]
           Body(f) == [n \in 0..N |-> IF n = 0 THEN l ELSE Place(f[n - 1], i + n - 1, entries[n])]
<1>1. N \in Nat /\ \A n \in 1..N : entries[n] \in Nat
  BY DEF Logs
<1>2. \A n \in 1..N, s \in Logs : Place(s, i + n - 1, entries[n]) \in Logs
  <2>1. \A n \in 1..N : i + n - 1 \in Nat \ {0}
    BY <1>1
  <2> QED BY <1>1, <2>1, PlaceType
<1> HIDE DEF N
<1>3. F \in [(1..N) \X Logs -> Logs] /\ \A n \in 1..N, s \in Logs : F[<<n, s>>] = Place(s, i + n - 1, entries[n])
  <2>1. ASSUME NEW p \in (1..N) \X Logs PROVE Place(p[2], i + p[1] - 1, entries[p[1]]) \in Logs
    BY <1>2
  <2> QED BY <2>1
<1> HIDE DEF F
<1>4. PICK f : f \in [0..N -> Logs] /\ f[0] = l /\ \A n \in 1..N : f[n] = F[<<n, f[n - 1]>>]
  <2>1. \E f : Run(Logs, N, l, F, f)
    BY <1>1, <1>3, LoopRuns
  <2> QED BY <2>1 DEF Run
<1>5. ASSUME NEW n \in 1..N PROVE f[n] = Place(f[n - 1], i + n - 1, entries[n])
  <2>1. n - 1 \in 0..N /\ f[n - 1] \in Logs
    BY <1>1, <1>4
  <2> QED BY <1>3, <1>4, <2>1
<1>6. f = Body(f)
  <2>1. f = [n \in 0..N |-> f[n]]
    BY <1>4
  <2>2. ASSUME NEW n \in 0..N PROVE f[n] = Body(f)[n]
    <3>1. CASE n = 0
      BY <1>4, <3>1
    <3>2. CASE n # 0
      <4>1. n \in 1..N
        BY <1>1, <3>2
      <4>2. Body(f)[n] = Place(f[n - 1], i + n - 1, entries[n])
        BY <3>2
      <4> QED BY <1>5, <4>1, <4>2
    <3> QED BY <3>1, <3>2
  <2> QED BY <2>1, <2>2
<1> DEFINE after == CHOOSE h : h = Body(h)
<1>7. after = Body(after)
  BY <1>6
<1>8. Replicate(l, i, entries) = after[N]
  BY DEF Replicate, N
<1> HIDE DEF after
<1>9. after[0] = l /\ \A n \in 1..N : after[n] = Place(after[n - 1], i + n - 1, entries[n])
  <2>1. \A n \in 0..N : after[n] = Body(after)[n]
    BY <1>7
  <2>2. 0 \in 0..N /\ \A n \in 1..N : n \in 0..N /\ n # 0
    BY <1>1
  <2> QED BY <2>1, <2>2
<1> DEFINE Good == {n \in 0..N : after[n] \in Logs}
<1>10. Good = 0..N
  <2>1. 0 \in Good
    BY <1>1, <1>9
  <2>2. ASSUME NEW n \in 1..N, n - 1 \in Good PROVE n \in Good
    <3>1. after[n - 1] \in Logs /\ n \in 0..N
      BY <1>1, <2>2
    <3> QED BY <1>2, <1>9, <3>1
  <2>3. Good \in SUBSET (0..N)
    OBVIOUS
  <2> HIDE DEF Good
  <2> QED BY <1>1, <2>1, <2>2, <2>3, EachTurn
<1>11. after \in [0..N -> Logs]
  <2>1. DOMAIN after = 0..N /\ after = [n \in DOMAIN after |-> after[n]]
    BY <1>7
  <2>2. \A n \in 0..N : after[n] \in Logs
    BY <1>10
  <2> QED BY <2>1, <2>2
<1> QED BY <1>8, <1>9, <1>11 DEF N

\* The log is a log, and as far as it had no gap it agrees with every leader.
MatchInv == log \in Logs /\ gap \in BOOLEAN /\ LogMatching

\* A log that begins like a leader's, up to place k and no further, agrees with
\* every leader.
LEMMA PrefixAgrees ==
  ASSUME NEW term \in DOMAIN LeaderLogs, NEW l \in Logs, Len(l) <= Len(LeaderLogs[term]),
         \A j \in 1..Len(l) : l[j] = LeaderLogs[term][j]
  PROVE  \A t \in DOMAIN LeaderLogs : Agree(l, LeaderLogs[t])
<1> SUFFICES ASSUME NEW t \in DOMAIN LeaderLogs, NEW i \in DOMAIN l \cap DOMAIN LeaderLogs[t],
                    l[i] = LeaderLogs[t][i], NEW j \in 1..i
             PROVE  l[j] = LeaderLogs[t][j]
  BY DEF Agree
<1>1. LeaderLogs[term] \in Seq(Nat) /\ LeaderLogs[t] \in Seq(Nat) /\ l \in Seq(Nat)
  BY LogsAreOfTerms DEF Logs
<1>2. i \in 1..Len(l) /\ j \in 1..Len(l) /\ i \in DOMAIN LeaderLogs[term]
  BY <1>1
<1>3. LeaderLogs[term][i] = LeaderLogs[t][i]
  BY <1>2
<1>4. LeaderLogs[term][j] = LeaderLogs[t][j]
  BY <1>2, <1>3, LeadersAgree DEF Agree
<1> QED BY <1>2, <1>4

\* One entry of a leader put where the log has all before it: the log then has
\* one more entry of the leader, and agrees with all as it did.
LEMMA PlaceKeeps ==
  ASSUME NEW term \in DOMAIN LeaderLogs, NEW l \in Logs, NEW k \in 1..Len(LeaderLogs[term]),
         k - 1 <= Len(l), \A j \in 1..(k - 1) : l[j] = LeaderLogs[term][j],
         \A t \in DOMAIN LeaderLogs : Agree(l, LeaderLogs[t])
  PROVE  /\ k <= Len(Place(l, k, LeaderLogs[term][k]))
         /\ \A j \in 1..k : Place(l, k, LeaderLogs[term][k])[j] = LeaderLogs[term][j]
         /\ \A t \in DOMAIN LeaderLogs : Agree(Place(l, k, LeaderLogs[term][k]), LeaderLogs[t])
<1> DEFINE entry == LeaderLogs[term][k]
           m == Place(l, k, entry)
<1>1. LeaderLogs[term] \in Seq(Nat) /\ l \in Seq(Nat) /\ entry \in Nat /\ k \in Nat \ {0}
  BY LogsAreOfTerms DEF Logs
<1>2. m \in Logs
  BY <1>1, PlaceType
<1>3. CASE k <= Len(l) /\ l[k] = entry
  <2>1. m = l
    BY <1>1, <1>3 DEF Place
  <2>2. \A j \in 1..k : l[j] = LeaderLogs[term][j]
    BY <1>1, <1>3
  <2> QED BY <1>3, <2>1, <2>2
<1>4. CASE ~(k <= Len(l) /\ l[k] = entry)
  <2>1. Len(m) = k /\ m[k] = entry /\ \A j \in 1..(k - 1) : m[j] = l[j]
    <3>1. CASE k > Len(l)
      <4>1. m = Append(l, entry) /\ Len(l) = k - 1
        BY <1>1, <3>1 DEF Place
      <4> HIDE DEF m, entry
      <4> QED BY <1>1, <4>1
    <3>2. CASE k <= Len(l)
      <4> DEFINE s == SubSeq(l, 1, k - 1)
      <4>1. m = Append(s, entry)
        BY <1>1, <1>4, <3>2 DEF Place, Replace
      <4>2. s \in Seq(Nat) /\ Len(s) = k - 1 /\ \A j \in 1..(k - 1) : s[j] = l[j]
        BY <1>1, <3>2
      <4> HIDE DEF m, s, entry
      <4> QED BY <1>1, <4>1, <4>2
    <3> QED BY <1>1, <3>1, <3>2
  <2> HIDE DEF m
  <2>2. \A j \in 1..k : m[j] = LeaderLogs[term][j]
    BY <1>1, <2>1
  <2>3. \A t \in DOMAIN LeaderLogs : Agree(m, LeaderLogs[t])
    <3>1. Len(m) <= Len(LeaderLogs[term]) /\ \A j \in 1..Len(m) : m[j] = LeaderLogs[term][j]
      BY <1>1, <2>1, <2>2
    <3> HIDE DEF entry
    <3> QED BY <1>2, <3>1, PrefixAgrees
  <2> QED BY <1>1, <2>1, <2>2, <2>3 DEF m
<1> QED BY <1>1, <1>3, <1>4

\* A piece of a leader's log, put where the log has all before it
LEMMA ReplicateKeeps ==
  ASSUME NEW term \in DOMAIN LeaderLogs, NEW l \in Logs,
         NEW from \in 1..Len(LeaderLogs[term]), NEW to \in 0..Len(LeaderLogs[term]),
         from - 1 <= Len(l), \A j \in 1..(from - 1) : l[j] = LeaderLogs[term][j],
         \A t \in DOMAIN LeaderLogs : Agree(l, LeaderLogs[t])
  PROVE  \A t \in DOMAIN LeaderLogs : Agree(Replicate(l, from, SubSeq(LeaderLogs[term], from, to)), LeaderLogs[t])
<1> DEFINE entries == SubSeq(LeaderLogs[term], from, to)
           N == Len(entries)
<1>1. LeaderLogs[term] \in Seq(Nat) /\ from \in Nat \ {0} /\ to \in Nat
  BY LogsAreOfTerms
<1>2. /\ entries \in Logs /\ N \in Nat
      /\ \A n \in 1..N : entries[n] = LeaderLogs[term][from + n - 1] /\ from + n - 1 \in 1..Len(LeaderLogs[term])
  <2>1. CASE to < from
    <3>1. entries = <<>>
      BY <1>1, <2>1
    <3> QED BY <3>1 DEF Logs
  <2>2. CASE from <= to
    <3>1. entries \in Seq(Nat) /\ Len(entries) = to - from + 1
      BY <1>1, <2>2
    <3>2. \A n \in 1..(to - from + 1) : entries[n] = LeaderLogs[term][from + n - 1]
      BY <1>1, <2>2
    <3>3. \A n \in 1..(to - from + 1) : from + n - 1 \in 1..Len(LeaderLogs[term])
      BY <1>1, <2>2
    <3>4. N = to - from + 1 /\ N \in Nat
      BY <1>1, <3>1, <2>2
    <3> HIDE DEF N, entries
    <3> QED BY <3>1, <3>2, <3>3, <3>4 DEF Logs
  <2> QED BY <1>1, <2>1, <2>2
<1> HIDE DEF entries
<1>3. PICK after \in [0..N -> Logs] :
        /\ after[0] = l
        /\ \A n \in 1..N : after[n] = Place(after[n - 1], from + n - 1, entries[n])
        /\ Replicate(l, from, entries) = after[N]
  BY <1>1, <1>2, ReplicateSteps, ZenonT(30)
<1> DEFINE Good(n) == /\ from + n - 1 <= Len(after[n])
                      /\ \A j \in 1..(from + n - 1) : after[n][j] = LeaderLogs[term][j]
                      /\ \A t \in DOMAIN LeaderLogs : Agree(after[n], LeaderLogs[t])
           Bad == {n \in 0..N : ~Good(n)}
<1>4. Bad = {}
  <2> SUFFICES ASSUME Bad # {} PROVE FALSE
    OBVIOUS
  <2>1. PICK n \in Bad : \A k \in Bad : n <= k
    <3>1. Bad \in SUBSET Nat
      BY <1>2
    <3> QED BY <3>1, LeastNumber
  <2>2. Good(0)
    BY <1>1, <1>3
  <2>3. n \in 0..N /\ ~Good(n)
    OBVIOUS
  <2>4. n \in 1..N /\ n - 1 \in 0..N /\ ~(n <= n - 1)
    BY <1>2, <2>2, <2>3, SMTT(30)
  <2>5. Good(n - 1)
    <3> HIDE DEF Good
    <3> QED BY <2>1, <2>4
  <2> DEFINE k == from + n - 1
  <2>6. after[n - 1] \in Logs /\ k \in 1..Len(LeaderLogs[term])
    BY <1>2, <1>3, <2>4
  <2>6a. k - 1 = from + (n - 1) - 1 /\ k = from + n - 1
    BY <1>1, <1>2, <2>4
  <2>7. after[n] = Place(after[n - 1], k, LeaderLogs[term][k])
    BY <1>2, <1>3, <2>4
  <2>8. Good(n)
    <3> HIDE DEF k
    <3>1. /\ k - 1 <= Len(after[n - 1]) /\ \A j \in 1..(k - 1) : after[n - 1][j] = LeaderLogs[term][j]
          /\ \A t \in DOMAIN LeaderLogs : Agree(after[n - 1], LeaderLogs[t])
      BY <2>5, <2>6a
    <3>2. /\ k <= Len(after[n]) /\ \A j \in 1..k : after[n][j] = LeaderLogs[term][j]
          /\ \A t \in DOMAIN LeaderLogs : Agree(after[n], LeaderLogs[t])
      <4> DEFINE x == after[n - 1]
      <4>1. x \in Logs /\ k - 1 <= Len(x) /\ \A j \in 1..(k - 1) : x[j] = LeaderLogs[term][j]
        BY <2>6, <3>1
      <4>2. \A t \in DOMAIN LeaderLogs : Agree(x, LeaderLogs[t])
        BY <3>1
      <4>3. after[n] = Place(x, k, LeaderLogs[term][k]) /\ k \in 1..Len(LeaderLogs[term])
        BY <2>6, <2>7
      <4> HIDE DEF x
      <4>4. /\ k <= Len(Place(x, k, LeaderLogs[term][k]))
            /\ \A j \in 1..k : Place(x, k, LeaderLogs[term][k])[j] = LeaderLogs[term][j]
            /\ \A t \in DOMAIN LeaderLogs : Agree(Place(x, k, LeaderLogs[term][k]), LeaderLogs[t])
        BY <4>1, <4>2, <4>3, PlaceKeeps, Zenon
      <4> QED BY <4>3, <4>4, Zenon
    <3> QED BY <2>6a, <3>2
  <2> QED BY <2>3, <2>8
<1>5. Good(N)
  <2> HIDE DEF Good
  <2> QED BY <1>2, <1>4
<1> QED BY <1>3, <1>5 DEF entries

LEMMA MatchStep == MatchInv /\ [RaftNext]_raftVars => MatchInv'
<1>1. ASSUME MatchInv, UNCHANGED raftVars PROVE MatchInv'
  BY <1>1 DEF MatchInv, LogMatching, raftVars
<1>2. ASSUME MatchInv, NEW term \in DOMAIN LeaderLogs, NEW args \in AppendEntriesArgs(term), HandleAppendEntries(args)
      PROVE  MatchInv'
  <2> DEFINE l == LeaderLogs[term]
  <2>1. l \in Seq(Nat) /\ log \in Seq(Nat)
    BY <1>2, LogsAreOfTerms DEF MatchInv, Logs
  <2>2. PICK from \in 1..Len(l), commit \in 1..Len(l), to \in 0..Len(l) :
          /\ args.prevLogIndex = from - 2 /\ args.prevLogTerm = (IF from = 1 THEN 0 ELSE l[from - 1])
          /\ args.entries = SubSeq(l, from, to)
    <3>1. PICK from \in 1..Len(l), commit \in 1..Len(l), to \in 0..Len(l) :
            args = [term |-> term, prevLogIndex |-> from - 2, prevLogTerm |-> IF from = 1 THEN 0 ELSE l[from - 1],
                    entries |-> SubSeq(l, from, to), leaderCommit |-> commit - 1]
      BY <1>2 DEF AppendEntriesArgs
    <3>2. /\ args.prevLogIndex = from - 2 /\ args.prevLogTerm = (IF from = 1 THEN 0 ELSE l[from - 1])
          /\ args.entries = SubSeq(l, from, to)
      BY <3>1
    <3> QED BY <3>2
  <2>3. CASE ~Matches(args)
    BY <1>2, <2>3 DEF HandleAppendEntries, MatchInv, LogMatching
  <2>4. CASE Matches(args)
    <3>1. /\ log' = Replicate(log, from, SubSeq(l, from, to))
          /\ gap' = (gap \/ (from - 1 > Len(log) /\ SubSeq(l, from, to) # <<>>))
      <4>1. args.prevLogIndex + 2 = from /\ args.prevLogIndex + 1 = from - 1
        BY <2>1, <2>2
      <4> QED BY <1>2, <2>2, <2>4, <4>1 DEF HandleAppendEntries
    <3>2. from \in Nat \ {0} /\ SubSeq(l, from, to) \in Logs /\ log \in Logs
      BY <2>1 DEF Logs
    <3>3. log' \in Logs
      <4>1. PICK after \in [0..Len(SubSeq(l, from, to)) -> Logs] : log' = after[Len(SubSeq(l, from, to))]
        BY <3>1, <3>2, ReplicateSteps
      <4>2. Len(SubSeq(l, from, to)) \in Nat
        BY <3>2 DEF Logs
      <4> QED BY <4>1, <4>2
    <3>4. ASSUME ~gap' PROVE \A t \in DOMAIN LeaderLogs : Agree(log', LeaderLogs[t])
      <4>1. ~gap /\ \A t \in DOMAIN LeaderLogs : Agree(log, LeaderLogs[t])
        BY <1>2, <3>1, <3>4 DEF MatchInv, LogMatching
      <4>2. CASE from - 1 <= Len(log)
        <5>1. \A j \in 1..(from - 1) : log[j] = l[j]
          <6>1. CASE from = 1
            BY <6>1
          <6>2. CASE from # 1
            <7>1. from - 1 \in DOMAIN log /\ from - 1 \in DOMAIN l
              BY <2>1, <4>2, <6>2
            <7>2. log[from - 1] = l[from - 1]
              BY <2>1, <2>2, <2>4, <6>2, <7>1 DEF Matches
            <7> QED BY <4>1, <7>1, <7>2 DEF Agree
          <6> QED BY <6>1, <6>2
        <5> QED BY <3>1, <3>2, <4>1, <4>2, <5>1, ReplicateKeeps
      <4>3. CASE from - 1 > Len(log)
        <5>1. SubSeq(l, from, to) = <<>>
          BY <3>1, <3>4, <4>3
        <5>2. log' = log
          <6>1. PICK after \in [0..Len(SubSeq(l, from, to)) -> Logs] :
                  after[0] = log /\ log' = after[Len(SubSeq(l, from, to))]
            BY <3>1, <3>2, ReplicateSteps
          <6>2. Len(SubSeq(l, from, to)) = 0
            BY <5>1
          <6> QED BY <6>1, <6>2
        <5> QED BY <4>1, <5>2
      <4> QED BY <2>1, <4>2, <4>3
    <3>5. gap' \in BOOLEAN
      BY <1>2, <3>1 DEF MatchInv
    <3> QED BY <3>3, <3>4, <3>5 DEF MatchInv, LogMatching
  <2> QED BY <2>3, <2>4
<1> QED BY <1>1, <1>2 DEF RaftNext

\* Whatever leaders there are and whatever becomes of their requests: an entry
\* that the node has in common with a leader has the same entries before it, as
\* long as none was taken from behind the end of the log (HandleAppendEntries).
THEOREM LogsMatch == RaftSpec => []LogMatching
<1>1. RaftInit => MatchInv
  <2>1. ASSUME RaftInit, NEW t \in DOMAIN LeaderLogs PROVE Agree(log, LeaderLogs[t])
    BY <2>1 DEF RaftInit, Agree
  <2>2. RaftInit => log \in Seq(Nat) /\ gap \in BOOLEAN
    <3>1. <<1>> \in Seq(Nat)
      OBVIOUS
    <3> QED BY <3>1, Zenon DEF RaftInit
  <2> QED BY <2>1, <2>2 DEF MatchInv, LogMatching, Logs
<1>2. MatchInv => LogMatching
  BY DEF MatchInv
<1> QED BY <1>1, <1>2, MatchStep, PTL DEF RaftSpec

-----------------------------------------------------------------------------
(***************************************************************************)
(* The runners (module Runners)                                            *)
(***************************************************************************)
Hosts == TargetHosts \cup OtherHosts \cup {NoHost}
KnownPorts == SweepPorts \cup WalkPorts \cup ScopedPorts \cup {0} \cup UNION PortsGiven
Findings == [module : {"discovery", "asset", "recon"}, host : Hosts, port : KnownPorts, banner : Hosts]

InScope(p, named) == ScopedPorts # {} => p \in ScopedPorts \cup named

\* What a runner may leave behind: a port is one of the scope or was
\* given, unless recon reports it, and in the first campaign a banner, if there is one, is the
\* target's.
Sound(f, named) ==
  /\ f \in Findings
  /\ f.module # "recon" => InScope(f.port, named)
  /\ campaigns = 1 => f.banner \in {NoHost, target}

ContextInv ==
  /\ campaigns \in Nat /\ target \in Hosts
  /\ campaigns = 0 => step = "idle" /\ findings = <<>>
  /\ findings \in Seq(Findings)
  /\ \A i \in DOMAIN findings : Sound(findings[i], given)

RunnersInv == ContextInv /\ ProbesAreOfTheTarget

LEMMA FindingType ==
  ASSUME NEW module \in {"discovery", "asset", "recon"}, NEW host \in Hosts, NEW port \in KnownPorts, NEW banner \in Hosts
  PROVE  Finding(module, host, port, banner) \in Findings
BY DEF Finding, Findings

\* Sound rows behind sound findings
LEMMA RowsAreAdded ==
  ASSUME ContextInv, NEW rows \in Seq(Findings), \A j \in DOMAIN rows : Sound(rows[j], given'),
         findings' = findings \o rows, given \subseteq given', UNCHANGED <<campaigns, target>>, campaigns # 0
  PROVE  ContextInv'
<1> DEFINE new == findings \o rows
<1>1. findings \in Seq(Findings) /\ new \in Seq(Findings)
  BY DEF ContextInv
<1>2. ASSUME NEW i \in DOMAIN new PROVE Sound(new[i], given')
  <2>1. CASE i \in DOMAIN findings
    <3>1. new[i] = findings[i]
      BY <1>1, <2>1
    <3> QED BY <2>1, <3>1 DEF ContextInv, Sound, InScope
  <2>2. CASE i \notin DOMAIN findings
    <3>1. i - Len(findings) \in DOMAIN rows /\ new[i] = rows[i - Len(findings)]
      BY <1>1, <2>2
    <3> QED BY <3>1
  <2> QED BY <2>1, <2>2
<1>3. findings' = new
  OBVIOUS
<1> HIDE DEF new
<1>5. \A i \in DOMAIN findings' : Sound(findings[i], given)'
  BY <1>2, <1>3 DEF Sound, InScope
<1> QED BY <1>1, <1>3, <1>5 DEF ContextInv

\* What the campaign's runners touch besides the findings
LEMMA RunnersStep == RunnersInv /\ [RunnersNext]_runnerVars => RunnersInv'
<1> SUFFICES ASSUME RunnersInv, [RunnersNext]_runnerVars PROVE RunnersInv'
  OBVIOUS
<1>0. ContextInv /\ ProbesAreOfTheTarget /\ NoHost \in Hosts
  BY DEF RunnersInv, Hosts
<1>1. ASSUME UNCHANGED <<findings, connections, probes, campaigns, given, target>>, step' # step => campaigns # 0
      PROVE  RunnersInv'
  <2>1. ContextInv'
    BY <1>0, <1>1 DEF ContextInv, Sound, InScope
  <2>2. ProbesAreOfTheTarget'
    BY <1>0, <1>1 DEF ProbesAreOfTheTarget
  <2> QED BY <2>1, <2>2 DEF RunnersInv
<1>2. ASSUME NEW t \in TargetHosts, NEW paced \in BOOLEAN, RunCampaign(t, paced) PROVE RunnersInv'
  <2>1. campaigns' = campaigns + 1 /\ target' = t /\ UNCHANGED <<findings, given, connections, probes>>
    BY <1>2 DEF RunCampaign
  <2>2. campaigns' = 1 => findings = <<>>
    BY <1>0, <2>1 DEF ContextInv
  <2>3. campaigns' \in Nat /\ campaigns' # 0 /\ t \in Hosts
    BY <1>0, <2>1 DEF ContextInv, Hosts
  <2>4. \A i \in DOMAIN findings' : Sound(findings[i], given)'
    <3> SUFFICES ASSUME NEW i \in DOMAIN findings PROVE Sound(findings[i], given)'
      BY <2>1
    <3>1. campaigns' # 1
      BY <2>2
    <3> QED BY <1>0, <2>1, <3>1 DEF ContextInv, Sound, InScope
  <2>5. ContextInv'
    BY <1>0, <2>1, <2>3, <2>4 DEF ContextInv
  <2> QED BY <1>0, <2>1, <2>5 DEF RunnersInv, ProbesAreOfTheTarget
<1>3. CASE DiscoveryRunner
  <2>1. UNCHANGED <<target, step, campaigns, given, probes>> /\ step = "first"
    BY <1>3 DEF DiscoveryRunner
  <2>2. campaigns # 0 /\ target \in Hosts
    BY <1>0, <2>1 DEF ContextInv
  <2>3. PICK open \in SUBSET PortsToScan, rows \in UNION {ScanRows(o) : o \in SUBSET PortsToScan} :
          rows \in ScanRows(open) /\ findings' = findings \o rows
    BY <1>3 DEF DiscoveryRunner
  <2>4. IsFiniteSet(PortsToScan) /\ \A p \in PortsToScan : InScope(p, given) /\ p \in KnownPorts
    BY RunnersAssumption DEF PortsToScan, InScope, KnownPorts
  <2>5. Cardinality(open) \in Nat
    BY <2>4, FS_Subset, FS_CardinalityType
  <2> DEFINE Rows == {Finding("discovery", target, p, banner) : p \in open, banner \in {target, NoHost}}
  <2>6. \A f \in Rows : Sound(f, given)
    <3> SUFFICES ASSUME NEW p \in open, NEW banner \in {target, NoHost}
                 PROVE  Sound(Finding("discovery", target, p, banner), given)
      OBVIOUS
    <3>1. InScope(p, given) /\ p \in KnownPorts
      BY <2>4
    <3>2. Finding("discovery", target, p, banner) \in Findings
      BY <1>0, <2>2, <3>1, FindingType
    <3> QED BY <3>1, <3>2 DEF Sound, Finding
  <2>7. rows \in Seq(Findings) /\ \A j \in DOMAIN rows : Sound(rows[j], given)
    <3>1. rows \in [1..Cardinality(open) -> Rows] \/ rows = <<>>
      BY <2>3 DEF ScanRows
    <3> HIDE DEF Rows
    <3>2. \A f \in Rows : f \in Findings
      BY <2>6 DEF Sound
    <3>3. CASE rows \in [1..Cardinality(open) -> Rows]
      BY <2>5, <2>6, <3>2, <3>3
    <3>4. CASE rows = <<>>
      BY <3>4
    <3> QED BY <3>1, <3>3, <3>4
  <2>8. ContextInv'
    BY <1>0, <2>1, <2>2, <2>3, <2>7, RowsAreAdded
  <2>9. ProbesAreOfTheTarget'
    <3>1. connections' = connections \cup {<<target, p>> : p \in PortsToScan}
      BY <1>3 DEF DiscoveryRunner
    <3>2. \A c \in {<<target, p>> : p \in PortsToScan} : InScope(c[2], given)
      BY <2>4
    <3> QED BY <1>0, <2>1, <3>1, <3>2 DEF ProbesAreOfTheTarget, InScope
  <2> QED BY <2>8, <2>9 DEF RunnersInv
<1>4. CASE AssetRunner
  <2>1. UNCHANGED <<target, campaigns, connections, probes>> /\ step = "asset"
    BY <1>4 DEF AssetRunner
  <2>2. campaigns # 0
    BY <1>0, <2>1 DEF ContextInv
  <2>3. PICK tried \in PortsGiven \cup {AssetPorts} :
          /\ given' = given \cup (IF tried \in PortsGiven THEN tried ELSE {})
          /\ \/ UNCHANGED findings
             \/ \E h \in OtherHosts \cup {target}, p \in tried : findings' = Append(findings, Finding("asset", h, p, NoHost))
    BY <1>4 DEF AssetRunner
  <2>4. given \subseteq given' /\ \A p \in tried : InScope(p, given') /\ p \in KnownPorts
    BY <2>3 DEF AssetPorts, InScope, KnownPorts
  <2>5. ProbesAreOfTheTarget'
    BY <1>0, <2>1, <2>4 DEF ProbesAreOfTheTarget
  <2>6. CASE UNCHANGED findings
    <3>1. ContextInv'
      BY <1>0, <2>1, <2>2, <2>4, <2>6 DEF ContextInv, Sound, InScope
    <3> QED BY <2>5, <3>1 DEF RunnersInv
  <2>7. ASSUME NEW h \in OtherHosts \cup {target}, NEW p \in tried,
               findings' = Append(findings, Finding("asset", h, p, NoHost))
        PROVE  RunnersInv'
    <3> DEFINE f == Finding("asset", h, p, NoHost)
    <3>1. InScope(p, given') /\ p \in KnownPorts /\ h \in Hosts
      BY <1>0, <2>4 DEF Hosts, ContextInv
    <3>2. f \in Findings
      BY <1>0, <3>1, FindingType
    <3>3. Sound(f, given')
      BY <3>1, <3>2 DEF Sound, Finding
    <3> HIDE DEF f
    <3>4. <<f>> \in Seq(Findings) /\ findings' = findings \o <<f>> /\ \A j \in DOMAIN <<f>> : Sound(<<f>>[j], given')
      BY <1>0, <2>7, <3>2, <3>3 DEF ContextInv, f
    <3>5. ContextInv'
      BY <1>0, <2>1, <2>2, <2>4, <3>4, RowsAreAdded
    <3> QED BY <2>5, <3>5 DEF RunnersInv
  <2> QED BY <2>3, <2>6, <2>7
<1>5. CASE ReconRunner
  <2>1. UNCHANGED <<target, campaigns, given>> /\ step = "recon"
    BY <1>5 DEF ReconRunner
  <2>2. campaigns # 0 /\ target \in Hosts
    BY <1>0, <2>1 DEF ContextInv
  <2>3. \A p \in OpenPorts : InScope(p, given)
    BY <1>0 DEF ContextInv, Sound, OpenPorts, Discovered
  <2>4. ASSUME NEW p, campaigns = 1 PROVE Existing(p) \in {NoHost, target}
    <3> DEFINE known == {i \in Discovered : findings[i].port = p /\ findings[i].banner # NoHost}
               first == CHOOSE i \in known : \A j \in known : i <= j
    <3>1. CASE known = {}
      BY <3>1 DEF Existing
    <3>2. CASE known # {}
      <4>1. known \in SUBSET Nat
        BY <1>0 DEF ContextInv, Discovered
      <4>2. \E i \in known : \A j \in known : i <= j
        BY <3>2, <4>1, LeastNumber
      <4>3. first \in known
        BY <4>2
      <4>4. Existing(p) = findings[first].banner
        BY <3>2 DEF Existing
      <4> HIDE DEF first
      <4>5. Sound(findings[first], given)
        BY <1>0, <4>3 DEF ContextInv, Discovered
      <4> QED BY <2>4, <4>4, <4>5 DEF Sound
    <3> QED BY <3>1, <3>2
  <2> DEFINE asked == {p \in OpenPorts : Existing(p) = NoHost}
             Probe(grabbed, p) == [campaign |-> campaigns, host |-> target, port |-> p,
                                   banner |-> IF p \in asked THEN grabbed[p] ELSE Existing(p)]
  <2>5. PICK grabbed \in [asked -> {target, NoHost}] :
          probes' = probes \cup {Probe(grabbed, p) : p \in OpenPorts}
    BY <1>5 DEF ReconRunner
  <2>6. connections' = connections \cup {<<target, p>> : p \in asked}
    BY <1>5 DEF ReconRunner
  <2>7. ASSUME NEW p \in OpenPorts, campaigns = 1 PROVE Probe(grabbed, p).banner \in {NoHost, Probe(grabbed, p).host}
    BY <2>4, <2>5, <2>7
  <2>8. \A c \in {<<target, p>> : p \in asked} : InScope(c[2], given)
    BY <2>3
  <2>9. ProbesAreOfTheTarget'
    <3> HIDE DEF asked
    <3>1. \A c \in connections' : InScope(c[2], given)
      BY <1>0, <2>6, <2>8 DEF ProbesAreOfTheTarget, InScope
    <3>2. ASSUME NEW r \in probes', r.campaign = 1 PROVE r.banner \in {NoHost, r.host}
      <4>1. CASE r \in probes
        BY <1>0, <3>2, <4>1 DEF ProbesAreOfTheTarget
      <4>2. ASSUME NEW p \in OpenPorts, r = Probe(grabbed, p) PROVE r.banner \in {NoHost, r.host}
        <5>1. campaigns = 1
          BY <3>2, <4>2
        <5> QED BY <2>7, <4>2, <5>1
      <4> QED BY <2>5, <4>1, <4>2
    <3> QED BY <2>1, <3>1, <3>2 DEF ProbesAreOfTheTarget, InScope
  <2>10. ContextInv'
    <3> DEFINE f == Finding("recon", target, 0, NoHost)
    <3>0. 0 \in KnownPorts
      BY DEF KnownPorts
    <3>1. f \in Findings
      BY <1>0, <2>2, <3>0, FindingType
    <3>2. Sound(f, given)
      BY <3>1 DEF Sound, Finding
    <3>3. findings' = Append(findings, f)
      BY <1>5 DEF ReconRunner
    <3> HIDE DEF f
    <3>4. <<f>> \in Seq(Findings) /\ findings' = findings \o <<f>> /\ \A j \in DOMAIN <<f>> : Sound(<<f>>[j], given)
      BY <1>0, <3>1, <3>2, <3>3 DEF ContextInv
    <3> QED BY <1>0, <2>1, <2>2, <3>4, RowsAreAdded
  <2> QED BY <2>9, <2>10 DEF RunnersInv
<1>6. CASE StealthRunner \/ WaveEnds \/ NoRecon \/ CollectorRunner
  <2>1. UNCHANGED <<findings, connections, probes, campaigns, given, target>> /\ step # "idle"
    BY <1>6 DEF StealthRunner, WaveEnds, NoRecon, CollectorRunner
  <2> QED BY <1>0, <1>1, <2>1 DEF ContextInv
<1>7. CASE UNCHANGED runnerVars
  BY <1>1, <1>7 DEF runnerVars
<1> QED BY <1>2, <1>3, <1>4, <1>5, <1>6, <1>7 DEF RunnersNext

\* For any targets, scope and number of campaigns: discovery and recon connect to
\* ports of the scope, or that a plan named as web_ports, only, and the banners that
\* the first campaign reports were read from its target (discovery_runner,
\* asset_runner, recon_runner).
THEOREM ProbesKeepToTheTarget == RunnersSpec => []ProbesAreOfTheTarget
<1>1. RunnersInit => RunnersInv
  BY DEF RunnersInit, RunnersInv, ContextInv, ProbesAreOfTheTarget, Hosts
<1>2. RunnersInv => ProbesAreOfTheTarget
  BY DEF RunnersInv
<1> QED BY <1>1, <1>2, RunnersStep, PTL DEF RunnersSpec

-----------------------------------------------------------------------------
(***************************************************************************)
(* The scope file (module ScopeFile)                                       *)
(***************************************************************************)
\* What the reader can hold for a line of the file below key k.
Reading(l, k) == IF k = "rate_limit" THEN <<l.key, Scalar(l.token)>> ELSE Scalar(l.token)
Readings == {Reading(l, k) : l \in Lines, k \in Keys}
Held(k) == {body[k][x] : x \in DOMAIN body[k]}
Said(k) == {Reading(lines[i], k) : i \in EntriesOf(k)}

\* No key comes after the one that the next line would be below.
LastKey(k) ==
  \E j \in DOMAIN lines : /\ lines[j].kind = "key" /\ lines[j].key = k
                          /\ \A m \in (j + 1)..Len(lines) : lines[m].kind # "key"

\* What was read is in the subset, or nothing was read.
ShapeInv ==
  /\ seenScope \in BOOLEAN
  /\ IF seenScope THEN InSubset ELSE Written = {}

\* The reader's variables are those of the lines it has read.
BodyInv ==
  /\ DOMAIN body \subseteq Keys
  /\ \A k : k \in DOMAIN body <=> \E j \in DOMAIN lines : lines[j].kind = "key" /\ lines[j].key = k
  /\ current \in Keys \cup {""} /\ \A k \in Keys : LastKey(k) <=> current = k
  /\ \A k \in DOMAIN body : body[k] \in Seq(Readings) /\ Held(k) = Said(k)
  /\ \A k \in Keys : \A i \in EntriesOf(k) : Readable(Scalar(lines[i].token))

\* A file that the reader accepts, and what it then holds, as _scalar takes it
Proper ==
  /\ InSubset
  /\ \A i \in EntriesOf("domains") \cup EntriesOf("cidrs") :
       /\ lines[i].token.form \in {"quoted", "quote_in_comment", "word", "word_comment", "fraction"}
       /\ TextTaken(lines[i].token) \notin TooWide
  /\ \A i \in EntriesOf("cidrs") : TextTaken(lines[i].token) \in DOMAIN Networks
  /\ \A i \in EntriesOf("ports") :
       lines[i].token.form \in {"int", "int_comment"} /\ lines[i].token.n \in PortRange
  /\ \A i \in EntriesOf("rate_limit") :
       lines[i].token.form \in {"int", "int_comment"} /\ lines[i].token.n >= 0

ReadsRight ==
  /\ outcome = "accepted" <=> outcome # "reading" /\ Proper
  /\ outcome = "accepted" =>
       config = [domains |-> {TrimDots(TextTaken(lines[i].token)) : i \in EntriesOf("domains")},
                 networks |-> {TextTaken(lines[i].token) : i \in EntriesOf("cidrs")},
                 ports |-> {lines[i].token.n : i \in EntriesOf("ports")}]

ReaderInv ==
  /\ lines \in Seq(Lines)
  /\ outcome = "reading" => ShapeInv /\ BodyInv
  /\ outcome # "accepted" => config = NoConfig
  /\ ReadsRight

\* What _scalar makes of a value
LEMMA ScalarIs ==
  ASSUME NEW token
  PROVE  LET v == Scalar(token)
         IN  /\ v.type = "str" <=> token.form \in {"quoted", "quote_in_comment", "word", "word_comment", "fraction"}
             /\ v.type = "str" => v.text = TextTaken(token)
             /\ v.type = "int" <=> token.form \in {"int", "int_comment"}
             /\ v.type = "int" => v.n = token.n
             /\ v.type \in {"str", "int", "ScopeError", "ValueError"}
<1>1. CASE token.form \in {"quoted", "quote_in_comment", "word", "word_comment", "fraction"}
  BY <1>1 DEF Scalar, Text
<1>2. CASE token.form \in {"int", "int_comment"}
  BY <1>2 DEF Scalar, IntOf
<1>3. CASE token.form = "two_signs"
  BY <1>3 DEF Scalar, Unreadable
<1>4. CASE token.form \notin {"quoted", "quote_in_comment", "word", "word_comment", "fraction", "int", "int_comment", "two_signs"}
  BY <1>4 DEF Scalar, Unreadable
<1> QED BY <1>1, <1>2, <1>3, <1>4

\* One more line: what stands above it is as it was.
LEMMA OneMoreLine ==
  ASSUME NEW l \in Lines, lines \in Seq(Lines), lines' = Append(lines, l)
  PROVE  LET n == Len(lines) + 1
         IN  /\ lines' \in Seq(Lines) /\ Len(lines') = n /\ n \in Nat \ {0} /\ DOMAIN lines' = DOMAIN lines \cup {n}
             /\ lines'[n] = l /\ n \notin DOMAIN lines
             /\ \A j \in DOMAIN lines : lines'[j] = lines[j] /\ j \in Nat /\ j < n
             /\ Written' = Written \cup (IF l.kind = "blank" THEN {} ELSE {n})
<1> DEFINE n == Len(lines) + 1
<1>1. /\ lines' \in Seq(Lines) /\ Len(lines') = n /\ n \in Nat \ {0} /\ DOMAIN lines' = DOMAIN lines \cup {n}
      /\ lines'[n] = l /\ n \notin DOMAIN lines
      /\ \A j \in DOMAIN lines : lines'[j] = lines[j] /\ j \in Nat /\ j < n
  OBVIOUS
<1> HIDE DEF n
<1>2. \A i : i \in Written' <=> i \in Written \cup (IF l.kind = "blank" THEN {} ELSE {n})
  BY <1>1 DEF Written
<1> QED BY <1>1, <1>2 DEF n

LEMMA EntriesGrow ==
  ASSUME NEW l \in Lines, lines \in Seq(Lines), lines' = Append(lines, l), NEW k
  PROVE  /\ EntriesOf(k)' = EntriesOf(k) \cup
                              (IF l.kind \notin {"blank", "key"} /\ LastKey(k) THEN {Len(lines) + 1} ELSE {})
         /\ LastKey(k)' <=> IF l.kind = "key" THEN k = l.key ELSE LastKey(k)
<1> DEFINE n == Len(lines) + 1
           Above(i) == \E j \in 1..(i - 1) : /\ lines[j].kind = "key" /\ lines[j].key = k
                                             /\ \A m \in (j + 1)..(i - 1) : lines[m].kind # "key"
           AboveNew(i) == \E j \in 1..(i - 1) : /\ lines'[j].kind = "key" /\ lines'[j].key = k
                                                /\ \A m \in (j + 1)..(i - 1) : lines'[m].kind # "key"
<1>1. /\ Len(lines') = n /\ n \in Nat \ {0} /\ DOMAIN lines' = DOMAIN lines \cup {n} /\ DOMAIN lines = 1..(n - 1)
      /\ lines'[n] = l /\ n \notin DOMAIN lines
      /\ \A j \in DOMAIN lines : lines'[j] = lines[j] /\ j \in Nat /\ j < n
      /\ Written' = Written \cup (IF l.kind = "blank" THEN {} ELSE {n})
  BY OneMoreLine
<1>2. LastKey(k) <=> Above(n)
  BY DEF LastKey
<1>3. Len(lines) = n - 1 /\ DOMAIN lines' = 1..n
  BY <1>1
<1> HIDE DEF n
<1>4. \A j \in 1..(n - 1) : lines'[j] = lines[j]
  BY <1>1
<1>5. \A i \in 1..n : AboveNew(i) <=> Above(i)
  <2> SUFFICES ASSUME NEW i \in 1..n PROVE AboveNew(i) <=> Above(i)
    OBVIOUS
  <2>1. \A j \in 1..(i - 1) : lines'[j] = lines[j] /\ \A m \in (j + 1)..(i - 1) : lines'[m] = lines[m]
    BY <1>1, <1>4
  <2> QED BY <2>1, ZenonT(30)
<1>6. EntriesOf(k)' = {i \in Written' : lines'[i].kind # "key" /\ AboveNew(i)}
  BY DEF EntriesOf
<1>7. EntriesOf(k) = {i \in Written : lines[i].kind # "key" /\ Above(i)}
  BY DEF EntriesOf
<1>8. Written \subseteq 1..(n - 1)
  BY <1>1 DEF Written
<1>9. ASSUME NEW i PROVE i \in EntriesOf(k)' <=>
                           i \in EntriesOf(k) \/ (i = n /\ l.kind \notin {"blank", "key"} /\ LastKey(k))
  <2> HIDE DEF Above, AboveNew
  <2>1. CASE i = n
    BY <2>1, <1>1, <1>2, <1>5, <1>6, <1>7, <1>8
  <2>2. CASE i # n
    <3>1. i \in Written' <=> i \in Written
      BY <2>2, <1>1
    <3>2. i \in Written => lines'[i] = lines[i] /\ (AboveNew(i) <=> Above(i))
      BY <1>1, <1>4, <1>5, <1>8
    <3> QED BY <2>2, <3>1, <3>2, <1>6, <1>7
  <2> QED BY <2>1, <2>2
<1>10. LastKey(k)' <=> IF l.kind = "key" THEN k = l.key ELSE LastKey(k)
  <2>1. LastKey(k)' <=> \E j \in 1..n : /\ lines'[j].kind = "key" /\ lines'[j].key = k
                                        /\ \A m \in (j + 1)..n : lines'[m].kind # "key"
    BY <1>1, <1>3 DEF LastKey
  <2>2. \A j \in 1..n : (n \in (j + 1)..n <=> j # n)
    BY <1>1
  <2>3. CASE l.kind = "key"
    <3>1. \A m \in (n + 1)..n : lines'[m].kind # "key"
      BY <1>1
    <3>2. n \in 1..n
      BY <1>1
    <3> QED BY <2>1, <2>2, <2>3, <3>1, <3>2, <1>1
  <2>4. CASE l.kind # "key"
    <3>1. \A j \in 1..(n - 1) : (\A m \in (j + 1)..n : lines'[m].kind # "key")
                                  <=> (\A m \in (j + 1)..(n - 1) : lines[m].kind # "key")
      <4> SUFFICES ASSUME NEW j \in 1..(n - 1)
                   PROVE (\A m \in (j + 1)..n : lines'[m].kind # "key")
                                  <=> (\A m \in (j + 1)..(n - 1) : lines[m].kind # "key")
        OBVIOUS
      <4>1. \A m \in (j + 1)..n : m = n \/ (m \in (j + 1)..(n - 1) /\ lines'[m] = lines[m])
        BY <1>1, <1>4
      <4>2. \A m \in (j + 1)..(n - 1) : m \in (j + 1)..n /\ lines'[m] = lines[m]
        BY <1>1, <1>4
      <4> QED BY <2>4, <4>1, <4>2, <1>1
    <3>2. \A j \in 1..n : j # n => j \in 1..(n - 1)
      BY <1>1
    <3>3. \A j \in 1..(n - 1) : j \in 1..n
      BY <1>1
    <3> QED BY <2>1, <2>4, <3>1, <3>2, <3>3, <1>1, <1>2, <1>4
  <2> QED BY <2>3, <2>4
<1> QED BY <1>9, <1>10 DEF n

LEMMA OldLinesStand ==
  ASSUME NEW l \in Lines, lines \in Seq(Lines), lines' = Append(lines, l), NEW i \in Written
  PROVE  MayFollow(i)' <=> MayFollow(i)
<1> DEFINE n == Len(lines) + 1
<1>1. /\ n \in Nat \ {0} /\ DOMAIN lines = 1..(n - 1) /\ i \in 1..(n - 1)
      /\ \A j \in 1..(n - 1) : lines'[j] = lines[j]
  BY OneMoreLine DEF Written
<1>2. \A k : EntriesOf(k)' = EntriesOf(k) \cup
                              (IF l.kind \notin {"blank", "key"} /\ LastKey(k) THEN {n} ELSE {})
  BY EntriesGrow
<1> HIDE DEF n
<1>3. \A k : i \in EntriesOf(k)' <=> i \in EntriesOf(k)
  BY <1>1, <1>2
<1>4. \A k : \A j \in EntriesOf(k) : j \in 1..(n - 1)
  BY <1>1 DEF EntriesOf, Written
<1>5. \A k, j : j \in EntriesOf(k)' /\ j < i <=> j \in EntriesOf(k) /\ j < i
  BY <1>1, <1>2, <1>4
<1>6. \A j \in 1..(i - 1) : lines'[j] = lines[j]
  BY <1>1
<1>7. (\A j \in EntriesOf("rate_limit")' : j < i => lines'[j].key # lines'[i].key)
       <=> (\A j \in EntriesOf("rate_limit") : j < i => lines[j].key # lines[i].key)
  BY <1>1, <1>4, <1>5
<1> QED BY <1>1, <1>3, <1>6, <1>7 DEF MayFollow

\* What was in the subset stays in it if the next line may follow.
LEMMA SubsetGrows ==
  ASSUME NEW l \in Lines, lines \in Seq(Lines), lines' = Append(lines, l), NEW n \in Nat, n = Len(lines) + 1
  PROVE  /\ l.kind = "blank" => (InSubset' <=> InSubset) /\ Written' = Written
         /\ l.kind # "blank" /\ InSubset => (InSubset' <=> MayFollow(n)')
         /\ l.kind # "blank" /\ Written = {} => (InSubset' <=> l.kind = "scope" /\ l.indent = 0)
         /\ Written' # {} \/ l.kind = "blank"
<1>1. /\ n \in Nat \ {0} /\ lines'[n] = l
      /\ \A j \in Written : lines'[j] = lines[j] /\ j \in Nat /\ j < n
      /\ Written' = Written \cup (IF l.kind = "blank" THEN {} ELSE {n})
  BY OneMoreLine DEF Written
<1>2. \A i \in Written : MayFollow(i)' <=> MayFollow(i)
  BY OldLinesStand
<1>3. InSubset' <=> \E first \in Written' : /\ lines'[first].kind = "scope" /\ lines'[first].indent = 0
                                            /\ \A i \in Written' \ {first} : first < i /\ MayFollow(i)'
  BY DEF InSubset
<1>4. ASSUME l.kind = "blank" PROVE (InSubset' <=> InSubset) /\ Written' = Written
  <2>1. Written' = Written
    BY <1>1, <1>4
  <2> QED BY <1>1, <1>2, <1>3, <2>1 DEF InSubset
<1>5. ASSUME l.kind # "blank", InSubset PROVE InSubset' <=> MayFollow(n)'
  <2>1. PICK first \in Written : /\ lines[first].kind = "scope" /\ lines[first].indent = 0
                                 /\ \A i \in Written \ {first} : first < i /\ MayFollow(i)
    BY <1>5 DEF InSubset
  <2>2. Written' = Written \cup {n} /\ first # n /\ first < n /\ first \in Nat
    BY <1>1, <1>5
  <2>3. ASSUME MayFollow(n)' PROVE InSubset'
    <3>1. \A i \in Written' \ {first} : first < i /\ MayFollow(i)'
      BY <2>1, <2>2, <2>3, <1>1, <1>2
    <3>2. lines'[first] = lines[first]
      BY <1>1
    <3> QED BY <1>3, <2>1, <2>2, <3>1, <3>2, ZenonT(60)
  <2>4. ASSUME InSubset' PROVE MayFollow(n)'
    <3>1. PICK f \in Written' : \A i \in Written' \ {f} : f < i /\ MayFollow(i)'
      BY <1>3, <2>4
    <3>2. f # n
      <4>1. first \in Written' /\ ~(n < first)
        BY <1>1, <2>2
      <4> QED BY <2>2, <3>1, <4>1
    <3> QED BY <2>2, <3>1, <3>2
  <2> QED BY <2>3, <2>4
<1>6. ASSUME l.kind # "blank", Written = {} PROVE InSubset' <=> l.kind = "scope" /\ l.indent = 0
  <2>1. Written' = {n}
    BY <1>1, <1>6
  <2> QED BY <1>1, <1>3, <2>1
<1>7. Written' # {} \/ l.kind = "blank"
  BY <1>1
<1> QED BY <1>4, <1>5, <1>6, <1>7

\* The reader takes a line exactly if it may follow what was read.
LEMMA TakesWhatMayFollow ==
  ASSUME NEW l \in Lines, lines \in Seq(Lines), lines' = Append(lines, l), NEW n \in Nat, n = Len(lines) + 1, BodyInv, l.kind # "blank"
  PROVE  MayFollow(n)' <=> OpensKey(l) \/ AddsItem(l) \/ AddsPair(l)
<1>1. /\ n \in Nat \ {0} /\ lines'[n] = l /\ DOMAIN lines = 1..(n - 1) /\ n \notin DOMAIN lines
      /\ \A j \in 1..(n - 1) : lines'[j] = lines[j] /\ j \in Nat /\ j < n
  BY OneMoreLine
<1>2. \A k : EntriesOf(k)' = EntriesOf(k) \cup
                              (IF l.kind \notin {"blank", "key"} /\ LastKey(k) THEN {n} ELSE {})
  BY EntriesGrow
<1>3. \A k : \A j \in EntriesOf(k) : j \in DOMAIN lines
  BY DEF EntriesOf, Written
<1>4. \A k \in Keys : n \in EntriesOf(k)' <=> l.kind # "key" /\ current = k
  BY <1>1, <1>2, <1>3 DEF BodyInv
<1>5. \A k \in Keys : current = k => k \in DOMAIN body
  BY DEF BodyInv, LastKey
<1>6. "rate_limit" \in Keys
  BY DEF Keys
<1>7. OpensKey(l) <=> /\ l.kind = "key" /\ l.indent = 2 /\ l.key \in Keys
                      /\ \A j \in 1..(n - 1) : lines'[j].kind = "key" => lines'[j].key # lines'[n].key
  <2>1. (\A j \in 1..(n - 1) : lines'[j].kind = "key" => lines'[j].key # lines'[n].key) <=> l.key \notin DOMAIN body
    <3>1. l.key \in DOMAIN body <=> \E j \in 1..(n - 1) : lines[j].kind = "key" /\ lines[j].key = l.key
      BY <1>1, Zenon DEF BodyInv
    <3> QED BY <3>1, <1>1
  <2> QED BY <2>1 DEF OpensKey
<1>8. AddsItem(l) <=> /\ l.kind = "item" /\ l.indent = 4
                      /\ \E k \in Keys \ {"rate_limit"} : n \in EntriesOf(k)'
  <2>1. current \in DOMAIN body \ {"rate_limit"} => current \in Keys \ {"rate_limit"}
    BY DEF BodyInv
  <2> QED BY <1>4, <1>5, <2>1 DEF AddsItem
<1>9. AddsPair(l) <=> /\ l.kind = "pair" /\ l.indent = 4 /\ n \in EntriesOf("rate_limit")'
                      /\ \A j \in EntriesOf("rate_limit")' : j < n => lines'[j].key # lines'[n].key
  <2>1. CASE current # "rate_limit" \/ l.kind # "pair"
    BY <1>4, <1>6, <2>1 DEF AddsPair
  <2>2. CASE current = "rate_limit" /\ l.kind = "pair"
    <3>1. n \in EntriesOf("rate_limit")'
      BY <1>4, <1>6, <2>2
    <3>2. Held("rate_limit") = Said("rate_limit")
      BY <1>5, <1>6, <2>2 DEF BodyInv
    <3>3. Said("rate_limit") = {<<lines[i].key, Scalar(lines[i].token)>> : i \in EntriesOf("rate_limit")}
      BY DEF Said, Reading
    <3>4. (\A x \in DOMAIN body[current] : body[current][x][1] # l.key) <=> \A v \in Held("rate_limit") : v[1] # l.key
      BY <2>2 DEF Held
    <3>5. (\A v \in Said("rate_limit") : v[1] # l.key) <=> \A i \in EntriesOf("rate_limit") : lines[i].key # l.key
      <4>1. \A i \in EntriesOf("rate_limit") : <<lines[i].key, Scalar(lines[i].token)>>[1] = lines[i].key
        OBVIOUS
      <4> QED BY <3>3, <4>1
    <3>6. (\A j \in EntriesOf("rate_limit")' : j < n => lines'[j].key # lines'[n].key)
            <=> \A i \in EntriesOf("rate_limit") : lines[i].key # l.key
      BY <1>1, <1>2, <1>3
    <3> QED BY <2>2, <3>1, <3>2, <3>4, <3>5, <3>6 DEF AddsPair
  <2> QED BY <2>1, <2>2
<1>10. MayFollow(n)' <=>
         \/ /\ lines'[n].kind = "key" /\ lines'[n].indent = 2 /\ lines'[n].key \in Keys
            /\ \A j \in 1..(n - 1) : lines'[j].kind = "key" => lines'[j].key # lines'[n].key
         \/ /\ lines'[n].kind = "item" /\ lines'[n].indent = 4
            /\ \E k \in Keys \ {"rate_limit"} : n \in EntriesOf(k)'
         \/ /\ lines'[n].kind = "pair" /\ lines'[n].indent = 4 /\ n \in EntriesOf("rate_limit")'
            /\ \A j \in EntriesOf("rate_limit")' : j < n => lines'[j].key # lines'[n].key
  BY DEF MayFollow
<1> QED BY <1>1, <1>7, <1>8, <1>9, <1>10

\* A line that is no key and no entry changes nothing of what the reader holds.
LEMMA BodyKept ==
  ASSUME NEW l \in Lines, lines \in Seq(Lines), lines' = Append(lines, l), BodyInv, l.kind # "key",
         \A k : l.kind = "blank" \/ ~LastKey(k), UNCHANGED <<current, body>>
  PROVE  BodyInv'
<1>1. ASSUME NEW k PROVE EntriesOf(k)' = EntriesOf(k) /\ (LastKey(k)' <=> LastKey(k))
  <2>1. EntriesOf(k)' = EntriesOf(k) \cup
                          (IF l.kind \notin {"blank", "key"} /\ LastKey(k) THEN {Len(lines) + 1} ELSE {})
    BY EntriesGrow
  <2>2. LastKey(k)' <=> IF l.kind = "key" THEN k = l.key ELSE LastKey(k)
    BY EntriesGrow
  <2>3. ~(l.kind \notin {"blank", "key"} /\ LastKey(k))
    OBVIOUS
  <2> QED BY <2>1, <2>2, <2>3
<1>2. \A k : \A i \in EntriesOf(k) : lines'[i] = lines[i]
  BY OneMoreLine DEF EntriesOf, Written
<1>3. \A k : Said(k)' = Said(k)
  BY <1>1, <1>2 DEF Said, Reading
<1>4. \A k : Held(k)' = Held(k)
  BY DEF Held
<1>5. \A k : (\E j \in DOMAIN lines' : lines'[j].kind = "key" /\ lines'[j].key = k)
              <=> (\E j \in DOMAIN lines : lines[j].kind = "key" /\ lines[j].key = k)
  BY OneMoreLine
<1>6. \A k \in Keys : \A i \in EntriesOf(k)' : Readable(Scalar(lines'[i].token))
  <2>1. \A k : EntriesOf(k)' = EntriesOf(k)
    BY <1>1
  <2> QED BY <1>2, <2>1 DEF BodyInv
<1> QED BY <1>1, <1>3, <1>4, <1>5, <1>6 DEF BodyInv

\* Nothing is below a key that was not read.
LEMMA NoKeyNoEntries ==
  ASSUME lines \in Seq(Lines), BodyInv, NEW k, k \notin DOMAIN body
  PROVE  EntriesOf(k) = {}
<1>1. EntriesOf(k) \subseteq DOMAIN lines /\ DOMAIN lines = 1..Len(lines) /\ Len(lines) \in Nat
  BY DEF EntriesOf, Written
<1>2. \A i \in EntriesOf(k) : \E j \in 1..(i - 1) : lines[j].kind = "key" /\ lines[j].key = k
  BY DEF EntriesOf
<1>3. \A i \in DOMAIN lines : 1..(i - 1) \subseteq DOMAIN lines
  BY <1>1
<1>4. ~\E j \in DOMAIN lines : lines[j].kind = "key" /\ lines[j].key = k
  BY DEF BodyInv
<1> QED BY <1>1, <1>2, <1>3, <1>4

\* A new key
LEMMA BodyOpens ==
  ASSUME NEW l \in Lines, lines \in Seq(Lines), lines' = Append(lines, l), BodyInv, OpensKey(l),
         current' = l.key, Put(l.key, <<>>)
  PROVE  BodyInv'
<1>0. l.kind = "key" /\ l.key \in Keys /\ l.key \notin DOMAIN body
  BY DEF OpensKey
<1>1. \A k : EntriesOf(k)' = EntriesOf(k) /\ (LastKey(k)' <=> k = l.key)
  BY <1>0, EntriesGrow
<1>2. \A k : \A i \in EntriesOf(k) : lines'[i] = lines[i]
  BY OneMoreLine DEF EntriesOf, Written
<1>3. \A k : Said(k)' = Said(k)
  BY <1>1, <1>2 DEF Said, Reading
<1>4. DOMAIN body' = DOMAIN body \cup {l.key} /\ body'[l.key] = <<>> /\ \A k \in DOMAIN body : body'[k] = body[k]
  BY <1>0 DEF Put
<1>5. \A k : k \in DOMAIN body' <=> \E j \in DOMAIN lines' : lines'[j].kind = "key" /\ lines'[j].key = k
  <2>1. \A k : (\E j \in DOMAIN lines' : lines'[j].kind = "key" /\ lines'[j].key = k)
                 <=> (k = l.key \/ \E j \in DOMAIN lines : lines[j].kind = "key" /\ lines[j].key = k)
    BY <1>0, OneMoreLine
  <2> QED BY <1>4, <2>1 DEF BodyInv
<1>6. ASSUME NEW k \in DOMAIN body' PROVE body'[k] \in Seq(Readings)' /\ Held(k)' = Said(k)'
  <2>0. Readings' = Readings
    BY DEF Readings, Reading
  <2>1. CASE k = l.key
    <3>1. EntriesOf(k) = {}
      BY <1>0, <2>1, NoKeyNoEntries
    <3>2. Held(k)' = {} /\ body'[k] \in Seq(Readings)
      <4>1. body'[k] = <<>> /\ DOMAIN body'[k] = {}
        BY <1>4, <2>1
      <4> QED BY <4>1 DEF Held
    <3> QED BY <1>3, <2>0, <3>1, <3>2, ZenonT(30) DEF Said
  <2>2. CASE k # l.key
    <3>1. k \in DOMAIN body /\ body'[k] = body[k]
      BY <1>4, <2>2
    <3>2. Held(k)' = Held(k)
      BY <3>1 DEF Held
    <3> QED BY <1>3, <2>0, <3>1, <3>2 DEF BodyInv
  <2> QED BY <2>1, <2>2
<1>7. \A k \in Keys : \A i \in EntriesOf(k)' : Readable(Scalar(lines'[i].token))
  BY <1>1, <1>2 DEF BodyInv
<1>8. DOMAIN body' \subseteq Keys
  BY <1>0, <1>4 DEF BodyInv
<1>9. current' \in Keys /\ \A k \in Keys : LastKey(k)' <=> current' = k
  BY <1>0, <1>1
<1> QED BY <1>5, <1>6, <1>7, <1>8, <1>9 DEF BodyInv

\* An entry below the present key
LEMMA BodyAdds ==
  ASSUME NEW l \in Lines, lines \in Seq(Lines), lines' = Append(lines, l), BodyInv, AddsItem(l) \/ AddsPair(l),
         Readable(Scalar(l.token)), UNCHANGED current,
         Put(current, Append(body[current], IF AddsItem(l) THEN Scalar(l.token) ELSE <<l.key, Scalar(l.token)>>))
  PROVE  BodyInv'
<1> DEFINE v == Reading(l, current)
<1>0. /\ current \in Keys /\ current \in DOMAIN body /\ l.kind \notin {"key", "blank"}
      /\ v = IF AddsItem(l) THEN Scalar(l.token) ELSE <<l.key, Scalar(l.token)>>
  <2>1. current \in Keys /\ l.kind \notin {"key", "blank"}
    BY DEF AddsItem, AddsPair, Keys, BodyInv
  <2>2. current \in DOMAIN body
    BY <2>1 DEF BodyInv, LastKey
  <2> QED BY <2>1, <2>2 DEF AddsItem, AddsPair, Reading
<1>1. PICK n \in Nat : n = Len(lines) + 1
  OBVIOUS
<1>2. /\ \A k \in Keys : EntriesOf(k)' = IF k = current THEN EntriesOf(k) \cup {n} ELSE EntriesOf(k)
      /\ \A k : LastKey(k)' <=> LastKey(k)
  <2> DEFINE new(k) == IF l.kind \notin {"blank", "key"} /\ LastKey(k) THEN {n} ELSE {}
  <2>1. \A k : EntriesOf(k)' = EntriesOf(k) \cup new(k) /\ (LastKey(k)' <=> LastKey(k))
    BY <1>0, <1>1, EntriesGrow
  <2>2. \A k \in Keys : new(k) = IF k = current THEN {n} ELSE {}
    BY <1>0 DEF BodyInv
  <2> HIDE DEF new
  <2> QED BY <2>1, <2>2
<1>3. lines'[n] = l /\ \A k : \A i \in EntriesOf(k) : lines'[i] = lines[i]
  BY <1>1, OneMoreLine DEF EntriesOf, Written
<1>4. DOMAIN body' = DOMAIN body /\ body'[current] = Append(body[current], v) /\ \A k \in DOMAIN body \ {current} : body'[k] = body[k]
  BY <1>0 DEF Put
<1> HIDE DEF v
<1>5. \A k \in Keys : Said(k)' = IF k = current THEN Said(k) \cup {v} ELSE Said(k)
  <2>1. \A k \in Keys : Said(k)' = {Reading(lines'[i], k) : i \in EntriesOf(k)'}
    BY DEF Said, Reading
  <2>2. \A k \in Keys : \A i \in EntriesOf(k) : Reading(lines'[i], k) = Reading(lines[i], k)
    BY <1>3
  <2>3. Reading(lines'[n], current) = v
    BY <1>3 DEF v
  <2>4. ASSUME NEW k \in Keys, k # current PROVE Said(k)' = Said(k)
    BY <1>2, <2>1, <2>2, <2>4 DEF Said
  <2>5. Said(current)' = Said(current) \cup {v}
    <3>1. EntriesOf(current)' = EntriesOf(current) \cup {n}
      BY <1>0, <1>2
    <3>2. {Reading(lines'[i], current) : i \in EntriesOf(current) \cup {n}} = Said(current) \cup {v}
      BY <1>0, <2>2, <2>3 DEF Said
    <3>3. Said(current)' = {Reading(lines'[i], current) : i \in EntriesOf(current)'}
      BY DEF Said, Reading
    <3> QED BY <3>1, <3>2, <3>3
  <2> QED BY <2>4, <2>5
<1>6. Readings' = Readings /\ v \in Readings
  <2>1. Readings' = Readings
    BY DEF Readings, Reading
  <2>2. v = Reading(l, current) /\ l \in Lines /\ current \in Keys
    <3>1. v = Reading(l, current)
      BY DEF v
    <3> QED BY <1>0, <3>1
  <2>3. v \in Readings
    BY <2>2 DEF Readings
  <2> QED BY <2>1, <2>3
<1>7. ASSUME NEW k \in DOMAIN body PROVE body'[k] \in Seq(Readings) /\ Held(k)' = Said(k)'
  <2>1. body[k] \in Seq(Readings) /\ Held(k) = Said(k) /\ k \in Keys
    BY DEF BodyInv
  <2>2. CASE k = current
    <3> DEFINE s == body[current]
    <3>1. s \in Seq(Readings) /\ body'[k] = Append(s, v)
      BY <1>4, <2>1, <2>2
    <3> HIDE DEF s
    <3>2. /\ Append(s, v) \in Seq(Readings) /\ DOMAIN Append(s, v) = DOMAIN s \cup {Len(s) + 1}
          /\ Append(s, v)[Len(s) + 1] = v /\ \A x \in DOMAIN s : Append(s, v)[x] = s[x]
      BY <1>6, <3>1
    <3>3. Held(k)' = {Append(s, v)[x] : x \in DOMAIN Append(s, v)}
      BY <3>1, <2>2, <1>0 DEF Held
    <3>4. Held(k) = {s[x] : x \in DOMAIN s}
      BY <2>2 DEF Held, s
    <3>5. Held(k)' = Held(k) \cup {v}
      BY <3>2, <3>3, <3>4
    <3> QED BY <1>5, <2>1, <2>2, <3>1, <3>2, <3>5
  <2>3. CASE k # current
    <3>1. body'[k] = body[k]
      BY <1>4, <2>3
    <3>2. Held(k)' = Held(k)
      BY <3>1 DEF Held
    <3> QED BY <1>5, <2>1, <2>3, <3>1, <3>2
  <2> QED BY <2>2, <2>3
<1>8. \A k : (\E j \in DOMAIN lines' : lines'[j].kind = "key" /\ lines'[j].key = k)
              <=> (\E j \in DOMAIN lines : lines[j].kind = "key" /\ lines[j].key = k)
  BY <1>0, OneMoreLine
<1>9. \A k \in Keys : \A i \in EntriesOf(k)' : Readable(Scalar(lines'[i].token))
  <2>1. \A k \in Keys : \A i \in EntriesOf(k)' : i \in EntriesOf(k) \/ i = n
    BY <1>2
  <2>2. \A k \in Keys : \A i \in EntriesOf(k) : Readable(Scalar(lines'[i].token))
    BY <1>3 DEF BodyInv
  <2>3. Readable(Scalar(lines'[n].token))
    BY <1>3
  <2> QED BY <2>1, <2>2, <2>3
<1> QED BY <1>2, <1>4, <1>6, <1>7, <1>8, <1>9 DEF BodyInv

LEMMA LineIsRead ==
  ASSUME ReaderInv, NEW l \in Lines, ReadLine(l)
  PROVE  ReaderInv'
<1>0. /\ lines \in Seq(Lines) /\ lines' = Append(lines, l) /\ BodyInv /\ config = NoConfig /\ ShapeInv
      /\ seenScope \in BOOLEAN /\ (seenScope => InSubset) /\ (~seenScope => Written = {})
  BY DEF ReaderInv, ShapeInv, ReadLine
<1>1. PICK n \in Nat : n = Len(lines) + 1
  BY <1>0
<1>2. /\ l.kind = "blank" => (InSubset' <=> InSubset) /\ Written' = Written
      /\ l.kind # "blank" /\ InSubset => (InSubset' <=> MayFollow(n)')
      /\ l.kind # "blank" /\ Written = {} => (InSubset' <=> l.kind = "scope" /\ l.indent = 0)
  BY <1>0, <1>1, SubsetGrows
<1>3. l.kind # "blank" => (MayFollow(n)' <=> OpensKey(l) \/ AddsItem(l) \/ AddsPair(l))
  BY <1>0, <1>1, TakesWhatMayFollow
<1>4. lines' \in Seq(Lines)
  BY <1>0
<1>5. ASSUME outcome' = "reading", UNCHANGED config, seenScope' \in BOOLEAN,
             IF seenScope' THEN InSubset' ELSE Written' = {}, BodyInv'
      PROVE  ReaderInv'
  <2>1. ShapeInv'
    BY <1>5 DEF ShapeInv
  <2>2. ReadsRight'
    BY <1>5 DEF ReadsRight
  <2>3. config' = NoConfig'
    BY <1>0, <1>5 DEF NoConfig
  <2> QED BY <1>4, <1>5, <2>1, <2>2, <2>3 DEF ReaderInv
<1>6. ASSUME outcome' \in {"ScopeError", "ValueError"}, UNCHANGED config, ~Proper' PROVE ReaderInv'
  <2>1. ReadsRight'
    BY <1>6 DEF ReadsRight, Proper
  <2>2. config' = NoConfig'
    BY <1>0, <1>6 DEF NoConfig
  <2> QED BY <1>4, <1>6, <2>1, <2>2 DEF ReaderInv
<1>7. ASSUME ~InSubset' PROVE ~Proper'
  BY <1>7 DEF Proper
<1>8. CASE l.kind = "blank" /\ UNCHANGED <<seenScope, current, body, outcome, config>>
  <2>1. BodyInv'
    BY <1>0, <1>8, BodyKept
  <2>2. outcome' = "reading"
    BY <1>8 DEF ReadLine
  <2> QED BY <1>0, <1>2, <1>5, <1>8, <2>1, <2>2
<1>9. CASE l.kind = "scope" /\ l.indent = 0 /\ seenScope /\ Fails("ScopeError")
  <2>1. ~InSubset'
    BY <1>0, <1>2, <1>3, <1>9 DEF OpensKey, AddsItem, AddsPair
  <2> QED BY <1>6, <1>7, <1>9, <2>1 DEF Fails
<1>10. CASE /\ l.kind = "scope" /\ l.indent = 0 /\ ~seenScope
            /\ seenScope' = TRUE /\ UNCHANGED <<current, body, outcome, config>>
  <2>1. \A k : ~LastKey(k)
    BY <1>0, <1>10 DEF LastKey, Written
  <2>2. BodyInv'
    BY <1>0, <1>10, <2>1, BodyKept
  <2>3. outcome' = "reading"
    BY <1>10 DEF ReadLine
  <2> QED BY <1>0, <1>2, <1>5, <1>10, <2>2, <2>3
<1>11. CASE /\ seenScope /\ OpensKey(l)
            /\ current' = l.key /\ Put(l.key, <<>>) /\ UNCHANGED <<seenScope, outcome, config>>
  <2>1. BodyInv'
    BY <1>0, <1>11, BodyOpens
  <2>2. outcome' = "reading"
    BY <1>11 DEF ReadLine
  <2>3. InSubset'
    BY <1>0, <1>2, <1>3, <1>11 DEF OpensKey
  <2> QED BY <1>0, <1>5, <1>11, <2>1, <2>2, <2>3
<1>12. CASE /\ seenScope /\ (AddsItem(l) \/ AddsPair(l)) /\ Readable(Scalar(l.token))
            /\ Put(current, Append(body[current], IF AddsItem(l) THEN Scalar(l.token) ELSE <<l.key, Scalar(l.token)>>))
            /\ UNCHANGED <<seenScope, current, outcome, config>>
  <2>1. BodyInv'
    BY <1>0, <1>12, BodyAdds
  <2>2. outcome' = "reading"
    BY <1>12 DEF ReadLine
  <2>3. InSubset'
    BY <1>0, <1>2, <1>3, <1>12 DEF AddsItem, AddsPair
  <2> QED BY <1>0, <1>5, <1>12, <2>1, <2>2, <2>3
<1>13. CASE seenScope /\ (AddsItem(l) \/ AddsPair(l)) /\ ~Readable(Scalar(l.token)) /\ Fails(Scalar(l.token).type)
  <2>1. Scalar(l.token).type \in {"ScopeError", "ValueError"}
    BY <1>13, ScalarIs DEF Readable
  <2>2. l.token.form \notin {"quoted", "quote_in_comment", "word", "word_comment", "fraction", "int", "int_comment"}
    BY <1>13, ScalarIs DEF Readable
  <2>3. current \in Keys /\ l.kind \notin {"key", "blank"}
    BY <1>0, <1>13 DEF AddsItem, AddsPair, Keys, BodyInv
  <2>4. \E k \in Keys : n \in EntriesOf(k)'
    <3>1. LastKey(current)
      BY <1>0, <2>3 DEF BodyInv
    <3>2. PICK k \in Keys : k = current
      BY <2>3
    <3>3. n \in EntriesOf(k)'
      BY <1>0, <1>1, <2>3, <3>1, <3>2, EntriesGrow
    <3> QED BY <3>3
  <2>5. lines'[n] = l
    BY <1>0, <1>1, OneMoreLine
  <2>6. ~Proper'
    BY <2>2, <2>4, <2>5 DEF Proper, Keys
  <2> QED BY <1>6, <1>13, <2>1, <2>6 DEF Fails
<1>14. CASE /\ l.kind # "blank" /\ ~(l.kind = "scope" /\ l.indent = 0)
            /\ ~(seenScope /\ (OpensKey(l) \/ AddsItem(l) \/ AddsPair(l)))
            /\ Fails("ScopeError")
  <2>1. ~InSubset'
    BY <1>0, <1>2, <1>3, <1>14
  <2> QED BY <1>6, <1>7, <1>14, <2>1 DEF Fails
<1> QED BY <1>8, <1>9, <1>10, <1>11, <1>12, <1>13, <1>14 DEF ReadLine

\* At the end the reader has what the file says below a key.
LEMMA BelowIsSaid ==
  ASSUME lines \in Seq(Lines), BodyInv, NEW k \in Keys
  PROVE  {Below(k)[x] : x \in DOMAIN Below(k)} = Said(k)
<1>1. CASE k \in DOMAIN body
  BY <1>1, ZenonT(60) DEF Below, Held, BodyInv
<1>2. CASE k \notin DOMAIN body
  <2>1. Said(k) = {}
    BY <1>2, NoKeyNoEntries DEF Said
  <2>2. Below(k) = <<>> /\ DOMAIN Below(k) = {}
    BY <1>2 DEF Below
  <2> QED BY <2>1, <2>2
<1> QED BY <1>1, <1>2

\* What _strings and _ports find in it, and what the enforcer takes from it
LEMMA TextsBelow ==
  ASSUME lines \in Seq(Lines), BodyInv, NEW k \in Keys \ {"rate_limit"}
  PROVE  /\ Strings(Below(k)) <=>
              \A i \in EntriesOf(k) : /\ lines[i].token.form \in {"quoted", "quote_in_comment", "word", "word_comment", "fraction"}
                                      /\ TextTaken(lines[i].token) \notin TooWide
         /\ Strings(Below(k)) => TextsOf(Below(k)) = {TextTaken(lines[i].token) : i \in EntriesOf(k)}
<1>1. {Below(k)[x] : x \in DOMAIN Below(k)} = Said(k)
  BY BelowIsSaid
<1>2. Said(k) = {Scalar(lines[i].token) : i \in EntriesOf(k)}
  BY DEF Said, Reading
<1>3. Strings(Below(k)) <=> \A v \in Said(k) : v.type = "str" /\ v.text \notin TooWide
  BY <1>1 DEF Strings
<1>4. TextsOf(Below(k)) = {v.text : v \in Said(k)}
  BY <1>1 DEF TextsOf
<1>5. (\A v \in Said(k) : v.type = "str" /\ v.text \notin TooWide) <=>
        \A i \in EntriesOf(k) : Scalar(lines[i].token).type = "str" /\ Scalar(lines[i].token).text \notin TooWide
  BY <1>2
<1>6. \A i \in EntriesOf(k) : /\ Scalar(lines[i].token).type = "str" <=>
                                   lines[i].token.form \in {"quoted", "quote_in_comment", "word", "word_comment", "fraction"}
                              /\ Scalar(lines[i].token).type = "str" => Scalar(lines[i].token).text = TextTaken(lines[i].token)
  BY ScalarIs
<1>7. ASSUME Strings(Below(k)) PROVE TextsOf(Below(k)) = {TextTaken(lines[i].token) : i \in EntriesOf(k)}
  <2>1. \A i \in EntriesOf(k) : Scalar(lines[i].token).text = TextTaken(lines[i].token)
    BY <1>3, <1>5, <1>6, <1>7
  <2>2. {v.text : v \in Said(k)} = {Scalar(lines[i].token).text : i \in EntriesOf(k)}
    BY <1>2
  <2> QED BY <1>4, <2>1, <2>2
<1>8. (\A i \in EntriesOf(k) : Scalar(lines[i].token).type = "str" /\ Scalar(lines[i].token).text \notin TooWide) <=>
        \A i \in EntriesOf(k) : /\ lines[i].token.form \in {"quoted", "quote_in_comment", "word", "word_comment", "fraction"}
                                /\ TextTaken(lines[i].token) \notin TooWide
  BY <1>6
<1> QED BY <1>3, <1>5, <1>7, <1>8

LEMMA PortsBelow ==
  ASSUME lines \in Seq(Lines), BodyInv
  PROVE  /\ Ports(Below("ports")) <=>
              \A i \in EntriesOf("ports") : lines[i].token.form \in {"int", "int_comment"} /\ lines[i].token.n \in PortRange
         /\ Ports(Below("ports")) => NumbersOf(Below("ports")) = {lines[i].token.n : i \in EntriesOf("ports")}
<1> DEFINE k == "ports"
<1>1. {Below(k)[x] : x \in DOMAIN Below(k)} = Said(k)
  BY BelowIsSaid DEF Keys
<1>2. Said(k) = {Scalar(lines[i].token) : i \in EntriesOf(k)}
  BY DEF Said, Reading
<1>6. \A i \in EntriesOf(k) : /\ Scalar(lines[i].token).type = "int" <=> lines[i].token.form \in {"int", "int_comment"}
                              /\ Scalar(lines[i].token).type = "int" => Scalar(lines[i].token).n = lines[i].token.n
  BY ScalarIs
<1>3. Ports(Below(k)) <=> \A v \in Said(k) : v.type = "int" /\ v.n \in PortRange
  BY <1>1 DEF Ports
<1>4. NumbersOf(Below(k)) = {v.n : v \in Said(k)}
  BY <1>1 DEF NumbersOf
<1>5. (\A v \in Said(k) : v.type = "int" /\ v.n \in PortRange) <=>
        \A i \in EntriesOf(k) : Scalar(lines[i].token).type = "int" /\ Scalar(lines[i].token).n \in PortRange
  BY <1>2
<1>7. ASSUME Ports(Below(k)) PROVE NumbersOf(Below(k)) = {lines[i].token.n : i \in EntriesOf(k)}
  <2>1. \A i \in EntriesOf(k) : Scalar(lines[i].token).n = lines[i].token.n
    BY <1>3, <1>5, <1>6, <1>7
  <2>2. {v.n : v \in Said(k)} = {Scalar(lines[i].token).n : i \in EntriesOf(k)}
    BY <1>2
  <2> QED BY <1>4, <2>1, <2>2
<1>8. (\A i \in EntriesOf(k) : Scalar(lines[i].token).type = "int" /\ Scalar(lines[i].token).n \in PortRange) <=>
        \A i \in EntriesOf(k) : lines[i].token.form \in {"int", "int_comment"} /\ lines[i].token.n \in PortRange
  BY <1>6
<1> QED BY <1>3, <1>5, <1>7, <1>8

LEMMA RatesBelow ==
  ASSUME lines \in Seq(Lines), BodyInv
  PROVE  Rates(Below("rate_limit")) <=>
           \A i \in EntriesOf("rate_limit") : lines[i].token.form \in {"int", "int_comment"} /\ lines[i].token.n >= 0
<1> DEFINE k == "rate_limit"
<1>1. {Below(k)[x] : x \in DOMAIN Below(k)} = Said(k)
  BY BelowIsSaid DEF Keys
<1>2. Said(k) = {<<lines[i].key, Scalar(lines[i].token)>> : i \in EntriesOf(k)}
  BY DEF Said, Reading
<1>3. Rates(Below(k)) <=> \A v \in Said(k) : v[2].type = "int" /\ v[2].n >= 0
  BY <1>1 DEF Rates
<1>4. \A i \in EntriesOf(k) : <<lines[i].key, Scalar(lines[i].token)>>[2] = Scalar(lines[i].token)
  OBVIOUS
<1>5. (\A v \in Said(k) : v[2].type = "int" /\ v[2].n >= 0) <=>
        \A i \in EntriesOf(k) : Scalar(lines[i].token).type = "int" /\ Scalar(lines[i].token).n >= 0
  BY <1>2, <1>4
<1>6. \A i \in EntriesOf(k) : /\ Scalar(lines[i].token).type = "int" <=> lines[i].token.form \in {"int", "int_comment"}
                              /\ Scalar(lines[i].token).type = "int" => Scalar(lines[i].token).n = lines[i].token.n
  BY ScalarIs
<1> QED BY <1>3, <1>5, <1>6

LEMMA FileEnds ==
  ASSUME ReaderInv, EndOfFile
  PROVE  ReaderInv'
<1> DEFINE cidrs == TextsOf(Below("cidrs"))
           Taken == [domains |-> {TrimDots(d) : d \in TextsOf(Below("domains"))},
                     networks |-> cidrs, ports |-> NumbersOf(Below("ports"))]
           SaidConfig == [domains |-> {TrimDots(TextTaken(lines[i].token)) : i \in EntriesOf("domains")},
                          networks |-> {TextTaken(lines[i].token) : i \in EntriesOf("cidrs")},
                          ports |-> {lines[i].token.n : i \in EntriesOf("ports")}]
<1>0. /\ lines \in Seq(Lines) /\ UNCHANGED lines /\ BodyInv /\ config = NoConfig
      /\ (seenScope => InSubset) /\ (~seenScope => Written = {}) /\ seenScope \in BOOLEAN
  BY DEF ReaderInv, ShapeInv, EndOfFile
<1>1. InSubset <=> seenScope
  BY <1>0 DEF InSubset
<1>2. "domains" \in Keys \ {"rate_limit"} /\ "cidrs" \in Keys \ {"rate_limit"}
  BY DEF Keys
<1>3. /\ Strings(Below("domains")) <=>
           \A i \in EntriesOf("domains") : /\ lines[i].token.form \in {"quoted", "quote_in_comment", "word", "word_comment", "fraction"}
                                           /\ TextTaken(lines[i].token) \notin TooWide
      /\ Strings(Below("domains")) => TextsOf(Below("domains")) = {TextTaken(lines[i].token) : i \in EntriesOf("domains")}
  BY <1>0, <1>2, TextsBelow
<1>4. /\ Strings(Below("cidrs")) <=>
           \A i \in EntriesOf("cidrs") : /\ lines[i].token.form \in {"quoted", "quote_in_comment", "word", "word_comment", "fraction"}
                                         /\ TextTaken(lines[i].token) \notin TooWide
      /\ Strings(Below("cidrs")) => cidrs = {TextTaken(lines[i].token) : i \in EntriesOf("cidrs")}
  BY <1>0, <1>2, TextsBelow
<1>5. cidrs = {TextTaken(lines[i].token) : i \in EntriesOf("cidrs")}
        => (cidrs \subseteq DOMAIN Networks <=> \A i \in EntriesOf("cidrs") : TextTaken(lines[i].token) \in DOMAIN Networks)
  OBVIOUS
<1>6. Proper <=> seenScope /\ Valid /\ cidrs \subseteq DOMAIN Networks
  <2> HIDE DEF cidrs
  <2>1. Valid <=> /\ Strings(Below("domains")) /\ Strings(Below("cidrs")) /\ Ports(Below("ports"))
                  /\ Rates(Below("rate_limit"))
    BY DEF Valid
  <2>2. (\A i \in EntriesOf("domains") \cup EntriesOf("cidrs") :
            /\ lines[i].token.form \in {"quoted", "quote_in_comment", "word", "word_comment", "fraction"}
            /\ TextTaken(lines[i].token) \notin TooWide)
          <=> Strings(Below("domains")) /\ Strings(Below("cidrs"))
    BY <1>3, <1>4
  <2> QED BY <1>0, <1>1, <1>4, <1>5, <2>1, <2>2, PortsBelow, RatesBelow DEF Proper
<1>7. Valid => Taken = SaidConfig
  <2>1. ASSUME Valid PROVE /\ TextsOf(Below("domains")) = {TextTaken(lines[i].token) : i \in EntriesOf("domains")}
                           /\ cidrs = {TextTaken(lines[i].token) : i \in EntriesOf("cidrs")}
                           /\ NumbersOf(Below("ports")) = {lines[i].token.n : i \in EntriesOf("ports")}
    BY <1>0, <1>3, <1>4, <2>1, PortsBelow DEF Valid
  <2>2. ASSUME Valid PROVE {TrimDots(d) : d \in TextsOf(Below("domains"))}
                             = {TrimDots(TextTaken(lines[i].token)) : i \in EntriesOf("domains")}
    BY <2>1, <2>2
  <2> QED BY <2>1, <2>2
<1>8. /\ Proper' <=> Proper
      /\ [domains |-> {TrimDots(TextTaken(lines[i].token)) : i \in EntriesOf("domains")},
          networks |-> {TextTaken(lines[i].token) : i \in EntriesOf("cidrs")},
          ports |-> {lines[i].token.n : i \in EntriesOf("ports")}]' = SaidConfig
  <2>1. InSubset' <=> InSubset
    BY <1>0 DEF InSubset, MayFollow, Written, EntriesOf
  <2>2. \A k : EntriesOf(k)' = EntriesOf(k)
    BY <1>0 DEF EntriesOf, Written
  <2> QED BY <1>0, <2>1, <2>2 DEF Proper
<1> HIDE DEF Taken, SaidConfig, cidrs
<1>9. CASE outcome' \in {"ScopeError", "ValueError"} /\ UNCHANGED config /\ ~Proper
  <2>1. ReadsRight'
    BY <1>8, <1>9 DEF ReadsRight, Proper
  <2>2. config' = NoConfig'
    BY <1>0, <1>9 DEF NoConfig
  <2> QED BY <1>0, <1>9, <2>1, <2>2 DEF ReaderInv
<1>10. CASE outcome' = "accepted" /\ Proper /\ config' = Taken
  <2>1. config' = SaidConfig
    BY <1>6, <1>7, <1>10
  <2>2. ReadsRight'
    BY <1>8, <1>10, <2>1 DEF ReadsRight, Proper
  <2> QED BY <1>0, <1>10, <2>2 DEF ReaderInv
<1> QED BY <1>6, <1>9, <1>10 DEF EndOfFile, Taken, cidrs

LEMMA ReaderStep == ReaderInv /\ [ScopeNext]_scopeVars => ReaderInv'
<1>1. ASSUME ReaderInv, UNCHANGED scopeVars PROVE ReaderInv'
  <2>0. UNCHANGED <<lines, seenScope, current, body, outcome, config>>
    BY <1>1 DEF scopeVars
  <2>1. (InSubset' <=> InSubset) /\ Written' = Written
    BY <2>0 DEF InSubset, MayFollow, Written, EntriesOf
  <2>2. \A k : EntriesOf(k)' = EntriesOf(k) /\ (LastKey(k)' <=> LastKey(k)) /\ Held(k)' = Held(k)
    BY <2>0 DEF EntriesOf, Written, LastKey, Held
  <2>3. \A k : Said(k)' = Said(k)
    BY <2>0, <2>2 DEF Said, Reading
  <2>4. ShapeInv /\ BodyInv => ShapeInv' /\ BodyInv'
    <3>1. Readings' = Readings
      BY DEF Readings, Reading
    <3> QED BY <2>0, <2>1, <2>2, <2>3, <3>1 DEF ShapeInv, BodyInv
  <2>5. ReadsRight => ReadsRight'
    <3>1. Proper' <=> Proper
      BY <2>0, <2>1, <2>2 DEF Proper
    <3> QED BY <2>0, <2>1, <2>2, <3>1 DEF ReadsRight
  <2> QED BY <1>1, <2>0, <2>4, <2>5 DEF ReaderInv, NoConfig
<1> QED BY <1>1, LineIsRead, FileEnds DEF ScopeNext

LEMMA ReaderStarts == ScopeInit => ReaderInv
<1> SUFFICES ASSUME ScopeInit PROVE ReaderInv
  OBVIOUS
<1>1. lines = <<>> /\ DOMAIN lines = {} /\ body = <<>> /\ DOMAIN body = {} /\ current = ""
  <2>1. DOMAIN <<>> = {}
    OBVIOUS
  <2> QED BY <2>1, Zenon DEF ScopeInit
<1>2. Written = {} /\ \A k : EntriesOf(k) = {} /\ ~LastKey(k)
  BY <1>1 DEF Written, EntriesOf, LastKey
<1>3. ShapeInv
  <2>1. seenScope = FALSE
    BY DEF ScopeInit
  <2> QED BY <1>2, <2>1 DEF ShapeInv
<1>4. BodyInv
  BY <1>1, <1>2 DEF BodyInv, Keys
<1>5. lines \in Seq(Lines)
  <2>1. <<>> \in Seq(Lines)
    OBVIOUS
  <2> QED BY <1>1, <2>1, Zenon
<1> QED BY <1>3, <1>4, <1>5 DEF ScopeInit, ReaderInv, ReadsRight

\* The file that the reader accepts is the documented one, but for what is
\* rejected all the same.
LEMMA ProperIsDocumented ==
  ASSUME NoneSwallowed
  PROVE  Proper <=> Documented /\ \A k \in Keys : \A i \in EntriesOf(k) : ~Rejected(i)
<1>1. \A i \in DOMAIN lines : TextTaken(lines[i].token) = lines[i].token.text /\ lines[i].token.form # "quote_in_comment"
  BY DEF NoneSwallowed, TextTaken
<1>2. \A k : EntriesOf(k) \subseteq DOMAIN lines
  BY DEF EntriesOf, Written
<1>3. "domains" \in Keys /\ "cidrs" \in Keys /\ "ports" \in Keys /\ "rate_limit" \in Keys
  BY DEF Keys
<1>4. ASSUME Proper PROVE Documented
  BY <1>1, <1>2, <1>4 DEF Proper, Documented, Names, WholeNumbers, Rate
<1>5. ASSUME Proper, NEW k \in Keys, NEW i \in EntriesOf(k) PROVE ~Rejected(i)
  BY <1>5 DEF Proper, Rejected, Keys
<1>6. ASSUME Documented, \A k \in Keys : \A i \in EntriesOf(k) : ~Rejected(i) PROVE Proper
  <2>1. \A i \in EntriesOf("domains") \cup EntriesOf("cidrs") :
          /\ lines[i].token.form \in {"quoted", "quote_in_comment", "word", "word_comment", "fraction"}
          /\ TextTaken(lines[i].token) \notin TooWide
    BY <1>1, <1>2, <1>3, <1>6 DEF Documented, Names, Rejected
  <2>2. \A i \in EntriesOf("cidrs") : TextTaken(lines[i].token) \in DOMAIN Networks
    BY <1>1, <1>2, <1>6 DEF Documented
  <2>3. \A i \in EntriesOf("rate_limit") :
          lines[i].token.form \in {"int", "int_comment"} /\ lines[i].token.n >= 0
    BY <1>3, <1>6 DEF Documented, Rate, WholeNumbers, Rejected
  <2> QED BY <1>6, <2>1, <2>2, <2>3 DEF Proper, Documented, WholeNumbers
<1> QED BY <1>4, <1>5, <1>6

\* For every file: but for a comment after a quoted value and a fraction, the
\* reader accepts exactly the documented files, and then holds what the file
\* says (_parse_scope_yaml, _scalar, _validate_document).
THEOREM ReaderReadsTheSubset == ScopeSpec => []ReadsTheSubset
<1>1. ASSUME ReaderInv PROVE ReadsTheSubset
  <2> SUFFICES ASSUME NoneSwallowed
               PROVE  /\ outcome = "accepted" <=>
                           outcome # "reading" /\ Documented /\ \A k \in Keys : \A i \in EntriesOf(k) : ~Rejected(i)
                      /\ outcome = "accepted" =>
                           config = [domains |-> {TrimDots(lines[i].token.text) : i \in EntriesOf("domains")},
                                     networks |-> {lines[i].token.text : i \in EntriesOf("cidrs")},
                                     ports |-> {lines[i].token.n : i \in EntriesOf("ports")}]
    BY DEF ReadsTheSubset
  <2>1. ReadsRight
    BY <1>1 DEF ReaderInv
  <2>2. \A k : \A i \in EntriesOf(k) : TextTaken(lines[i].token) = lines[i].token.text
    BY DEF EntriesOf, Written, NoneSwallowed, TextTaken
  <2>3. /\ {TrimDots(TextTaken(lines[i].token)) : i \in EntriesOf("domains")} = {TrimDots(lines[i].token.text) : i \in EntriesOf("domains")}
        /\ {TextTaken(lines[i].token) : i \in EntriesOf("cidrs")} = {lines[i].token.text : i \in EntriesOf("cidrs")}
    BY <2>2
  <2> QED BY <2>1, <2>3, ProperIsDocumented DEF ReadsRight
<1> QED BY <1>1, ReaderStarts, ReaderStep, PTL DEF ScopeSpec

\* A name without the dots at its end is a name.
LEMMA TrimmedIsName ==
  ASSUME NEW S, NEW name \in Seq(S)
  PROVE  TrimDots(name) \in Seq(S)
<1> DEFINE Ends(n) == \A i \in (n + 1)..Len(name) : name[i] = Dot
           Good == {n \in 0..Len(name) : Ends(n)}
           last == CHOOSE n \in 0..Len(name) : (n > 0 => name[n] # Dot) /\ Ends(n)
<1>0. Len(name) \in Nat
  OBVIOUS
<1>1. Good # {} /\ Good \in SUBSET Nat
  <2>1. Len(name) \in Good
    BY <1>0
  <2> QED BY <1>0, <2>1
<1>2. PICK m \in Good : \A k \in Good : m <= k
  BY <1>1, LeastNumber
<1>3. m > 0 => name[m] # Dot
  <2> SUFFICES ASSUME m > 0, name[m] = Dot PROVE FALSE
    OBVIOUS
  <2>1. m \in 0..Len(name) /\ Ends(m)
    BY <1>2
  <2>2. m - 1 \in 0..Len(name) /\ ~(m <= m - 1)
    BY <1>0, <2>1
  <2>3. Ends(m - 1)
    BY <1>0, <2>1
  <2>4. m - 1 \in Good
    BY <2>2, <2>3
  <2> HIDE DEF Good
  <2> QED BY <1>2, <2>2, <2>4
<1>4. last \in 0..Len(name)
  BY <1>2, <1>3
<1>5. TrimDots(name) = SubSeq(name, 1, last)
  BY DEF TrimDots
<1> HIDE DEF last
<1> QED BY <1>0, <1>4, <1>5

\* The test of is_target_allowed, said label by label
LEMMA UnderIsBelow ==
  ASSUME NEW S, Dot \in S, NEW n \in Seq(S), NEW d \in Seq(S), Under(n, d)
  PROVE  n = d \/ (Len(n) > Len(d) /\ n[Len(n) - Len(d)] = Dot /\ SubSeq(n, Len(n) - Len(d) + 1, Len(n)) = d)
<1> DEFINE e == <<Dot>> \o d
<1> SUFFICES ASSUME IsSuffix(e, n)
             PROVE  Len(n) > Len(d) /\ n[Len(n) - Len(d)] = Dot /\ SubSeq(n, Len(n) - Len(d) + 1, Len(n)) = d
  BY DEF Under
<1>1. /\ e \in Seq(S) /\ Len(e) = Len(d) + 1 /\ e[1] = Dot /\ \A j \in 1..Len(d) : e[j + 1] = d[j]
      /\ Len(d) \in Nat /\ Len(n) \in Nat
  OBVIOUS
<1> HIDE DEF e
<1>2. /\ Reverse(e) \in Seq(S) /\ Len(Reverse(e)) = Len(e) /\ \A j \in 1..Len(e) : Reverse(e)[j] = e[Len(e) - j + 1]
      /\ Reverse(n) \in Seq(S) /\ Len(Reverse(n)) = Len(n) /\ \A j \in 1..Len(n) : Reverse(n)[j] = n[Len(n) - j + 1]
  BY <1>1 DEF Reverse
<1>3. Len(e) <= Len(n) /\ SubSeq(Reverse(e), 1, Len(e)) = SubSeq(Reverse(n), 1, Len(e))
  BY <1>2 DEF IsSuffix, IsPrefix
<1>4. \A j \in 1..Len(e) : Reverse(e)[j] = Reverse(n)[j]
  <2>1. \A j \in 1..Len(e) : SubSeq(Reverse(e), 1, Len(e))[j] = Reverse(e)[j] /\ SubSeq(Reverse(n), 1, Len(e))[j] = Reverse(n)[j]
    BY <1>1, <1>2, <1>3
  <2> QED BY <1>3, <2>1
<1>5. \A j \in 1..Len(e) : e[j] = n[Len(n) - Len(e) + j]
  <2> SUFFICES ASSUME NEW j \in 1..Len(e) PROVE e[j] = n[Len(n) - Len(e) + j]
    OBVIOUS
  <2>1. PICK i \in 1..Len(e) : i = Len(e) - j + 1
    <3>1. Len(e) \in Nat /\ Len(e) - j + 1 \in 1..Len(e)
      BY <1>1
    <3> QED BY <3>1
  <2>2. Len(e) - i + 1 = j /\ Len(n) - i + 1 = Len(n) - Len(e) + j /\ i \in 1..Len(n)
    BY <1>1, <1>3, <2>1
  <2> QED BY <1>2, <1>4, <2>2
<1>6. Len(n) > Len(d) /\ n[Len(n) - Len(d)] = Dot
  <2>1. Len(n) - Len(e) + 1 = Len(n) - Len(d) /\ 1 \in 1..Len(e)
    BY <1>1
  <2> QED BY <1>1, <1>3, <1>5, <2>1
<1>7. \A j \in 1..Len(d) : n[Len(n) - Len(d) + j] = d[j]
  <2> SUFFICES ASSUME NEW j \in 1..Len(d) PROVE n[Len(n) - Len(d) + j] = d[j]
    OBVIOUS
  <2>1. j + 1 \in 1..Len(e) /\ Len(n) - Len(e) + (j + 1) = Len(n) - Len(d) + j
    BY <1>1
  <2>2. e[j + 1] = n[Len(n) - Len(e) + (j + 1)] /\ e[j + 1] = d[j]
    BY <1>1, <1>5, <2>1
  <2> QED BY <2>1, <2>2
<1>8. SubSeq(n, Len(n) - Len(d) + 1, Len(n)) = d
  <2> DEFINE t == SubSeq(n, Len(n) - Len(d) + 1, Len(n))
  <2>1. t \in Seq(S) /\ Len(t) = Len(d)
    BY <1>1, <1>6
  <2>2. \A j \in 1..Len(d) : t[j] = n[Len(n) - Len(d) + j]
    BY <1>1, <1>6
  <2> HIDE DEF t
  <2>3. t = d
    BY <1>7, <2>1, <2>2
  <2> QED BY <2>3 DEF t
<1> QED BY <1>6, <1>8

\* For every file and every target: what the enforcer allows is written in the
\* file (is_target_allowed, check_ports).
THEOREM AllowsWhatIsWritten == ScopeSpec => []AllowsOnlyWhatIsWritten
<1>1. ASSUME ReaderInv PROVE AllowsOnlyWhatIsWritten
  <2>1. CASE outcome # "accepted"
    <3>1. config.domains = {} /\ config.networks = {}
      BY <1>1, <2>1 DEF ReaderInv, NoConfig
    <3> QED BY <2>1, <3>1 DEF AllowsOnlyWhatIsWritten, NameAllowed, AddressAllowed
  <2>2. CASE outcome = "accepted"
    <3>1. config = [domains |-> {TrimDots(TextTaken(lines[i].token)) : i \in EntriesOf("domains")},
                    networks |-> {TextTaken(lines[i].token) : i \in EntriesOf("cidrs")},
                    ports |-> {lines[i].token.n : i \in EntriesOf("ports")}]
      BY <1>1, <2>2 DEF ReaderInv, ReadsRight
    <3>2. ASSUME NEW name \in Targets, NameAllowed(name)
          PROVE  \E i \in EntriesOf("domains") :
                   LET d == TrimDots(TextTaken(lines[i].token))
                       n == TrimDots(name)
                   IN  n = d \/ (Len(n) > Len(d) /\ n[Len(n) - Len(d)] = Dot /\ SubSeq(n, Len(n) - Len(d) + 1, Len(n)) = d)
      <4>1. PICK i \in EntriesOf("domains") : Under(TrimDots(name), TrimDots(TextTaken(lines[i].token)))
        BY <3>1, <3>2 DEF NameAllowed
      <4> DEFINE S == STRING \cup {Dot, "comment"}
                 d == TrimDots(TextTaken(lines[i].token))
                 n == TrimDots(name)
      <4>2. name \in Seq(S)
        BY ScopeAssumption
      <4>3. TextTaken(lines[i].token) \in Seq(S)
        <5>1. lines[i] \in Lines
          BY <1>1 DEF ReaderInv, EntriesOf, Written
        <5>2. lines[i].token.text \in Seq(S)
          BY <5>1, ScopeAssumption
        <5>3. Swallowed \in Seq(S)
          BY DEF Swallowed
        <5> HIDE DEF S
        <5> QED BY <5>2, <5>3 DEF TextTaken
      <4>4. n \in Seq(S) /\ d \in Seq(S) /\ Dot \in S
        BY <4>2, <4>3, TrimmedIsName
      <4> HIDE DEF S
      <4>5. n = d \/ (Len(n) > Len(d) /\ n[Len(n) - Len(d)] = Dot /\ SubSeq(n, Len(n) - Len(d) + 1, Len(n)) = d)
        <5>1. Under(n, d)
          BY <4>1
        <5> HIDE DEF n, d
        <5> QED BY <4>4, <5>1, UnderIsBelow
      <4> QED BY <4>5
    <3>3. ASSUME NEW a \in Addresses, AddressAllowed(a)
          PROVE  \E i \in EntriesOf("cidrs") : a \in Networks[TextTaken(lines[i].token)]
      BY <3>1, <3>3 DEF AddressAllowed
    <3>4. ASSUME NEW i \in EntriesOf("ports")
          PROVE  /\ PortAllowed(lines[i].token.n)
                 /\ \A p \in {lines[i].token.n - 1, lines[i].token.n + 1} :
                      PortAllowed(p) => \E j \in EntriesOf("ports") : lines[j].token.n = p
      BY <3>1 DEF PortAllowed
    <3> QED BY <3>2, <3>3, <3>4 DEF AllowsOnlyWhatIsWritten
  <2> QED BY <2>1, <2>2
<1> QED BY <1>1, ReaderStarts, ReaderStep, PTL DEF ScopeSpec

-----------------------------------------------------------------------------
(***************************************************************************)
(* The search for a route (module AssetGraph)                              *)
(***************************************************************************)
\* A path from s to t that visits no node twice
IsPath(p, s, t) ==
  /\ p \in Seq(Nodes) /\ Len(p) > 0 /\ p[1] = s /\ p[Len(p)] = t
  /\ \A i, j \in 1..Len(p) : p[i] = p[j] => i = j
  /\ \A i \in 1..Len(p) : p[i] \in Known
  /\ \A i \in 1..(Len(p) - 1) : p[i + 1] \in adj[p[i]]

Source == query[1]
Jewel == query[2]

\* A node is settled when the entry that is up to date for it was taken.
Pending(n) == \E e \in pq : e.node = n /\ e.cost = visited[n]
Settled == {n \in DOMAIN visited : ~Pending(n)}

\* Node m is settled, and has looked at its neighbour n.
Relaxed(m, n) == search = "relax" /\ m = cur.node => n \notin left

\* The way to n is over p: no settled node that has looked at n is a better
\* one, and of those as good p is the first by name.
Chosen(p, n) ==
  /\ visited[p] + Cost[n] = visited[n]
  /\ \A m \in Settled : n \in adj[m] /\ Relaxed(m, n) =>
       visited[m] + Cost[n] >= visited[n] /\ (visited[m] + Cost[n] = visited[n] => p <= m)

\* An entry is a path at its cost, over settled nodes, each one chosen; its end
\* is chosen if the entry is up to date.
EntryInv(e) ==
  /\ IsPath(e.path, Source, e.node) /\ e.cost = CostOf(e.path)
  /\ \A i \in 1..Len(e.path) : e.path[i] \in DOMAIN visited /\ visited[e.path[i]] <= e.cost
  /\ \A i \in 1..(Len(e.path) - 1) : e.path[i] \in Settled /\ visited[e.path[i]] = CostUpTo(e.path)[i]
  /\ \A i \in 2..Len(e.path) : i < Len(e.path) \/ e.cost = visited[e.node] => Chosen(e.path[i - 1], e.path[i])

SearchTypes ==
  /\ query \in Nodes \X Nodes
  /\ DOMAIN visited \subseteq Known /\ visited \in [DOMAIN visited -> Nat]
  /\ Source \in DOMAIN visited /\ visited[Source] = 0
  /\ search \in {"pop", "relax"}
  /\ \A e \in pq : e = Entry(e.cost, e.node, e.path) /\ e.cost \in Nat

\* What settled nodes have looked at is reached, at a cost no higher than theirs
\* allows; they come before all entries in the heap; and no two entries are for
\* the same node at the same cost, as Least assumes.
Reached == \A m \in Settled : \A n \in adj[m] : Relaxed(m, n) =>
             n \in DOMAIN visited /\ visited[n] <= visited[m] + Cost[n]
Ordered == \A m \in Settled, e \in pq : visited[m] < e.cost \/ (visited[m] = e.cost /\ m < e.node)
Single == \A e, f \in pq : e.node = f.node /\ e.cost = f.cost => e = f

\* The entry in hand is the one that was settled last.
CurrentInv ==
  search = "relax" =>
    /\ cur = Entry(cur.cost, cur.node, cur.path) /\ EntryInv(cur)
    /\ cur.cost = visited[cur.node] /\ cur.node \in Settled /\ left \subseteq adj[cur.node]
    /\ \A m \in Settled : visited[m] < cur.cost \/ (visited[m] = cur.cost /\ m <= cur.node)

GraphInv == nodes \in Seq(Nodes) /\ adj \in [Nodes -> SUBSET Nodes] /\ \A n \in Nodes : adj[n] \subseteq Known

\* The invariant of the search, while it lasts.
SearchInv ==
  search \in {"pop", "relax"} =>
    /\ SearchTypes /\ (\A e \in pq : EntryInv(e)) /\ Reached /\ Ordered /\ CurrentInv /\ Single /\ Jewel \notin Settled

RouteInv ==
  /\ GraphInv /\ SearchInv /\ RouteIsLeast
  /\ search \in {"none", "pop", "relax", "over"} /\ (search # "over" => route.path = <<>>)

\* The cost of a path, node by node
LEMMA CostOfPath ==
  ASSUME NEW p \in Seq(Nodes)
  PROVE  /\ CostUpTo(p) \in [0..Len(p) -> Nat]
         /\ CostUpTo(p)[0] = 0
         /\ Len(p) > 0 => CostUpTo(p)[1] = 0
         /\ \A i \in 2..Len(p) : CostUpTo(p)[i] = CostUpTo(p)[i - 1] + Cost[p[i]]
<1> DEFINE N == Len(p)
           toll(i) == IF i = 1 THEN 0 ELSE Cost[p[i]]
           F == [x \in (1..N) \X Nat |-> x[2] + toll(x[1])]
           Body(f) == [i \in 0..N |-> IF i = 0 THEN 0 ELSE f[i - 1] + toll(i)]
<1>1. N \in Nat /\ \A i \in 1..N : toll(i) \in Nat
  <2>1. \A i \in 1..N : p[i] \in Nodes
    OBVIOUS
  <2>2. \A n \in Nodes : Cost[n] \in Nat
    BY GraphAssumption
  <2> QED BY <2>1, <2>2
<1> HIDE DEF N, toll
<1>2. F \in [(1..N) \X Nat -> Nat] /\ \A i \in 1..N, c \in Nat : F[<<i, c>>] = c + toll(i)
  <2>1. ASSUME NEW x \in (1..N) \X Nat PROVE x[2] + toll(x[1]) \in Nat
    <3>1. x[1] \in 1..N /\ x[2] \in Nat
      OBVIOUS
    <3>2. toll(x[1]) \in Nat
      BY <1>1, <3>1
    <3> QED BY <3>1, <3>2
  <2> QED BY <2>1
<1> HIDE DEF F
<1>3. PICK f : f \in [0..N -> Nat] /\ f[0] = 0 /\ \A i \in 1..N : f[i] = F[<<i, f[i - 1]>>]
  <2>1. \E f : Run(Nat, N, 0, F, f)
    BY <1>1, <1>2, LoopRuns
  <2> QED BY <2>1 DEF Run
<1>4. ASSUME NEW i \in 1..N PROVE f[i] = f[i - 1] + toll(i)
  <2>1. i - 1 \in 0..N /\ f[i - 1] \in Nat
    BY <1>1, <1>3
  <2> QED BY <1>2, <1>3, <2>1
<1>5. f = Body(f)
  <2>1. f = [i \in 0..N |-> f[i]]
    BY <1>3
  <2>2. ASSUME NEW i \in 0..N PROVE f[i] = Body(f)[i]
    <3>1. CASE i = 0
      BY <1>3, <3>1
    <3>2. CASE i # 0
      <4>1. i \in 1..N
        BY <1>1, <3>2
      <4>2. Body(f)[i] = f[i - 1] + toll(i)
        BY <3>2
      <4> QED BY <1>4, <4>1, <4>2
    <3> QED BY <3>1, <3>2
  <2> QED BY <2>1, <2>2
<1> DEFINE sum == CHOOSE h : h = Body(h)
<1>6. sum = Body(sum)
  BY <1>5
<1>7. CostUpTo(p) = sum
  BY DEF CostUpTo, N, toll
<1> HIDE DEF sum
<1>8. sum[0] = 0 /\ \A i \in 1..N : sum[i] = sum[i - 1] + toll(i)
  <2>1. \A i \in 0..N : sum[i] = Body(sum)[i]
    BY <1>6
  <2>2. 0 \in 0..N /\ \A i \in 1..N : i \in 0..N /\ i # 0
    BY <1>1
  <2> QED BY <2>1, <2>2
<1> DEFINE Good == {i \in 0..N : sum[i] \in Nat}
<1>9. Good = 0..N
  <2>1. 0 \in Good
    BY <1>1, <1>8
  <2>2. ASSUME NEW i \in 1..N, i - 1 \in Good PROVE i \in Good
    <3>1. sum[i - 1] \in Nat /\ i \in 0..N /\ toll(i) \in Nat
      BY <1>1, <2>2
    <3> QED BY <1>8, <3>1
  <2>3. Good \in SUBSET (0..N)
    OBVIOUS
  <2> HIDE DEF Good
  <2> QED BY <1>1, <2>1, <2>2, <2>3, EachTurn
<1>10. sum \in [0..N -> Nat]
  <2>1. DOMAIN sum = 0..N /\ sum = [i \in DOMAIN sum |-> sum[i]]
    BY <1>6
  <2>2. \A i \in 0..N : sum[i] \in Nat
    BY <1>9
  <2> QED BY <2>1, <2>2
<1>11. N > 0 => sum[1] = 0
  <2>1. SUFFICES ASSUME N > 0 PROVE sum[1] = 0
    OBVIOUS
  <2>2. 1 \in 1..N /\ toll(1) = 0
    BY <1>1, <2>1 DEF toll
  <2>3. sum[1] = sum[0] + 0
    BY <1>8, <2>2
  <2> QED BY <1>8, <2>3
<1>12. \A i \in 2..N : sum[i] = sum[i - 1] + Cost[p[i]]
  <2>1. \A i \in 2..N : i \in 1..N /\ toll(i) = Cost[p[i]]
    BY <1>1 DEF toll
  <2> QED BY <1>8, <2>1
<1> QED BY <1>7, <1>8, <1>10, <1>11, <1>12 DEF N

\* Paths that begin with the same nodes cost the same up to there.
LEMMA SameStart ==
  ASSUME NEW p \in Seq(Nodes), NEW q \in Seq(Nodes), NEW k \in Nat, k <= Len(p), k <= Len(q),
         \A i \in 1..k : p[i] = q[i]
  PROVE  \A i \in 0..k : CostUpTo(p)[i] = CostUpTo(q)[i]
<1> DEFINE c == CostUpTo(p)
           d == CostUpTo(q)
           Good == {i \in 0..k : c[i] = d[i]}
<1>1. /\ c[0] = 0 /\ (Len(p) > 0 => c[1] = 0) /\ \A i \in 2..Len(p) : c[i] = c[i - 1] + Cost[p[i]]
      /\ d[0] = 0 /\ (Len(q) > 0 => d[1] = 0) /\ \A i \in 2..Len(q) : d[i] = d[i - 1] + Cost[q[i]]
  BY CostOfPath
<1> HIDE DEF c, d
<1>2. 0 \in Good
  BY <1>1
<1>3. ASSUME NEW i \in 1..k, i - 1 \in Good PROVE i \in Good
  <2>0. Len(p) \in Nat /\ Len(q) \in Nat /\ i \in 0..k /\ c[i - 1] = d[i - 1]
    BY <1>3
  <2>1. CASE i = 1
    BY <1>1, <2>0, <2>1
  <2>2. CASE i # 1
    <3>1. i \in 2..Len(p) /\ i \in 2..Len(q)
      BY <2>0, <2>2
    <3> QED BY <1>1, <2>0, <3>1
  <2> QED BY <2>1, <2>2
<1>4. Good = 0..k
  <2>1. Good \in SUBSET (0..k)
    OBVIOUS
  <2> HIDE DEF Good
  <2> QED BY <1>2, <1>3, <2>1, EachTurn
<1> QED BY <1>4 DEF c, d

\* A path costs at least what a part of it costs.
LEMMA CostGrows ==
  ASSUME NEW p \in Seq(Nodes), NEW i \in 1..Len(p)
  PROVE  CostUpTo(p)[i] <= CostOf(p) /\ CostOf(p) \in Nat /\ CostUpTo(p)[i] \in Nat
<1> DEFINE c == CostUpTo(p)
           N == Len(p) - i
           Good == {j \in 0..N : c[i] <= c[i + j]}
<1>1. c \in [0..Len(p) -> Nat] /\ \A j \in 2..Len(p) : c[j] = c[j - 1] + Cost[p[j]]
  BY CostOfPath
<1>2. Len(p) \in Nat /\ N \in Nat /\ i + N = Len(p) /\ i \in 0..Len(p) /\ Len(p) \in 0..Len(p)
  OBVIOUS
<1>3. \A j \in 1..Len(p) : Cost[p[j]] \in Nat
  <2>1. \A j \in 1..Len(p) : p[j] \in Nodes
    OBVIOUS
  <2>2. \A n \in Nodes : Cost[n] \in Nat
    BY GraphAssumption
  <2> QED BY <2>1, <2>2
<1> HIDE DEF c, N
<1>4. 0 \in Good
  BY <1>1, <1>2
<1>5. ASSUME NEW j \in 1..N, j - 1 \in Good PROVE j \in Good
  <2>1. i + j \in 2..Len(p) /\ i + j \in 1..Len(p) /\ i + j - 1 = i + (j - 1) /\ j \in 0..N /\ i + (j - 1) \in 0..Len(p)
    BY <1>2
  <2>2. c[i + j] = c[i + (j - 1)] + Cost[p[i + j]] /\ Cost[p[i + j]] \in Nat /\ c[i + (j - 1)] \in Nat /\ c[i] \in Nat
    BY <1>1, <1>2, <1>3, <2>1
  <2>3. c[i] <= c[i + (j - 1)]
    BY <1>5
  <2> QED BY <2>1, <2>2, <2>3
<1>6. Good = 0..N
  <2>1. Good \in SUBSET (0..N)
    OBVIOUS
  <2> HIDE DEF Good
  <2> QED BY <1>2, <1>4, <1>5, <2>1, EachTurn
<1>7. c[i] <= c[i + N]
  <2>1. N \in 0..N
    BY <1>2
  <2>2. N \in Good
    BY <1>6, <2>1
  <2> QED BY <2>2
<1>8. c[Len(p)] \in Nat /\ c[i] \in Nat
  BY <1>1, <1>2
<1> QED BY <1>2, <1>7, <1>8 DEF c, CostOf

\* A path with one node more
LEMMA CostAppend ==
  ASSUME NEW p \in Seq(Nodes), Len(p) > 0, NEW n \in Nodes
  PROVE  /\ CostOf(Append(p, n)) = CostOf(p) + Cost[n]
         /\ \A i \in 1..Len(p) : CostUpTo(Append(p, n))[i] = CostUpTo(p)[i]
<1> DEFINE q == Append(p, n)
<1>1. q \in Seq(Nodes) /\ Len(q) = Len(p) + 1 /\ q[Len(p) + 1] = n /\ \A i \in 1..Len(p) : q[i] = p[i]
  OBVIOUS
<1> HIDE DEF q
<1>2. Len(p) \in Nat /\ Len(p) <= Len(q) /\ Len(p) + 1 \in 2..Len(q) /\ Len(p) \in 0..Len(p)
  BY <1>1
<1>3. \A i \in 0..Len(p) : CostUpTo(q)[i] = CostUpTo(p)[i]
  <2>1. Len(p) <= Len(p) /\ \A i \in 1..Len(p) : q[i] = p[i]
    BY <1>1, <1>2
  <2> QED BY <1>1, <1>2, <2>1, SameStart, Zenon
<1>4. CostUpTo(q)[Len(p) + 1] = CostUpTo(q)[Len(p) + 1 - 1] + Cost[q[Len(p) + 1]]
  BY <1>1, <1>2, CostOfPath
<1>5. Len(p) + 1 - 1 = Len(p)
  BY <1>2
<1> QED BY <1>1, <1>2, <1>3, <1>4, <1>5 DEF CostOf, q

\* The paths that visit no node twice are the ones that IsPath describes.
LEMMA PathIs ==
  ASSUME NEW s, NEW t, NEW p
  PROVE  p \in PathsOf(s, t) <=> IsPath(p, s, t)
<1> DEFINE C == Cardinality(Nodes)
<1>0. C \in Nat
  BY GraphAssumption, FS_CardinalityType
<1>1. ASSUME p \in PathsOf(s, t) PROVE IsPath(p, s, t)
  <2>1. /\ p \in SeqOf(Nodes, C) /\ p # <<>> /\ IsInjective(p) /\ ToSet(p) \subseteq Known
        /\ \A i \in 1..(Len(p) - 1) : p[i + 1] \in adj[p[i]]
        /\ p[1] = s /\ Last(p) = t
    BY <1>1 DEF PathsOf, From, Paths, Routes
  <2> HIDE DEF C
  <2>2. PICK m \in 0..C : p \in [1..m -> Nodes]
    BY <2>1 DEF SeqOf
  <2>3. m \in Nat
    BY <1>0
  <2>4. p \in Seq(Nodes) /\ Len(p) = m /\ DOMAIN p = 1..m
    BY <2>2, <2>3
  <2>5. Len(p) > 0
    BY <2>1, <2>4
  <2>6. \A i \in 1..Len(p) : p[i] \in Known
    BY <2>1, <2>4 DEF ToSet
  <2> QED BY <2>1, <2>4, <2>5, <2>6 DEF IsPath, IsInjective, Last
<1>2. ASSUME IsPath(p, s, t) PROVE p \in PathsOf(s, t)
  <2>1. /\ p \in Seq(Nodes) /\ Len(p) > 0 /\ p[1] = s /\ p[Len(p)] = t
        /\ \A i, j \in 1..Len(p) : p[i] = p[j] => i = j
        /\ \A i \in 1..Len(p) : p[i] \in Known
        /\ \A i \in 1..(Len(p) - 1) : p[i + 1] \in adj[p[i]]
    BY <1>2 DEF IsPath
  <2>2. Len(p) \in Nat /\ DOMAIN p = 1..Len(p) /\ p \in [1..Len(p) -> Nodes] /\ p # <<>>
    BY <2>1
  <2>3. IsInjective(p) /\ ToSet(p) \subseteq Known
    BY <2>1, <2>2 DEF IsInjective, ToSet
  <2>4. Len(p) <= C
    <3>1. p \in Injection(1..Len(p), Nodes)
      BY <2>2, <2>3 DEF Injection
    <3>2. Cardinality(1..Len(p)) <= C
      BY <3>1, GraphAssumption, FS_Injection
    <3>3. Cardinality(1..Len(p)) = Len(p)
      <4>1. 1 \in Int /\ Len(p) \in Int /\ ~(1 > Len(p)) /\ Len(p) - 1 + 1 = Len(p)
        BY <2>1, <2>2
      <4> QED BY <4>1, FS_Interval
    <3> QED BY <3>2, <3>3
  <2> HIDE DEF C
  <2>5. p \in SeqOf(Nodes, C)
    <3>1. Len(p) \in 0..C
      BY <1>0, <2>2, <2>4
    <3> QED BY <2>2, <3>1 DEF SeqOf
  <2> QED BY <2>1, <2>2, <2>3, <2>5 DEF PathsOf, From, Paths, Routes, Last, C
<1> QED BY <1>1, <1>2

\* What LeastCost returns where there is a path.
LEMMA LeastCostIs ==
  ASSUME NEW s, NEW t, NEW p, IsPath(p, s, t), NEW c \in Nat, CostOf(p) = c,
         \A q : IsPath(q, s, t) => c <= CostOf(q)
  PROVE  LeastCost(s, t) = c
<1> DEFINE S == {CostOf(q) : q \in PathsOf(s, t)}
<1>1. c \in S
  BY PathIs
<1>2. \A x \in S : c <= x
  BY PathIs
<1>3. \A x \in S : x \in Nat
  <2>1. ASSUME NEW q \in PathsOf(s, t) PROVE CostOf(q) \in Nat
    <3>1. q \in Seq(Nodes) /\ 1 \in 1..Len(q)
      BY <2>1, PathIs DEF IsPath
    <3> QED BY <3>1, CostGrows
  <2> QED BY <2>1
<1> HIDE DEF S
<1>4. ASSUME NEW x \in S, \A y \in S : x =< y PROVE x = c
  BY <1>1, <1>2, <1>3, <1>4
<1>5. (CHOOSE x \in S : \A y \in S : x =< y) = c
  BY <1>1, <1>2, <1>4
<1> QED BY <1>5 DEF LeastCost, Min, S

\* Between the source and a node that is not settled there is always an entry
\* in the heap, and it is no dearer than the path.
LEMMA Frontier ==
  ASSUME SearchInv, GraphInv, search = "pop", NEW n, NEW q, IsPath(q, Source, n)
  PROVE  (\E f \in pq : f.cost <= CostOf(q)) \/ (n \in Settled /\ visited[n] <= CostOf(q))
<1> SUFFICES ASSUME \A f \in pq : ~(f.cost <= CostOf(q)) PROVE n \in Settled /\ visited[n] <= CostOf(q)
  OBVIOUS
<1>0. SearchTypes /\ Reached
  BY DEF SearchInv
<1>1. /\ q \in Seq(Nodes) /\ Len(q) \in Nat /\ Len(q) > 0 /\ q[1] = Source /\ q[Len(q)] = n
      /\ \A i \in 1..(Len(q) - 1) : q[i + 1] \in adj[q[i]]
  BY DEF IsPath
<1> DEFINE c == CostUpTo(q)
           N == Len(q) - 1
           At(k) == q[k + 1] \in Settled /\ visited[q[k + 1]] <= c[k + 1]
           Good == {k \in 0..N : At(k)}
<1>2. c \in [0..Len(q) -> Nat] /\ c[1] = 0 /\ \A i \in 2..Len(q) : c[i] = c[i - 1] + Cost[q[i]]
  BY <1>1, CostOfPath
<1>3. \A i \in 1..Len(q) : c[i] <= CostOf(q) /\ CostOf(q) \in Nat /\ q[i] \in Nodes /\ Cost[q[i]] \in Nat
  <2>1. \A i \in 1..Len(q) : q[i] \in Nodes
    BY <1>1
  <2>2. \A x \in Nodes : Cost[x] \in Nat
    BY GraphAssumption
  <2> QED BY <1>1, <2>1, <2>2, CostGrows
<1>4. \A x \in DOMAIN visited : visited[x] \in Nat
  BY <1>0 DEF SearchTypes
<1>5. ASSUME NEW x \in DOMAIN visited, visited[x] <= CostOf(q) PROVE x \in Settled
  <2>1. ~Pending(x)
    BY <1>5 DEF Pending
  <2> QED BY <2>1 DEF Settled
<1>6. N \in Nat /\ N + 1 = Len(q)
  BY <1>1
<1> HIDE DEF c, N, At
<1>7. At(0)
  <2>1. q[1] \in DOMAIN visited /\ visited[q[1]] = 0
    BY <1>0, <1>1 DEF SearchTypes
  <2>2. 1 \in 1..Len(q)
    BY <1>1
  <2>3. 0 <= CostOf(q)
    BY <1>3, <2>2
  <2> QED BY <1>2, <1>5, <2>1, <2>3 DEF At
<1>8. ASSUME NEW k \in 1..N, At(k - 1) PROVE At(k)
  <2>1. k + 1 \in 2..Len(q) /\ k \in 1..(Len(q) - 1) /\ k + 1 \in 1..Len(q) /\ k \in 0..Len(q) /\ k + 1 - 1 = k /\ k - 1 + 1 = k
    BY <1>6
  <2>2. q[k] \in Settled /\ visited[q[k]] <= c[k]
    BY <1>8, <2>1 DEF At
  <2>3. q[k + 1] \in adj[q[k]] /\ Relaxed(q[k], q[k + 1])
    BY <1>1, <2>1 DEF Relaxed
  <2>4. q[k + 1] \in DOMAIN visited /\ visited[q[k + 1]] <= visited[q[k]] + Cost[q[k + 1]]
    BY <1>0, <2>2, <2>3 DEF Reached
  <2>5. visited[q[k]] \in Nat /\ visited[q[k + 1]] \in Nat
    BY <1>4, <2>2, <2>4 DEF Settled
  <2>6. c[k + 1] = c[k] + Cost[q[k + 1]] /\ c[k] \in Nat /\ Cost[q[k + 1]] \in Nat
    BY <1>2, <1>3, <2>1
  <2>7. visited[q[k + 1]] <= c[k + 1]
    BY <2>2, <2>4, <2>5, <2>6
  <2>8. visited[q[k + 1]] <= CostOf(q)
    <3>1. c[k + 1] <= CostOf(q) /\ CostOf(q) \in Nat
      BY <1>3, <2>1
    <3> QED BY <2>5, <2>6, <2>7, <3>1
  <2> QED BY <1>5, <2>4, <2>7, <2>8 DEF At
<1>9. Good = 0..N
  <2>1. Good \in SUBSET (0..N) /\ 0 \in Good
    BY <1>6, <1>7
  <2>2. ASSUME NEW k \in 1..N, k - 1 \in Good PROVE k \in Good
    <3>1. At(k - 1) /\ k \in 0..N
      BY <1>6, <2>2
    <3> QED BY <1>8, <3>1
  <2> HIDE DEF Good
  <2> QED BY <1>6, <2>1, <2>2, EachTurn
<1>10. At(N)
  <2>1. N \in 0..N
    BY <1>6
  <2> QED BY <1>9, <2>1
<1> QED BY <1>1, <1>6, <1>10 DEF At, c, CostOf

\* A path up to one of its nodes is a path.
LEMMA PartIsPath ==
  ASSUME NEW s, NEW t, NEW p, IsPath(p, s, t), NEW i \in 1..Len(p)
  PROVE  \E q : IsPath(q, s, p[i]) /\ CostOf(q) = CostUpTo(p)[i]
<1>1. /\ p \in Seq(Nodes) /\ Len(p) \in Nat /\ Len(p) > 0 /\ p[1] = s
      /\ \A k, j \in 1..Len(p) : p[k] = p[j] => k = j
      /\ \A k \in 1..Len(p) : p[k] \in Known
      /\ \A k \in 1..(Len(p) - 1) : p[k + 1] \in adj[p[k]]
  BY DEF IsPath
<1> DEFINE q == [k \in 1..i |-> p[k]]
<1>2. i \in Nat /\ i > 0 /\ i <= Len(p) /\ 1 \in 1..i /\ i \in 1..i /\ i \in 0..i
  BY <1>1
<1>3. q \in Seq(Nodes) /\ Len(q) = i
  <2>1. \A k \in 1..i : p[k] \in Nodes
    BY <1>1
  <2>2. q \in [1..i -> Nodes]
    BY <2>1
  <2> HIDE DEF q
  <2> QED BY <1>2, <2>2
<1>4. \A k \in 1..i : q[k] = p[k] /\ k \in 1..Len(p)
  BY <1>2
<1> HIDE DEF q
<1>5. \A k \in 1..(i - 1) : k \in 1..i /\ k + 1 \in 1..i /\ k \in 1..(Len(p) - 1)
  BY <1>1, <1>2
<1>6. IsPath(q, s, p[i])
  <2>1. q[1] = s /\ q[Len(q)] = p[i] /\ Len(q) > 0
    BY <1>1, <1>2, <1>3, <1>4
  <2>2. \A k, j \in 1..i : q[k] = q[j] => k = j
    BY <1>1, <1>4
  <2>3. \A k \in 1..i : q[k] \in Known
    BY <1>1, <1>4
  <2>4. \A k \in 1..(i - 1) : q[k + 1] \in adj[q[k]]
    BY <1>1, <1>4, <1>5
  <2> QED BY <1>3, <2>1, <2>2, <2>3, <2>4 DEF IsPath
<1>7. CostOf(q) = CostUpTo(p)[i]
  <2>1. \A k \in 0..i : CostUpTo(q)[k] = CostUpTo(p)[k]
    BY <1>1, <1>2, <1>3, <1>4, SameStart
  <2> QED BY <1>2, <1>3, <2>1 DEF CostOf
<1> QED BY <1>6, <1>7

\* Where there is a path there is one of the least cost.
LEMMA LeastCostAttained ==
  ASSUME NEW s, NEW t, PathsOf(s, t) # {}
  PROVE  \E q : IsPath(q, s, t) /\ CostOf(q) = LeastCost(s, t) /\ CostOf(q) \in Nat
<1> DEFINE S == {CostOf(q) : q \in PathsOf(s, t)}
<1>1. S \in SUBSET Nat
  <2>1. ASSUME NEW q \in PathsOf(s, t) PROVE CostOf(q) \in Nat
    <3>1. q \in Seq(Nodes) /\ 1 \in 1..Len(q)
      BY <2>1, PathIs DEF IsPath
    <3> QED BY <3>1, CostGrows
  <2> QED BY <2>1
<1>2. S # {}
  OBVIOUS
<1>3. \E x \in S : \A y \in S : x =< y
  <2> HIDE DEF S
  <2> QED BY <1>1, <1>2, LeastNumber
<1>4. LeastCost(s, t) \in S
  BY <1>3 DEF LeastCost, Min
<1>5. PICK q \in PathsOf(s, t) : CostOf(q) = LeastCost(s, t)
  BY <1>4
<1> QED BY <1>1, <1>4, <1>5, PathIs

\* The entry for the jewel, once it is the least, is the answer asked for.
LEMMA AnswerIsLeast ==
  ASSUME SearchInv, GraphInv, search = "pop", NEW e \in pq, Least(e), Arrived(e)
  PROVE  /\ IsPath(e.path, Source, Jewel) /\ e.cost = CostOf(e.path) /\ e.cost = LeastCost(Source, Jewel)
         /\ \A i \in 2..Len(e.path) : e.path[i - 1] = Ahead(Source, e.path[i])
<1>1. SearchTypes /\ EntryInv(e) /\ Jewel \notin Settled /\ e.node = Jewel
  BY DEF SearchInv, Arrived, Jewel
<1>2. /\ IsPath(e.path, Source, Jewel) /\ e.cost = CostOf(e.path) /\ e.cost \in Nat
      /\ \A i \in 1..Len(e.path) : e.path[i] \in DOMAIN visited /\ visited[e.path[i]] <= e.cost
      /\ \A i \in 1..(Len(e.path) - 1) : e.path[i] \in Settled /\ visited[e.path[i]] = CostUpTo(e.path)[i]
  BY <1>1 DEF EntryInv, SearchTypes
<1> DEFINE p == e.path
           N == Len(p)
           s == Source
<1>3. p \in Seq(Nodes) /\ N \in Nat /\ N > 0 /\ p[N] = Jewel /\ N \in 1..N
  BY <1>2 DEF IsPath
<1>4. \A f \in pq : e.cost <= f.cost /\ f.cost \in Nat
  BY <1>1, <1>2 DEF Least, SearchTypes
<1>5. visited \in [DOMAIN visited -> Nat]
  BY <1>1 DEF SearchTypes
<1>6. e.cost = visited[Jewel]
  <2>1. Jewel \in DOMAIN visited /\ visited[Jewel] <= e.cost
    BY <1>2, <1>3
  <2>2. Pending(Jewel)
    BY <1>1, <2>1 DEF Settled
  <2>3. PICK f \in pq : f.cost = visited[Jewel]
    BY <2>2 DEF Pending
  <2> QED BY <1>2, <1>4, <1>5, <2>1, <2>3
<1>7. \A i \in 1..N : visited[p[i]] = CostUpTo(p)[i]
  <2> SUFFICES ASSUME NEW i \in 1..N PROVE visited[p[i]] = CostUpTo(p)[i]
    OBVIOUS
  <2>1. CASE i = N
    BY <1>2, <1>3, <1>6, <2>1 DEF CostOf
  <2>2. CASE i # N
    <3>1. i \in 1..(N - 1)
      BY <1>3, <2>2
    <3> QED BY <1>2, <3>1
  <2> QED BY <2>1, <2>2
<1>8. \A i \in 2..N : Chosen(p[i - 1], p[i])
  BY <1>1, <1>6 DEF EntryInv
<1> HIDE DEF p, N, s
<1>9. ASSUME NEW i \in 1..N PROVE LeastCost(s, p[i]) = visited[p[i]] /\ \E q : IsPath(q, s, p[i])
  <2>1. PICK q : IsPath(q, s, p[i]) /\ CostOf(q) = visited[p[i]]
    <3>1. IsPath(p, s, Jewel)
      BY <1>2 DEF p, s
    <3>2. \E q : IsPath(q, s, p[i]) /\ CostOf(q) = CostUpTo(p)[i]
      BY <3>1, PartIsPath DEF N
    <3> QED BY <1>7, <3>2
  <2>2. p[i] \in DOMAIN visited /\ visited[p[i]] <= e.cost /\ visited[p[i]] \in Nat
    BY <1>2, <1>5 DEF p, N
  <2>3. ASSUME NEW r, IsPath(r, s, p[i]) PROVE visited[p[i]] <= CostOf(r)
    <3>1. (\E f \in pq : f.cost <= CostOf(r)) \/ visited[p[i]] <= CostOf(r)
      BY <2>3, Frontier DEF s
    <3>2. CostOf(r) \in Nat
      <4>1. r \in Seq(Nodes) /\ 1 \in 1..Len(r)
        BY <2>3 DEF IsPath
      <4> QED BY <4>1, CostGrows
    <3> QED BY <1>2, <1>4, <2>2, <3>1, <3>2
  <2>4. LeastCost(s, p[i]) = visited[p[i]]
    BY <2>1, <2>2, <2>3, LeastCostIs
  <2> QED BY <2>1, <2>4
<1>10. ASSUME NEW i \in 2..N PROVE p[i - 1] = Ahead(s, p[i])
  <2> DEFINE x == p[i]
             b == p[i - 1]
             before == {m \in Known : x \in adj[m] /\ PathsOf(s, m) # {} /\ LeastCost(s, m) + Cost[x] = LeastCost(s, x)}
  <2>1. i \in 1..N /\ i - 1 \in 1..N /\ i - 1 \in 1..(N - 1) /\ i - 1 + 1 = i
    BY <1>3
  <2>2. LeastCost(s, x) = visited[x] /\ LeastCost(s, b) = visited[b] /\ \E q : IsPath(q, s, b)
    BY <1>9, <2>1
  <2>3. Chosen(b, x)
    BY <1>8
  <2>4. b \in Known /\ x \in adj[b] /\ x \in Nodes
    BY <1>2, <1>3, <2>1 DEF IsPath, p, N
  <2>5. visited[x] \in Nat /\ visited[b] \in Nat /\ visited[x] <= e.cost /\ Cost[x] \in Nat \ {0}
    BY <1>2, <1>5, <2>1, <2>4, GraphAssumption DEF p, N
  <2> HIDE DEF x, b
  <2>6. b \in before
    BY <2>2, <2>3, <2>4, PathIs DEF Chosen
  <2>7. ASSUME NEW m \in before PROVE b <= m /\ LeastCost(s, m) = LeastCost(s, b)
    <3>1. m \in Known /\ x \in adj[m] /\ PathsOf(s, m) # {} /\ LeastCost(s, m) + Cost[x] = visited[x]
      BY <2>2, <2>7
    <3> HIDE DEF before
    <3>2. PICK q : IsPath(q, s, m) /\ CostOf(q) = LeastCost(s, m) /\ CostOf(q) \in Nat
      BY <3>1, LeastCostAttained
    <3>3. CostOf(q) < e.cost
      BY <1>2, <2>5, <3>1, <3>2
    <3>4. ~\E f \in pq : f.cost <= CostOf(q)
      BY <1>2, <1>4, <3>2, <3>3
    <3>5. m \in Settled /\ visited[m] <= CostOf(q)
      BY <3>2, <3>4, Frontier DEF s
    <3>6. Relaxed(m, x)
      BY DEF Relaxed
    <3>7. visited[m] + Cost[x] >= visited[x] /\ (visited[m] + Cost[x] = visited[x] => b <= m) /\ visited[b] + Cost[x] = visited[x]
      BY <2>3, <3>1, <3>5, <3>6 DEF Chosen
    <3>8. visited[m] \in Nat
      BY <1>5, <3>5 DEF Settled
    <3>9. visited[m] + Cost[x] = visited[x]
      BY <2>5, <3>1, <3>2, <3>5, <3>7, <3>8
    <3>10. LeastCost(s, m) = visited[b]
      BY <2>5, <3>1, <3>2, <3>7
    <3> QED BY <2>2, <3>7, <3>9, <3>10
  <2>8. \A m \in before : m \in Nat
    <3>1. Known \subseteq Nat
      BY GraphAssumption DEF GraphInv, Known, ToSet
    <3> QED BY <3>1
  <2>9. LeastCost(s, b) \in Nat
    BY <2>2, <2>5
  <2> DEFINE Better(m, k) == LeastCost(s, m) < LeastCost(s, k) \/ (LeastCost(s, m) = LeastCost(s, k) /\ m <= k)
  <2>10. Ahead(s, x) = CHOOSE m \in before : \A k \in before : Better(m, k)
    BY DEF Ahead
  <2> HIDE DEF before
  <2>11. \A k \in before : Better(b, k)
    BY <2>7
  <2>12. ASSUME NEW m \in before, Better(m, b) PROVE m = b
    BY <2>6, <2>7, <2>8, <2>9, <2>12
  <2> HIDE DEF Better
  <2>13. (CHOOSE m \in before : \A k \in before : Better(m, k)) = b
    BY <2>6, <2>11, <2>12
  <2> QED BY <2>10, <2>13 DEF x, b
<1>11. e.cost = LeastCost(s, Jewel)
  BY <1>3, <1>6, <1>9
<1> QED BY <1>2, <1>10, <1>11 DEF p, N, s

LEMMA SearchStarts ==
  ASSUME GraphInv, NEW q \in Queries, FindAttackPath(q)
  PROVE  SearchInv'
<1>1. /\ q \in Nodes \X Nodes /\ q[1] \in Nodes /\ q[2] \in Nodes /\ q[1] \in Known /\ q[2] \in Known
      /\ query' = q /\ search' = "pop" /\ UNCHANGED <<nodes, adj>>
      /\ visited' = [n \in {q[1]} |-> 0] /\ pq' = {Entry(0, q[1], <<q[1]>>)}
  BY GraphAssumption DEF FindAttackPath, graph
<1> DEFINE s == q[1]
           p == <<s>>
           e0 == Entry(0, s, p)
<1>2. /\ Known' = Known /\ Source' = s /\ Jewel' = q[2]
      /\ DOMAIN visited' = {s} /\ visited'[s] = 0 /\ pq' = {e0}
  BY <1>1 DEF Known, Source, Jewel
<1>3. e0.cost = 0 /\ e0.node = s /\ e0.path = p /\ e0 = Entry(e0.cost, e0.node, e0.path)
  BY DEF Entry
<1>4. p \in Seq(Nodes) /\ Len(p) = 1 /\ p[1] = s
  BY <1>1
<1> HIDE DEF e0, p, s
<1>5. CostOf(p) = 0
  <2>1. CostUpTo(p)[1] = 0
    BY <1>4, CostOfPath
  <2> QED BY <1>4, <2>1 DEF CostOf
<1>6. Settled' = {}
  BY <1>2, <1>3 DEF Settled, Pending
<1>7. IsPath(p, s, s)'
  <2>1. s \in Known /\ 1..Len(p) = {1} /\ 1..(Len(p) - 1) = {}
    BY <1>1, <1>4 DEF s
  <2> QED BY <1>2, <1>4, <2>1 DEF IsPath
<1>8. EntryInv(e0)'
  <2>1. 1..Len(p) = {1} /\ 1..(Len(p) - 1) = {} /\ 2..Len(p) = {}
    BY <1>4
  <2>2. IsPath(e0.path, Source, e0.node)'
    BY <1>2, <1>3, <1>7 DEF IsPath
  <2> QED BY <1>2, <1>3, <1>4, <1>5, <2>1, <2>2 DEF EntryInv
<1>9. SearchTypes'
  <2>1. visited' \in [DOMAIN visited' -> Nat]
    BY <1>1
  <2>2. s \in Known'
    BY <1>1, <1>2 DEF s
  <2> QED BY <1>1, <1>2, <1>3, <2>1, <2>2 DEF SearchTypes
<1> QED BY <1>1, <1>2, <1>3, <1>6, <1>8, <1>9 DEF SearchInv, Reached, Ordered, CurrentInv, Single

LEMMA SearchTurns ==
  ASSUME GraphInv, SearchInv, EndRelax
  PROVE  SearchInv'
<1>1. search = "relax" /\ left = {} /\ search' = "pop"
      /\ UNCHANGED <<nodes, adj, query, pq, visited, cur, left>>
  BY DEF EndRelax, graph, finding
<1>2. Settled' = Settled /\ Source' = Source /\ Jewel' = Jewel /\ Known' = Known
  BY <1>1 DEF Settled, Pending, Source, Jewel, Known
<1>3. \A m, n : Relaxed(m, n) /\ Relaxed(m, n)'
  BY <1>1 DEF Relaxed
<1>4. \A p, n : Chosen(p, n)' = Chosen(p, n)
  BY <1>1, <1>2, <1>3 DEF Chosen
<1>5. \A e : EntryInv(e) => EntryInv(e)'
  BY <1>1, <1>2, <1>4 DEF EntryInv, IsPath
<1> QED BY <1>1, <1>2, <1>3, <1>5 DEF SearchInv, SearchTypes, Reached, Ordered, CurrentInv, Single

\* An entry that is out of date is nobody's.
LEMMA StalePop ==
  ASSUME GraphInv, SearchInv, search = "pop", NEW e \in pq, e.cost > visited[e.node],
         pq' = pq \ {e}, UNCHANGED <<nodes, adj, search, query, visited, cur, left>>
  PROVE  SearchInv'
<1>0. SearchTypes /\ (\A f \in pq : EntryInv(f)) /\ Reached /\ Ordered /\ CurrentInv /\ Single /\ Jewel \notin Settled
  BY DEF SearchInv
<1>1. Source' = Source /\ Jewel' = Jewel /\ Known' = Known
  BY DEF Source, Jewel, Known
<1>2. e.cost # visited[e.node]
  <2>1. e.cost \in Nat /\ e.node \in DOMAIN visited /\ visited \in [DOMAIN visited -> Nat]
    <3>1. Len(e.path) \in 1..Len(e.path) /\ e.path[Len(e.path)] = e.node
      BY <1>0 DEF EntryInv, IsPath
    <3> QED BY <1>0, <3>1 DEF SearchTypes, EntryInv
  <2> QED BY <2>1
<1>3. \A n : Pending(n)' = Pending(n)
  BY <1>2 DEF Pending
<1>4. Settled' = Settled
  BY <1>3 DEF Settled
<1>5. \A m, n : Relaxed(m, n)' = Relaxed(m, n)
  BY DEF Relaxed
<1>6. \A p, n : Chosen(p, n)' = Chosen(p, n)
  BY <1>4, <1>5 DEF Chosen
<1>7. \A f : EntryInv(f) => EntryInv(f)'
  BY <1>1, <1>4, <1>6 DEF EntryInv, IsPath
<1>8. SearchTypes'
  BY <1>0, <1>1 DEF SearchTypes
<1>9. Reached' /\ Ordered' /\ Single' /\ CurrentInv'
  BY <1>0, <1>4, <1>5 DEF Reached, Ordered, Single, CurrentInv
<1> QED BY <1>0, <1>1, <1>4, <1>7, <1>8, <1>9 DEF SearchInv

\* One that is not has the least cost of its node, which is settled with it.
LEMMA FreshPop ==
  ASSUME GraphInv, SearchInv, search = "pop", NEW e \in pq, ~(e.cost > visited[e.node]), Least(e), ~Arrived(e),
         pq' = pq \ {e}, cur' = e, left' = adj[e.node], search' = "relax",
         UNCHANGED <<nodes, adj, query, visited>>
  PROVE  SearchInv'
<1>0. SearchTypes /\ (\A f \in pq : EntryInv(f)) /\ Reached /\ Ordered /\ CurrentInv /\ Single /\ Jewel \notin Settled
  BY DEF SearchInv
<1>1. Source' = Source /\ Jewel' = Jewel /\ Known' = Known
  BY DEF Source, Jewel, Known
<1>2. e.node \in DOMAIN visited /\ e.cost = visited[e.node] /\ e.node \in Nodes
  <2>1. Len(e.path) \in 1..Len(e.path) /\ e.path[Len(e.path)] = e.node /\ e.node \in Nodes
    BY <1>0 DEF EntryInv, IsPath
  <2>2. e.cost \in Nat /\ e.node \in DOMAIN visited /\ visited[e.node] <= e.cost /\ visited \in [DOMAIN visited -> Nat]
    BY <1>0, <2>1 DEF SearchTypes, EntryInv
  <2> QED BY <2>1, <2>2
<1>3. \A n : Pending(n)' <=> Pending(n) /\ n # e.node
  <2>1. ASSUME NEW n, n # e.node PROVE Pending(n)' = Pending(n)
    BY <2>1 DEF Pending
  <2>2. ASSUME NEW n, Pending(n)' PROVE n # e.node
    <3>1. \E f \in pq : f # e /\ f.node = n /\ f.cost = visited[n]
      BY <2>2 DEF Pending
    <3> QED BY <1>0, <1>2, <3>1 DEF Single
  <2> QED BY <2>1, <2>2
<1>4. Settled' = Settled \cup {e.node}
  BY <1>2, <1>3 DEF Settled
<1>5. \A m \in Settled' : \A n \in adj[m] : Relaxed(m, n)' => m \in Settled /\ Relaxed(m, n)
  BY <1>4 DEF Relaxed
<1>6. \A p, n : Chosen(p, n) => Chosen(p, n)'
  BY <1>5 DEF Chosen
<1>7. \A f : EntryInv(f) => EntryInv(f)'
  BY <1>1, <1>4, <1>6 DEF EntryInv, IsPath
<1>8. SearchTypes'
  BY <1>0, <1>1 DEF SearchTypes
<1>9. Reached'
  BY <1>0, <1>5 DEF Reached
<1>10. Ordered'
  <2> SUFFICES ASSUME NEW m \in Settled', NEW f \in pq' PROVE visited[m] < f.cost \/ (visited[m] = f.cost /\ m < f.node)
    BY DEF Ordered
  <2>1. CASE m \in Settled
    BY <1>0, <2>1 DEF Ordered
  <2>2. CASE m = e.node
    <3>1. f \in pq /\ f # e /\ ~(e.node = f.node /\ e.cost = f.cost)
      BY <1>0 DEF Single
    <3>2. e.cost < f.cost \/ (e.cost = f.cost /\ e.node <= f.node)
      BY <3>1 DEF Least
    <3>3. e.node \in Nat /\ f.node \in Nat
      <4>1. f.node \in Nodes
        BY <1>0, <3>1 DEF EntryInv, IsPath
      <4> QED BY <1>2, <4>1, GraphAssumption
    <3> QED BY <1>2, <2>2, <3>1, <3>2, <3>3
  <2> QED BY <1>4, <2>1, <2>2
<1>11. Single'
  BY <1>0 DEF Single
<1>12. CurrentInv'
  <2>1. e = Entry(e.cost, e.node, e.path) /\ EntryInv(e)'
    BY <1>0, <1>7 DEF SearchTypes
  <2>2. ASSUME NEW m \in Settled' PROVE visited[m] < e.cost \/ (visited[m] = e.cost /\ m <= e.node)
    <3>1. CASE m \in Settled
      <4>1. visited[m] < e.cost \/ (visited[m] = e.cost /\ m < e.node)
        BY <1>0, <3>1 DEF Ordered
      <4>2. m \in Nat /\ e.node \in Nat
        <5>1. Known \subseteq Nat
          BY GraphAssumption DEF GraphInv, Known, ToSet
        <5>2. m \in Known
          BY <1>0, <3>1 DEF SearchTypes, Settled
        <5> QED BY <1>2, <5>1, <5>2, GraphAssumption
      <4> QED BY <4>1, <4>2
    <3>2. CASE m = e.node
      <4>1. e.node \in Nat
        BY <1>2, GraphAssumption
      <4> QED BY <1>2, <3>2, <4>1
    <3> QED BY <1>4, <3>1, <3>2
  <2>3. EntryInv(cur)'
    BY <2>1 DEF EntryInv, IsPath
  <2> QED BY <1>2, <1>4, <2>1, <2>2, <2>3 DEF CurrentInv
<1>13. Jewel' \notin Settled'
  BY <1>0, <1>1, <1>4 DEF Arrived, Jewel
<1> QED BY <1>0, <1>7, <1>8, <1>9, <1>10, <1>11, <1>12, <1>13 DEF SearchInv

\* A neighbour that has an entry as cheap already
LEMMA NothingGained ==
  ASSUME GraphInv, SearchInv, search = "relax", NEW n \in left, n \in DOMAIN visited,
         cur.cost + Cost[n] >= visited[n], left' = left \ {n},
         UNCHANGED <<nodes, adj, search, query, pq, visited, cur>>
  PROVE  SearchInv'
<1>0. SearchTypes /\ (\A f \in pq : EntryInv(f)) /\ Reached /\ Ordered /\ CurrentInv /\ Single /\ Jewel \notin Settled
  BY DEF SearchInv
<1>1. Source' = Source /\ Jewel' = Jewel /\ Known' = Known /\ Settled' = Settled
  BY DEF Source, Jewel, Known, Settled, Pending
<1>2. /\ EntryInv(cur) /\ cur.cost = visited[cur.node] /\ cur.node \in Settled /\ left \subseteq adj[cur.node]
      /\ \A m \in Settled : visited[m] < cur.cost \/ (visited[m] = cur.cost /\ m <= cur.node)
  BY <1>0 DEF CurrentInv
<1>3. \A m, x : Relaxed(m, x)' => Relaxed(m, x) \/ (m = cur.node /\ x = n)
  BY DEF Relaxed
<1>4. ASSUME NEW m \in Settled PROVE visited[m] \in Nat
  BY <1>0 DEF SearchTypes, Settled
<1>5. n \in Nodes /\ Cost[n] \in Nat
  <2>1. n \in adj[cur.node] /\ cur.node \in Nodes
    BY <1>2 DEF EntryInv, IsPath
  <2>2. n \in Nodes
    BY <2>1 DEF GraphInv
  <2> QED BY <2>2, GraphAssumption
<1>6. ASSUME NEW p \in Settled, NEW x, Chosen(p, x) PROVE Chosen(p, x)'
  <2>1. visited[p] + Cost[x] = visited[x]
    BY <1>6 DEF Chosen
  <2>2. ASSUME NEW m \in Settled, x \in adj[m], Relaxed(m, x)'
        PROVE  visited[m] + Cost[x] >= visited[x] /\ (visited[m] + Cost[x] = visited[x] => p <= m)
    <3>1. CASE Relaxed(m, x)
      BY <1>6, <2>2, <3>1 DEF Chosen
    <3>2. CASE m = cur.node /\ x = n
      <4>1. visited[m] + Cost[x] >= visited[x]
        BY <1>2, <3>2
      <4>2. ASSUME visited[m] + Cost[x] = visited[x] PROVE p <= m
        <5>1. visited[p] = visited[m]
          BY <1>4, <1>5, <2>1, <3>2, <4>2
        <5>2. visited[p] = cur.cost /\ visited[p] \in Nat
          BY <1>2, <1>4, <3>2, <5>1
        <5>3. ~(visited[p] < cur.cost)
          BY <5>2
        <5> QED BY <1>2, <3>2, <5>3
      <4> QED BY <4>1, <4>2
    <3> QED BY <1>3, <2>2, <3>1, <3>2
  <2> QED BY <1>1, <2>1, <2>2 DEF Chosen
<1>7. ASSUME NEW f, EntryInv(f) PROVE EntryInv(f)'
  <2>1. ASSUME NEW i \in 2..Len(f.path), i < Len(f.path) \/ f.cost = visited[f.node]
        PROVE  Chosen(f.path[i - 1], f.path[i])'
    <3>1. i - 1 \in 1..(Len(f.path) - 1)
      BY <1>7 DEF EntryInv, IsPath
    <3>2. f.path[i - 1] \in Settled /\ Chosen(f.path[i - 1], f.path[i])
      BY <1>7, <2>1, <3>1 DEF EntryInv
    <3> QED BY <1>6, <3>2
  <2> QED BY <1>1, <1>7, <2>1 DEF EntryInv, IsPath
<1>8. SearchTypes'
  BY <1>0, <1>1 DEF SearchTypes
<1>9. Reached'
  <2> SUFFICES ASSUME NEW m \in Settled, NEW x \in adj[m], Relaxed(m, x)'
               PROVE  x \in DOMAIN visited /\ visited[x] <= visited[m] + Cost[x]
    BY <1>1 DEF Reached
  <2>1. CASE Relaxed(m, x)
    BY <1>0, <2>1 DEF Reached
  <2>2. CASE m = cur.node /\ x = n
    <3>1. visited[n] \in Nat /\ cur.cost \in Nat
      BY <1>0, <1>2, <1>4 DEF SearchTypes
    <3> QED BY <1>2, <1>5, <2>2, <3>1
  <2> QED BY <1>3, <2>1, <2>2
<1>10. Ordered' /\ Single'
  BY <1>0, <1>1 DEF Ordered, Single
<1>11. CurrentInv'
  <2>1. EntryInv(cur)'
    BY <1>2, <1>7 DEF EntryInv, IsPath
  <2> QED BY <1>0, <1>1, <1>2, <2>1 DEF CurrentInv
<1> QED BY <1>0, <1>1, <1>7, <1>8, <1>9, <1>10, <1>11 DEF SearchInv

\* A neighbour that is reached at a lower cost
LEMMA WayFound ==
  ASSUME GraphInv, SearchInv, search = "relax", NEW n \in left, NEW c, c = cur.cost + Cost[n],
         ~(n \in DOMAIN visited /\ c >= visited[n]), left' = left \ {n},
         visited' = [x \in DOMAIN visited \cup {n} |-> IF x = n THEN c ELSE visited[x]],
         pq' = pq \cup {Entry(c, n, Append(cur.path, n))},
         UNCHANGED <<nodes, adj, search, query, cur>>
  PROVE  SearchInv'
<1>0. SearchTypes /\ (\A f \in pq : EntryInv(f)) /\ Reached /\ Ordered /\ CurrentInv /\ Single /\ Jewel \notin Settled
  BY DEF SearchInv
<1>1. Source' = Source /\ Jewel' = Jewel /\ Known' = Known
  BY DEF Source, Jewel, Known
<1>2. /\ cur = Entry(cur.cost, cur.node, cur.path) /\ EntryInv(cur)
      /\ cur.cost = visited[cur.node] /\ cur.node \in Settled /\ left \subseteq adj[cur.node]
      /\ \A m \in Settled : visited[m] < cur.cost \/ (visited[m] = cur.cost /\ m <= cur.node)
  BY <1>0 DEF CurrentInv
<1>3. n \in Nodes /\ n \in Known /\ n \in adj[cur.node] /\ Cost[n] \in Nat /\ Cost[n] > 0
  <2>1. n \in adj[cur.node] /\ cur.node \in Nodes
    BY <1>2 DEF EntryInv, IsPath
  <2>2. n \in Nodes /\ n \in Known
    BY <2>1 DEF GraphInv
  <2> QED BY <2>1, <2>2, GraphAssumption
<1>4. visited \in [DOMAIN visited -> Nat] /\ \A m \in Settled : m \in DOMAIN visited /\ visited[m] \in Nat
  BY <1>0 DEF SearchTypes, Settled
<1>5. cur.cost \in Nat /\ c \in Nat /\ cur.cost < c
  BY <1>2, <1>3, <1>4
<1>6. \A m \in Settled : visited[m] <= cur.cost /\ visited[m] < c
  BY <1>2, <1>4, <1>5
<1>7. n \in DOMAIN visited => c < visited[n]
  BY <1>4, <1>5
<1>8. n \notin Settled
  BY <1>4, <1>5, <1>6, <1>7
<1>9. PICK new : /\ new.cost = c /\ new.node = n /\ new.path = Append(cur.path, n)
                 /\ new = Entry(new.cost, new.node, new.path) /\ pq' = pq \cup {new}
  BY DEF Entry
<1>10. /\ DOMAIN visited' = DOMAIN visited \cup {n} /\ visited'[n] = c
       /\ \A x \in DOMAIN visited : x # n => visited'[x] = visited[x]
  OBVIOUS
<1>11. \A x : x # n => Pending(x)' = Pending(x)
  <2> SUFFICES ASSUME NEW x, x # n PROVE Pending(x)' = Pending(x)
    OBVIOUS
  <2>1. visited'[x] = visited[x] \/ x \notin DOMAIN visited
    BY <1>10
  <2>2. CASE x \in DOMAIN visited
    BY <1>9, <2>1, <2>2 DEF Pending
  <2>3. CASE x \notin DOMAIN visited
    <3>1. \A f \in pq : f.node # x
      <4>1. \A f \in pq : Len(f.path) \in 1..Len(f.path) /\ f.path[Len(f.path)] = f.node
        BY <1>0 DEF EntryInv, IsPath
      <4>2. \A f \in pq : f.node \in DOMAIN visited
        BY <1>0, <4>1 DEF EntryInv
      <4> QED BY <2>3, <4>2
    <3>2. \A f \in pq' : f.node # x
      BY <1>9, <3>1
    <3> QED BY <3>1, <3>2 DEF Pending
  <2> QED BY <2>2, <2>3
<1>12. Pending(n)'
  BY <1>9, <1>10 DEF Pending
<1>13. Settled' = Settled
  BY <1>8, <1>10, <1>11, <1>12 DEF Settled
<1>14. \A m \in Settled : m # n /\ visited'[m] = visited[m]
  BY <1>4, <1>8, <1>10
<1>15. \A m, x : Relaxed(m, x)' => Relaxed(m, x) \/ (m = cur.node /\ x = n)
  BY DEF Relaxed
<1>16. ASSUME NEW p \in Settled, NEW x \in DOMAIN visited, x # n, Chosen(p, x) PROVE Chosen(p, x)'
  BY <1>10, <1>13, <1>14, <1>15, <1>16 DEF Chosen
<1>17. ASSUME NEW m \in Settled, n \in adj[m], m # cur.node PROVE c < visited[m] + Cost[n]
  <2>1. n \in DOMAIN visited /\ visited[n] <= visited[m] + Cost[n]
    BY <1>0, <1>17 DEF Reached, Relaxed
  <2> QED BY <1>3, <1>4, <1>5, <1>7, <2>1
<1>18. ASSUME NEW b, b = cur.node PROVE Chosen(b, n)'
  <2>1. visited'[b] + Cost[n] = visited'[n]
    BY <1>2, <1>10, <1>14, <1>18
  <2>2. b \in Nat
    <3>1. b \in Nodes
      BY <1>2, <1>18 DEF EntryInv, IsPath
    <3> QED BY <3>1, GraphAssumption
  <2>3. ASSUME NEW m \in Settled, n \in adj[m]
        PROVE  visited'[m] + Cost[n] >= visited'[n] /\ (visited'[m] + Cost[n] = visited'[n] => b <= m)
    <3>1. CASE m = b
      BY <1>3, <1>4, <2>1, <2>2, <3>1, <1>14
    <3>2. CASE m # b
      <4>1. c < visited[m] + Cost[n]
        BY <1>17, <1>18, <2>3, <3>2
      <4> QED BY <1>3, <1>4, <1>5, <1>10, <1>14, <4>1
    <3> QED BY <3>1, <3>2
  <2> QED BY <1>13, <2>1, <2>3 DEF Chosen
<1>19. ASSUME NEW f, EntryInv(f), f.node = n => f.cost >= visited[n] /\ f.cost \in Nat PROVE EntryInv(f)'
  <2>1. f.path \in Seq(Nodes) /\ Len(f.path) \in Nat /\ Len(f.path) > 0 /\ f.path[Len(f.path)] = f.node /\ Len(f.path) \in 1..Len(f.path)
    BY <1>19 DEF EntryInv, IsPath
  <2>2. f.node \in DOMAIN visited
    BY <1>19, <2>1 DEF EntryInv
  <2>3. IsPath(f.path, Source, f.node)'
    BY <1>1, <1>19 DEF EntryInv, IsPath
  <2>4. ASSUME NEW i \in 1..Len(f.path) PROVE f.path[i] \in DOMAIN visited' /\ visited'[f.path[i]] <= f.cost
    <3>1. f.path[i] \in DOMAIN visited /\ visited[f.path[i]] <= f.cost
      BY <1>19, <2>4 DEF EntryInv
    <3>2. CASE f.path[i] # n
      BY <1>10, <3>1, <3>2
    <3>3. CASE f.path[i] = n
      <4>1. i = Len(f.path)
        <5>1. SUFFICES ASSUME i # Len(f.path) PROVE FALSE
          OBVIOUS
        <5>2. i \in 1..(Len(f.path) - 1)
          BY <2>1, <5>1
        <5>3. f.path[i] \in Settled
          BY <1>19, <5>2 DEF EntryInv
        <5> QED BY <1>8, <3>3, <5>3
      <4>2. f.node = n
        BY <2>1, <3>3, <4>1
      <4> QED BY <1>4, <1>5, <1>7, <1>10, <1>19, <3>1, <3>3, <4>2
    <3> QED BY <3>2, <3>3
  <2>5. ASSUME NEW i \in 1..(Len(f.path) - 1) PROVE f.path[i] \in Settled' /\ visited'[f.path[i]] = CostUpTo(f.path)[i]
    BY <1>13, <1>14, <1>19, <2>5 DEF EntryInv
  <2>6. ASSUME NEW i \in 2..Len(f.path), i < Len(f.path) \/ f.cost = visited'[f.node]
        PROVE  Chosen(f.path[i - 1], f.path[i])'
    <3>1. i - 1 \in 1..(Len(f.path) - 1) /\ i \in 1..Len(f.path)
      BY <2>1
    <3>2. f.path[i - 1] \in Settled /\ f.path[i] \in DOMAIN visited
      BY <1>19, <3>1 DEF EntryInv
    <3>3. CASE i < Len(f.path)
      <4>1. i \in 1..(Len(f.path) - 1)
        BY <2>1, <3>3
      <4>2. f.path[i] \in Settled /\ Chosen(f.path[i - 1], f.path[i])
        BY <1>19, <3>3, <4>1 DEF EntryInv
      <4> QED BY <1>8, <1>16, <3>2, <4>2
    <3>4. CASE i = Len(f.path) /\ f.cost = visited'[f.node]
      <4>1. f.node # n
        <5>1. SUFFICES ASSUME f.node = n PROVE FALSE
          OBVIOUS
        <5>2. c < visited[n] /\ visited[n] \in Nat /\ f.cost = c
          BY <1>4, <1>7, <1>10, <2>2, <3>4, <5>1
        <5> QED BY <1>5, <1>19, <5>1, <5>2
      <4>2. f.cost = visited[f.node]
        BY <1>10, <2>2, <3>4, <4>1
      <4>3. Chosen(f.path[i - 1], f.path[i])
        BY <1>19, <4>2 DEF EntryInv
      <4> QED BY <1>16, <2>1, <3>2, <3>4, <4>1, <4>3
    <3> QED BY <2>1, <2>6, <3>3, <3>4
  <2>7. f.cost = CostOf(f.path)
    BY <1>19 DEF EntryInv
  <2> QED BY <2>3, <2>4, <2>5, <2>6, <2>7 DEF EntryInv, IsPath
<1>20. \A f \in pq : EntryInv(f)'
  <2> SUFFICES ASSUME NEW f \in pq PROVE EntryInv(f)'
    OBVIOUS
  <2>1. EntryInv(f) /\ f.cost \in Nat
    BY <1>0 DEF SearchTypes
  <2>2. Len(f.path) \in 1..Len(f.path) /\ f.path[Len(f.path)] = f.node
    BY <2>1 DEF EntryInv, IsPath
  <2>3. f.node \in DOMAIN visited /\ visited[f.node] <= f.cost
    BY <2>1, <2>2 DEF EntryInv
  <2>4. visited[f.node] \in Nat
    BY <1>4, <2>3
  <2> QED BY <1>19, <2>1, <2>3, <2>4
<1>21. EntryInv(cur)'
  <2>1. PICK f : f = cur /\ f = cur'
    OBVIOUS
  <2>2. f.node # n
    BY <1>2, <1>8, <2>1
  <2>3. EntryInv(f)'
    BY <1>2, <1>19, <2>1, <2>2
  <2> QED BY <2>1, <2>3, Zenon DEF EntryInv
<1>22. EntryInv(new)'
  <2>0. PICK p, q : p = cur.path /\ q = Append(p, n)
    OBVIOUS
  <2> DEFINE N == Len(p)
  <2>1. /\ p \in Seq(Nodes) /\ N \in Nat /\ N > 0 /\ p[N] = cur.node /\ p[1] = Source
        /\ \A i, j \in 1..N : p[i] = p[j] => i = j
        /\ \A i \in 1..N : p[i] \in Known
        /\ \A i \in 1..(N - 1) : p[i + 1] \in adj[p[i]]
    BY <1>2, <2>0 DEF EntryInv, IsPath
  <2>2. q \in Seq(Nodes) /\ Len(q) = N + 1 /\ q[N + 1] = n /\ \A i \in 1..N : q[i] = p[i]
    BY <1>3, <2>0, <2>1
  <2>3. CostOf(p) = cur.cost /\ \A i \in 1..(N - 1) : p[i] \in Settled /\ visited[p[i]] = CostUpTo(p)[i]
    BY <1>2, <2>0 DEF EntryInv
  <2>4. CostOf(q) = c /\ \A i \in 1..N : CostUpTo(q)[i] = CostUpTo(p)[i]
    BY <1>3, <2>0, <2>1, <2>3, CostAppend
  <2>5. \A i \in 2..N : Chosen(p[i - 1], p[i])
    BY <1>2, <2>0 DEF EntryInv
  <2>6. new.path = q
    BY <1>9, <2>0
  <2>7. CostOf(p) = CostUpTo(p)[N]
    BY DEF CostOf
  <2> HIDE DEF N
  <2>8. \A i \in 1..N : p[i] \in Settled /\ visited[p[i]] = CostUpTo(p)[i]
    <3> SUFFICES ASSUME NEW i \in 1..N PROVE p[i] \in Settled /\ visited[p[i]] = CostUpTo(p)[i]
      OBVIOUS
    <3>1. CASE i = N
      BY <1>2, <2>1, <2>3, <2>7, <3>1
    <3>2. CASE i # N
      <4>1. i \in 1..(N - 1)
        BY <2>1, <3>2
      <4> QED BY <2>3, <4>1
    <3> QED BY <3>1, <3>2
  <2>9. \A i \in 1..(N + 1) : i \in 1..N \/ i = N + 1
    BY <2>1
  <2>10. Len(q) > 0 /\ 1..Len(q) = 1..(N + 1) /\ 1..(Len(q) - 1) = 1..N /\ 2..Len(q) = 2..(N + 1) /\ q[Len(q)] = n
    BY <2>1, <2>2
  <2>11. IsPath(q, Source, n)'
    <3>1. q[1] = Source
      BY <2>1, <2>2
    <3>2. \A i, j \in 1..(N + 1) : q[i] = q[j] => i = j
      <4>1. \A i \in 1..N : q[i] # n
        BY <1>8, <2>2, <2>8
      <4> QED BY <2>1, <2>2, <2>9, <4>1
    <3>3. \A i \in 1..(N + 1) : q[i] \in Known
      BY <1>3, <2>1, <2>2, <2>9
    <3>4. \A i \in 1..N : q[i + 1] \in adj[q[i]]
      <4> SUFFICES ASSUME NEW i \in 1..N PROVE q[i + 1] \in adj[q[i]]
        OBVIOUS
      <4>1. CASE i = N
        BY <1>3, <2>1, <2>2, <4>1
      <4>2. CASE i # N
        <5>1. i \in 1..(N - 1) /\ i + 1 \in 1..N
          BY <2>1, <4>2
        <5> QED BY <2>1, <2>2, <5>1
      <4> QED BY <4>1, <4>2
    <3>5. IsPath(q, Source, n)
      BY <2>2, <2>10, <3>1, <3>2, <3>3, <3>4 DEF IsPath
    <3> QED BY <1>1, <3>5 DEF IsPath
  <2>12. ASSUME NEW i \in 1..(N + 1) PROVE q[i] \in DOMAIN visited' /\ visited'[q[i]] <= c
    <3>1. CASE i = N + 1
      BY <1>5, <1>10, <2>2, <3>1
    <3>2. CASE i \in 1..N
      BY <1>4, <1>5, <1>6, <1>10, <1>14, <2>2, <2>8, <3>2
    <3> QED BY <2>9, <3>1, <3>2
  <2>13. ASSUME NEW i \in 1..N PROVE q[i] \in Settled' /\ visited'[q[i]] = CostUpTo(q)[i]
    BY <1>13, <1>14, <2>2, <2>4, <2>8
  <2>14. ASSUME NEW i \in 2..(N + 1) PROVE Chosen(q[i - 1], q[i])'
    <3>1. CASE i = N + 1
      <4>1. i - 1 = N /\ N \in 1..N
        BY <2>1, <3>1
      <4>2. q[i - 1] = cur.node /\ q[i] = n
        BY <2>1, <2>2, <3>1, <4>1
      <4> QED BY <1>18, <4>2
    <3>2. CASE i # N + 1
      <4>1. i \in 2..N /\ i \in 1..N /\ i - 1 \in 1..N
        BY <2>1, <3>2
      <4>2. q[i] = p[i] /\ q[i - 1] = p[i - 1] /\ p[i] # n /\ p[i] \in DOMAIN visited /\ p[i - 1] \in Settled
        BY <1>4, <1>8, <2>2, <2>8, <4>1
      <4>3. Chosen(p[i - 1], p[i])
        BY <2>5, <4>1
      <4> QED BY <1>16, <4>2, <4>3
    <3> QED BY <3>1, <3>2
  <2>15. IsPath(new.path, Source, new.node)'
    BY <1>9, <2>6, <2>11 DEF IsPath
  <2>16. new.cost = CostOf(new.path)
    BY <1>9, <2>4, <2>6
  <2>17. \A i \in 1..Len(new.path) : new.path[i] \in DOMAIN visited' /\ visited'[new.path[i]] <= new.cost
    BY <1>9, <2>6, <2>10, <2>12
  <2>18. \A i \in 1..(Len(new.path) - 1) :
           new.path[i] \in Settled' /\ visited'[new.path[i]] = CostUpTo(new.path)[i]
    BY <2>6, <2>10, <2>13
  <2>19. \A i \in 2..Len(new.path) : Chosen(new.path[i - 1], new.path[i])'
    BY <2>6, <2>10, <2>14
  <2> QED BY <2>15, <2>16, <2>17, <2>18, <2>19 DEF EntryInv, IsPath
<1>23. SearchTypes'
  <2>1. visited' \in [DOMAIN visited' -> Nat]
    BY <1>4, <1>5
  <2>2. Source \in DOMAIN visited /\ visited[Source] = 0 /\ DOMAIN visited \subseteq Known
    BY <1>0 DEF SearchTypes
  <2>3. Source # n
    BY <1>5, <1>7, <2>2
  <2>4. \A e \in pq' : e = Entry(e.cost, e.node, e.path) /\ e.cost \in Nat
    BY <1>0, <1>5, <1>9 DEF SearchTypes
  <2> QED BY <1>0, <1>1, <1>3, <1>10, <2>1, <2>2, <2>3, <2>4 DEF SearchTypes
<1>24. Reached'
  <2> SUFFICES ASSUME NEW m \in Settled, NEW x \in adj[m], Relaxed(m, x)'
               PROVE  x \in DOMAIN visited' /\ visited'[x] <= visited[m] + Cost[x]
    BY <1>13, <1>14 DEF Reached
  <2>1. CASE x # n
    <3>1. x \in DOMAIN visited /\ visited[x] <= visited[m] + Cost[x]
      BY <1>0, <1>15, <2>1 DEF Reached
    <3> QED BY <1>10, <2>1, <3>1
  <2>2. CASE x = n
    <3>1. CASE m = cur.node
      BY <1>2, <1>5, <1>10, <2>2, <3>1
    <3>2. CASE m # cur.node
      <4>1. c < visited[m] + Cost[n]
        BY <1>17, <2>2, <3>2
      <4> QED BY <1>3, <1>4, <1>5, <1>10, <2>2, <4>1
    <3> QED BY <3>1, <3>2
  <2> QED BY <2>1, <2>2
<1>25. Ordered'
  <2> SUFFICES ASSUME NEW m \in Settled, NEW f \in pq'
               PROVE  visited[m] < f.cost \/ (visited[m] = f.cost /\ m < f.node)
    BY <1>13, <1>14 DEF Ordered
  <2>1. CASE f \in pq
    BY <1>0, <2>1 DEF Ordered
  <2>2. CASE f = new
    BY <1>6, <1>9, <2>2
  <2> QED BY <1>9, <2>1, <2>2
<1>26. Single'
  <2>1. ASSUME NEW f \in pq PROVE ~(f.node = n /\ f.cost = c)
    <3>1. Len(f.path) \in 1..Len(f.path) /\ f.path[Len(f.path)] = f.node
      BY <1>0 DEF EntryInv, IsPath
    <3>2. f.node \in DOMAIN visited /\ visited[f.node] <= f.cost
      BY <1>0, <3>1 DEF EntryInv
    <3> QED BY <1>4, <1>5, <1>7, <3>2
  <2> QED BY <1>0, <1>9, <2>1 DEF Single
<1>27. CurrentInv'
  <2>1. cur'.cost = visited'[cur'.node] /\ cur'.node \in Settled' /\ left' \subseteq adj'[cur'.node]
    BY <1>2, <1>13, <1>14
  <2>2. \A m \in Settled' : visited'[m] < cur'.cost \/ (visited'[m] = cur'.cost /\ m <= cur'.node)
    BY <1>2, <1>13, <1>14
  <2> QED BY <1>2, <1>21, <2>1, <2>2 DEF CurrentInv
<1>28. Jewel' \notin Settled'
  BY <1>0, <1>1, <1>13
<1>29. \A f \in pq' : EntryInv(f)'
  <2> SUFFICES ASSUME NEW f \in pq' PROVE EntryInv(f)'
    OBVIOUS
  <2>1. CASE f \in pq
    BY <1>20, <2>1
  <2>2. CASE f = new
    BY <1>22, <2>2
  <2> QED BY <1>9, <2>1, <2>2
<1> QED BY <1>23, <1>24, <1>25, <1>26, <1>27, <1>28, <1>29 DEF SearchInv

LEMMA InsertType ==
  ASSUME NEW s \in Seq(Nodes), NEW n \in Nodes
  PROVE  Insert(s, n) \in Seq(Nodes) /\ ToSet(Insert(s, n)) = ToSet(s) \cup {n}
<1>1. CASE Contains(s, n)
  <2>1. n \in ToSet(s)
    BY <1>1 DEF Contains, ToSet
  <2> QED BY <1>1, <2>1 DEF Insert
<1>2. CASE ~Contains(s, n)
  <2>1. Insert(s, n) = Append(s, n)
    BY <1>2 DEF Insert
  <2>2. Append(s, n) \in Seq(Nodes) /\ Len(Append(s, n)) = Len(s) + 1 /\ Len(s) \in Nat
    OBVIOUS
  <2>3. ToSet(Append(s, n)) = ToSet(s) \cup {n}
    <3> DEFINE t == Append(s, n)
    <3>1. DOMAIN t = 1..(Len(s) + 1) /\ DOMAIN s = 1..Len(s) /\ t[Len(s) + 1] = n /\ \A i \in 1..Len(s) : t[i] = s[i]
      OBVIOUS
    <3>2. Len(s) + 1 \in 1..(Len(s) + 1) /\ \A i \in 1..(Len(s) + 1) : i \in 1..Len(s) \/ i = Len(s) + 1
      BY <2>2
    <3>3. \A i \in 1..Len(s) : i \in 1..(Len(s) + 1)
      BY <2>2
    <3> HIDE DEF t
    <3>4. ToSet(t) = ToSet(s) \cup {n}
      BY <3>1, <3>2, <3>3 DEF ToSet
    <3> QED BY <3>4 DEF t
  <2> QED BY <2>1, <2>2, <2>3
<1> QED BY <1>1, <1>2

LEMMA RouteStarts == GraphInit => RouteInv
<1> SUFFICES ASSUME GraphInit PROVE RouteInv
  OBVIOUS
<1>1. nodes = <<>> /\ adj = [n \in Nodes |-> {}] /\ search = "none" /\ route.path = <<>>
  BY DEF GraphInit, Entry
<1>2. nodes \in Seq(Nodes)
  BY <1>1
<1>3. GraphInv
  BY <1>1, <1>2 DEF GraphInv
<1> QED BY <1>1, <1>3 DEF RouteInv, SearchInv, RouteIsLeast

LEMMA GraphGrows == ASSUME GraphInv, NEW a \in Nodes, NEW b \in Nodes, AddEdge(a, b) PROVE GraphInv'
<1>1. /\ nodes \in Seq(Nodes) /\ adj \in [Nodes -> SUBSET Nodes] /\ \A n \in Nodes : adj[n] \subseteq Known
      /\ nodes' = Insert(Insert(nodes, a), b)
      /\ adj' = [n \in Nodes |-> adj[n] \cup {x \in {a, b} : {n, x} = {a, b}}]
  BY DEF GraphInv, AddEdge
<1>2. Insert(nodes, a) \in Seq(Nodes) /\ ToSet(Insert(nodes, a)) = Known \cup {a}
  BY <1>1, InsertType DEF Known
<1>3. nodes' \in Seq(Nodes) /\ Known' = Known \cup {a, b}
  <2>1. nodes' \in Seq(Nodes) /\ ToSet(nodes') = Known \cup {a} \cup {b}
    BY <1>1, <1>2, InsertType
  <2> QED BY <2>1 DEF Known
<1>4. adj' \in [Nodes -> SUBSET Nodes] /\ \A n \in Nodes : adj'[n] \subseteq adj[n] \cup {a, b}
  BY <1>1
<1> QED BY <1>1, <1>3, <1>4 DEF GraphInv

\* The paths, their costs and the nodes ahead are the graph's alone.
LEMMA GraphAlone ==
  ASSUME UNCHANGED <<nodes, adj>>, NEW s, NEW t
  PROVE  PathsOf(s, t)' = PathsOf(s, t) /\ LeastCost(s, t)' = LeastCost(s, t) /\ Ahead(s, t)' = Ahead(s, t)
<1>1. PathsOf(s, t)' = PathsOf(s, t)
  BY DEF PathsOf, From, Paths, Known
<1>2. LeastCost(s, t)' = LeastCost(s, t)
  BY <1>1 DEF LeastCost
<1>3. Ahead(s, t)' = Ahead(s, t)
  BY DEF Ahead, LeastCost, PathsOf, From, Paths, Known
<1> QED BY <1>1, <1>2, <1>3

\* Every step of the graph and of the search keeps what holds of them.
LEMMA RouteStep == RouteInv /\ [GraphNext]_graphVars => RouteInv'
<1> SUFFICES ASSUME RouteInv, [GraphNext]_graphVars PROVE RouteInv'
  OBVIOUS
<1>0. /\ GraphInv /\ SearchInv /\ RouteIsLeast
      /\ search \in {"none", "pop", "relax", "over"} /\ (search # "over" => route.path = <<>>)
  BY DEF RouteInv
<1>1. ASSUME NEW a \in Nodes, NEW b \in Nodes, Ingest(a, b) PROVE RouteInv'
  <2>1. search' = "none" /\ UNCHANGED route /\ AddEdge(a, b) /\ search = "none"
    BY <1>1 DEF Ingest, finding
  <2>2. GraphInv'
    BY <1>0, <2>1, GraphGrows
  <2> QED BY <1>0, <2>1, <2>2 DEF RouteInv, SearchInv, RouteIsLeast
<1>2. ASSUME NEW n \in Nodes, IngestAlone(n) PROVE RouteInv'
  <2>1. search' = "none" /\ UNCHANGED <<route, adj>> /\ nodes' = Insert(nodes, n) /\ search = "none"
    BY <1>2 DEF IngestAlone, AddNode, finding
  <2>2. GraphInv'
    <3>1. nodes' \in Seq(Nodes) /\ ToSet(nodes') = ToSet(nodes) \cup {n}
      BY <1>0, <2>1, InsertType DEF GraphInv
    <3> QED BY <1>0, <2>1, <3>1 DEF GraphInv, Known
  <2> QED BY <1>0, <2>1, <2>2 DEF RouteInv, SearchInv, RouteIsLeast
<1>3. ASSUME NEW n \in Nodes, Relax(n) PROVE RouteInv'
  <2> DEFINE c == cur.cost + Cost[n]
  <2>1. /\ search = "relax" /\ n \in left /\ left' = left \ {n} /\ UNCHANGED <<nodes, adj, search, query, cur, route>>
        /\ IF n \in DOMAIN visited /\ c >= visited[n] THEN UNCHANGED <<pq, visited>>
           ELSE /\ visited' = [x \in DOMAIN visited \cup {n} |-> IF x = n THEN c ELSE visited[x]]
                /\ pq' = pq \cup {Entry(c, n, Append(cur.path, n))}
    BY <1>3 DEF Relax, graph
  <2>2. SearchInv'
    <3>1. CASE n \in DOMAIN visited /\ c >= visited[n]
      BY <1>0, <2>1, <3>1, NothingGained
    <3>2. CASE ~(n \in DOMAIN visited /\ c >= visited[n])
      BY <1>0, <2>1, <3>2, WayFound
    <3> QED BY <3>1, <3>2
  <2>3. GraphInv'
    BY <1>0, <2>1 DEF GraphInv, Known
  <2> QED BY <1>0, <2>1, <2>2, <2>3 DEF RouteInv, RouteIsLeast
<1>4. ASSUME NEW q \in Queries, FindAttackPath(q) PROVE RouteInv'
  <2>1. search = "none" /\ search' = "pop" /\ UNCHANGED <<nodes, adj, route>>
    BY <1>4 DEF FindAttackPath, graph
  <2>2. SearchInv'
    BY <1>0, <1>4, SearchStarts
  <2>3. GraphInv'
    BY <1>0, <2>1 DEF GraphInv, Known
  <2> QED BY <1>0, <2>1, <2>2, <2>3 DEF RouteInv, RouteIsLeast
<1>5. ASSUME PopEntry PROVE RouteInv'
  <2>1. PICK e \in pq :
          /\ Least(e) /\ pq' = pq \ {e} /\ search = "pop" /\ UNCHANGED <<nodes, adj, query, visited>>
          /\ IF Arrived(e) THEN Answer(e)
             ELSE /\ IF e.cost > visited[e.node] THEN UNCHANGED <<search, cur, left>>
                     ELSE cur' = e /\ left' = adj[e.node] /\ search' = "relax"
                  /\ UNCHANGED route
    BY <1>5 DEF PopEntry, graph
  <2>2. GraphInv'
    BY <1>0, <2>1 DEF GraphInv, Known
  <2>3. CASE Arrived(e)
    <3>1. route' = e /\ search' = "over"
      BY <2>1, <2>3 DEF Answer
    <3>2. /\ IsPath(e.path, Source, Jewel) /\ e.cost = CostOf(e.path) /\ e.cost = LeastCost(Source, Jewel)
          /\ \A i \in 2..Len(e.path) : e.path[i - 1] = Ahead(Source, e.path[i])
      BY <1>0, <2>1, <2>3, AnswerIsLeast
    <3>3. e.path \in PathsOf(Source, Jewel)
      BY <3>2, PathIs
    <3>4. \A s, t : PathsOf(s, t)' = PathsOf(s, t) /\ LeastCost(s, t)' = LeastCost(s, t) /\ Ahead(s, t)' = Ahead(s, t)
      BY <2>1, GraphAlone
    <3>5. RouteIsLeast'
      BY <2>1, <3>1, <3>2, <3>3, <3>4 DEF RouteIsLeast, Source, Jewel
    <3> QED BY <2>2, <3>1, <3>5 DEF RouteInv, SearchInv
  <2>4. CASE ~Arrived(e) /\ e.cost > visited[e.node]
    <3>1. SearchInv'
      BY <1>0, <2>1, <2>4, StalePop
    <3> QED BY <1>0, <2>1, <2>2, <2>4, <3>1 DEF RouteInv, RouteIsLeast
  <2>5. CASE ~Arrived(e) /\ ~(e.cost > visited[e.node])
    <3>1. SearchInv'
      BY <1>0, <2>1, <2>5, FreshPop
    <3> QED BY <1>0, <2>1, <2>2, <2>5, <3>1 DEF RouteInv, RouteIsLeast
  <2> QED BY <2>3, <2>4, <2>5
<1>6. ASSUME NoPath PROVE RouteInv'
  <2>1. search = "pop" /\ pq = {} /\ search' = "over" /\ UNCHANGED <<nodes, adj, query, route>>
    BY <1>6 DEF NoPath, graph, finding
  <2>2. PathsOf(Source, Jewel) = {}
    <3>1. SUFFICES ASSUME NEW p \in PathsOf(Source, Jewel) PROVE FALSE
      OBVIOUS
    <3>2. IsPath(p, Source, Jewel)
      BY PathIs
    <3>3. Jewel \in Settled
      BY <1>0, <2>1, <3>2, Frontier
    <3> QED BY <1>0, <2>1, <3>3 DEF SearchInv
  <2>3. \A s, t : PathsOf(s, t)' = PathsOf(s, t)
    BY <2>1, GraphAlone
  <2>4. RouteIsLeast'
    BY <1>0, <2>1, <2>2, <2>3 DEF RouteIsLeast, Source, Jewel
  <2>5. GraphInv'
    BY <1>0, <2>1 DEF GraphInv, Known
  <2> QED BY <2>1, <2>4, <2>5 DEF RouteInv, SearchInv
<1>7. ASSUME EndRelax PROVE RouteInv'
  <2>1. search' = "pop" /\ search = "relax" /\ UNCHANGED <<nodes, adj, route>>
    BY <1>7 DEF EndRelax, graph, finding
  <2>2. SearchInv'
    BY <1>0, <1>7, SearchTurns
  <2>3. GraphInv'
    BY <1>0, <2>1 DEF GraphInv, Known
  <2> QED BY <1>0, <2>1, <2>2, <2>3 DEF RouteInv, RouteIsLeast
<1>8. ASSUME UNCHANGED graphVars PROVE RouteInv'
  <2>1. UNCHANGED <<nodes, adj, search, query, pq, visited, cur, left, route>>
    BY <1>8 DEF graphVars, graph, finding
  <2>2. GraphInv'
    BY <1>0, <2>1 DEF GraphInv, Known
  <2>3. Settled' = Settled /\ Source' = Source /\ Jewel' = Jewel /\ Known' = Known
    BY <2>1 DEF Settled, Pending, Source, Jewel, Known
  <2>4. \A m, n : Relaxed(m, n)' = Relaxed(m, n)
    BY <2>1 DEF Relaxed
  <2>5. \A p, n : Chosen(p, n)' = Chosen(p, n)
    BY <2>1, <2>3, <2>4 DEF Chosen
  <2>6. \A e : EntryInv(e) => EntryInv(e)'
    BY <2>1, <2>3, <2>5 DEF EntryInv, IsPath
  <2>7. SearchInv'
    BY <1>0, <2>1, <2>3, <2>4, <2>6 DEF SearchInv, SearchTypes, Reached, Ordered, CurrentInv, Single
  <2>8. \A s, t : PathsOf(s, t)' = PathsOf(s, t) /\ LeastCost(s, t)' = LeastCost(s, t) /\ Ahead(s, t)' = Ahead(s, t)
    BY <2>1, GraphAlone
  <2>9. RouteIsLeast'
    BY <1>0, <2>1, <2>8 DEF RouteIsLeast
  <2> QED BY <1>0, <2>1, <2>2, <2>7, <2>9 DEF RouteInv
<1> QED BY <1>1, <1>2, <1>3, <1>4, <1>5, <1>6, <1>7, <1>8 DEF GraphNext

\* For every graph, every cost of entering a node and every query: the route found
\* is the cheapest one, and of several the one that the order of names decides,
\* whatever the order in which a set gives the neighbours (find_attack_path).
THEOREM RouteIsCheapest == GraphSpec => []RouteIsLeast
<1>1. RouteInv => RouteIsLeast
  BY DEF RouteInv
<1> QED BY <1>1, RouteStarts, RouteStep, PTL DEF GraphSpec

-----------------------------------------------------------------------------
(***************************************************************************)
(* Degrees, components and paths (module AssetGraph)                       *)
(***************************************************************************)
\* What is kept of the part of a sequence gone through so far
Keeps(A, s, S, f) ==
  /\ f \in [0..Len(s) -> Seq(A)] /\ f[0] = <<>>
  /\ \A k \in 1..Len(s) : f[k] = IF s[k] \in S THEN Append(f[k - 1], s[k]) ELSE f[k - 1]
  /\ Kept(s, S) = f[Len(s)]

\* Kept goes through a sequence that way.
LEMMA KeptSteps ==
  ASSUME NEW A, NEW s \in Seq(A), NEW S
  PROVE  Kept(s, S) \in Seq(A) /\ \E f : Keeps(A, s, S, f)
<1> DEFINE n == Len(s)
           States == Seq(A)
           s0 == <<>>
           Step(k, x) == IF s[k] \in S THEN Append(x, s[k]) ELSE x
           F == [p \in (1..n) \X States |-> Step(p[1], p[2])]
           Body(f) == [k \in 0..n |-> IF k = 0 THEN s0 ELSE Step(k, f[k - 1])]
<1>1. n \in Nat /\ s0 \in States /\ \A k \in 1..n, x \in States : Step(k, x) \in States
  OBVIOUS
<1> HIDE DEF n, s0, States, Step
<1>2. F \in [(1..n) \X States -> States] /\ \A k \in 1..n, x \in States : F[<<k, x>>] = Step(k, x)
  <2>1. \A p \in (1..n) \X States : Step(p[1], p[2]) \in States
    BY <1>1
  <2> QED BY <2>1
<1> HIDE DEF F
<1>3. PICK g : Run(States, n, s0, F, g)
  BY <1>1, <1>2, LoopRuns
<1>4. \A k \in 1..n : k - 1 \in 0..n /\ k \in 0..n
  BY <1>1
<1>5. g = Body(g)
  <2>1. g \in [0..n -> States] /\ g[0] = s0 /\ \A k \in 1..n : g[k] = Step(k, g[k - 1])
    BY <1>2, <1>3, <1>4 DEF Run
  <2>2. g = [k \in 0..n |-> g[k]]
    BY <2>1
  <2>3. \A k \in 0..n : k = 0 \/ k \in 1..n
    BY <1>1
  <2>4. \A k \in 0..n : g[k] = Body(g)[k]
    BY <2>1, <2>3
  <2> QED BY <2>2, <2>4
<1> DEFINE f == CHOOSE h : h = Body(h)
<1>6. f = Body(f)
  BY <1>5
<1>7. Kept(s, S) = f[n]
  BY DEF Kept, n, s0, Step
<1> HIDE DEF f
<1>8. f = [k \in 0..n |-> f[k]] /\ f[0] = s0 /\ \A k \in 1..n : f[k] = Step(k, f[k - 1])
  <2>1. \A k \in 0..n : f[k] = Body(f)[k]
    BY <1>6
  <2>2. 0 \in 0..n /\ \A k \in 1..n : k \in 0..n /\ k # 0
    BY <1>1
  <2> QED BY <1>6, <2>1, <2>2
<1>9. Run(States, n, s0, F, f)
  BY <1>1, <1>2, <1>8, RunOf
<1>10. f \in [0..n -> States] /\ f[n] \in States
  BY <1>1, <1>9 DEF Run
<1>11. Keeps(A, s, S, f)
  BY <1>7, <1>8, <1>10 DEF Keeps, n, s0, States, Step
<1> QED BY <1>7, <1>10, <1>11 DEF States

\* The states of a breadth-first search among A
SearchStates(A) == [queue : Seq(A), seen : SUBSET A, prev : [A -> A]]

\* Meeting a node leads to such a state,
LEMMA DiscoverType ==
  ASSUME NEW A, NEW st \in SearchStates(A), NEW v \in A, NEW w \in A
  PROVE  Discover(st, v, w) \in SearchStates(A)
  BY DEF Discover, SearchStates

\* The state after each neighbour of v
LooksAround(A, st, v, near, f) ==
  /\ f \in [0..Len(near) -> SearchStates(A)] /\ f[0] = st
  /\ \A k \in 1..Len(near) : f[k] = Discover(f[k - 1], v, near[k])
  /\ LookAround(st, v, near) = f[Len(near)]

\* and so does looking around, neighbour by neighbour;
LEMMA LookAroundSteps ==
  ASSUME NEW A, NEW st \in SearchStates(A), NEW v \in A, NEW near \in Seq(A)
  PROVE  LookAround(st, v, near) \in SearchStates(A) /\ \E f : LooksAround(A, st, v, near, f)
<1> DEFINE n == Len(near)
           States == SearchStates(A)
           s0 == st
           Step(k, x) == Discover(x, v, near[k])
           F == [p \in (1..n) \X States |-> Step(p[1], p[2])]
           Body(f) == [k \in 0..n |-> IF k = 0 THEN s0 ELSE Step(k, f[k - 1])]
<1>1. n \in Nat /\ s0 \in States /\ \A k \in 1..n, x \in States : Step(k, x) \in States
  BY DiscoverType
<1> HIDE DEF n, s0, States, Step
<1>2. F \in [(1..n) \X States -> States] /\ \A k \in 1..n, x \in States : F[<<k, x>>] = Step(k, x)
  <2>1. \A p \in (1..n) \X States : Step(p[1], p[2]) \in States
    BY <1>1
  <2> QED BY <2>1
<1> HIDE DEF F
<1>3. PICK g : Run(States, n, s0, F, g)
  BY <1>1, <1>2, LoopRuns
<1>4. \A k \in 1..n : k - 1 \in 0..n /\ k \in 0..n
  BY <1>1
<1>5. g = Body(g)
  <2>1. g \in [0..n -> States] /\ g[0] = s0 /\ \A k \in 1..n : g[k] = Step(k, g[k - 1])
    BY <1>2, <1>3, <1>4 DEF Run
  <2>2. g = [k \in 0..n |-> g[k]]
    BY <2>1
  <2>3. \A k \in 0..n : k = 0 \/ k \in 1..n
    BY <1>1
  <2>4. \A k \in 0..n : g[k] = Body(g)[k]
    BY <2>1, <2>3
  <2> QED BY <2>2, <2>4
<1> DEFINE f == CHOOSE h : h = Body(h)
<1>6. f = Body(f)
  BY <1>5
<1>7. LookAround(st, v, near) = f[n]
  BY DEF LookAround, n, s0, Step
<1> HIDE DEF f
<1>8. f = [k \in 0..n |-> f[k]] /\ f[0] = s0 /\ \A k \in 1..n : f[k] = Step(k, f[k - 1])
  <2>1. \A k \in 0..n : f[k] = Body(f)[k]
    BY <1>6
  <2>2. 0 \in 0..n /\ \A k \in 1..n : k \in 0..n /\ k # 0
    BY <1>1
  <2> QED BY <1>6, <2>1, <2>2
<1>9. Run(States, n, s0, F, f)
  BY <1>1, <1>2, <1>8, RunOf
<1>10. f \in [0..n -> States] /\ f[n] \in States
  BY <1>1, <1>9 DEF Run
<1>11. LooksAround(A, st, v, near, f)
  BY <1>7, <1>8, <1>10 DEF LooksAround, n, s0, States, Step
<1> QED BY <1>7, <1>10, <1>11 DEF States

\* The state after each node of a frontier
GoesThrough(A, st, lists, f) ==
  /\ f \in [0..Len(st.queue) -> SearchStates(A)] /\ f[0] = [st EXCEPT !.queue = <<>>]
  /\ \A k \in 1..Len(st.queue) : f[k] = LookAround(f[k - 1], st.queue[k], lists[st.queue[k]])
  /\ NextFrontier(st, lists) = f[Len(st.queue)]

\* a frontier is gone through node by node;
LEMMA NextFrontierSteps ==
  ASSUME NEW A, NEW st \in SearchStates(A), NEW lists \in [A -> Seq(A)]
  PROVE  NextFrontier(st, lists) \in SearchStates(A) /\ \E f : GoesThrough(A, st, lists, f)
<1> DEFINE n == Len(st.queue)
           States == SearchStates(A)
           s0 == [st EXCEPT !.queue = <<>>]
           Step(k, x) == LookAround(x, st.queue[k], lists[st.queue[k]])
           F == [p \in (1..n) \X States |-> Step(p[1], p[2])]
           Body(f) == [k \in 0..n |-> IF k = 0 THEN s0 ELSE Step(k, f[k - 1])]
<1>1. n \in Nat /\ s0 \in States /\ \A k \in 1..n, x \in States : Step(k, x) \in States
  <2>1. st.queue \in Seq(A) /\ [st EXCEPT !.queue = <<>>] \in SearchStates(A)
    <3>1. <<>> \in Seq(A)
      OBVIOUS
    <3> QED BY <3>1 DEF SearchStates
  <2>2. \A k \in 1..Len(st.queue) : st.queue[k] \in A /\ lists[st.queue[k]] \in Seq(A)
    BY <2>1
  <2> QED BY <2>1, <2>2, LookAroundSteps
<1> HIDE DEF n, s0, States, Step
<1>2. F \in [(1..n) \X States -> States] /\ \A k \in 1..n, x \in States : F[<<k, x>>] = Step(k, x)
  <2>1. \A p \in (1..n) \X States : Step(p[1], p[2]) \in States
    BY <1>1
  <2> QED BY <2>1
<1> HIDE DEF F
<1>3. PICK g : Run(States, n, s0, F, g)
  BY <1>1, <1>2, LoopRuns
<1>4. \A k \in 1..n : k - 1 \in 0..n /\ k \in 0..n
  BY <1>1
<1>5. g = Body(g)
  <2>1. g \in [0..n -> States] /\ g[0] = s0 /\ \A k \in 1..n : g[k] = Step(k, g[k - 1])
    BY <1>2, <1>3, <1>4 DEF Run
  <2>2. g = [k \in 0..n |-> g[k]]
    BY <2>1
  <2>3. \A k \in 0..n : k = 0 \/ k \in 1..n
    BY <1>1
  <2>4. \A k \in 0..n : g[k] = Body(g)[k]
    BY <2>1, <2>3
  <2> QED BY <2>2, <2>4
<1> DEFINE f == CHOOSE h : h = Body(h)
<1>6. f = Body(f)
  BY <1>5
<1>7. NextFrontier(st, lists) = f[n]
  BY DEF NextFrontier, n, s0, Step
<1> HIDE DEF f
<1>8. f = [k \in 0..n |-> f[k]] /\ f[0] = s0 /\ \A k \in 1..n : f[k] = Step(k, f[k - 1])
  <2>1. \A k \in 0..n : f[k] = Body(f)[k]
    BY <1>6
  <2>2. 0 \in 0..n /\ \A k \in 1..n : k \in 0..n /\ k # 0
    BY <1>1
  <2> QED BY <1>6, <2>1, <2>2
<1>9. Run(States, n, s0, F, f)
  BY <1>1, <1>2, <1>8, RunOf
<1>10. f \in [0..n -> States] /\ f[n] \in States
  BY <1>1, <1>9 DEF Run
<1>11. GoesThrough(A, st, lists, f)
  BY <1>7, <1>8, <1>10 DEF GoesThrough, n, s0, States, Step
<1> QED BY <1>7, <1>10, <1>11 DEF States

\* The path after each step back
GoesBackTo(A, prev, source, goal, f) ==
  /\ f \in [0..Len(nodes) -> {p \in Seq(A) : p # <<>>}] /\ f[0] = <<goal>>
  /\ \A k \in 1..Len(nodes) : f[k] = GoBack(f[k - 1], prev, source)
  /\ Trace(prev, source, goal) = Reverse(f[Len(nodes)])

\* the way back is traced that way;
LEMMA GoBackSteps ==
  ASSUME nodes \in Seq(Nodes), NEW A, NEW prev \in [A -> A], NEW source, NEW goal \in A
  PROVE  \E f : GoesBackTo(A, prev, source, goal, f)
<1> DEFINE n == Len(nodes)
           States == {p \in Seq(A) : p # <<>>}
           s0 == <<goal>>
           Step(k, x) == GoBack(x, prev, source)
           F == [p \in (1..n) \X States |-> Step(p[1], p[2])]
           Body(f) == [k \in 0..n |-> IF k = 0 THEN s0 ELSE Step(k, f[k - 1])]
<1>1. n \in Nat /\ s0 \in States /\ \A k \in 1..n, x \in States : Step(k, x) \in States
  <2>1. \A x \in States : Step(1, x) \in States
    <3> SUFFICES ASSUME NEW x \in Seq(A), x # <<>> PROVE GoBack(x, prev, source) \in Seq(A) /\ GoBack(x, prev, source) # <<>>
      OBVIOUS
    <3>1. Last(x) \in A
      BY DEF Last
    <3> QED BY <3>1 DEF GoBack
  <2> QED BY <2>1
<1> HIDE DEF n, s0, States, Step
<1>2. F \in [(1..n) \X States -> States] /\ \A k \in 1..n, x \in States : F[<<k, x>>] = Step(k, x)
  <2>1. \A p \in (1..n) \X States : Step(p[1], p[2]) \in States
    BY <1>1
  <2> QED BY <2>1
<1> HIDE DEF F
<1>3. PICK g : Run(States, n, s0, F, g)
  BY <1>1, <1>2, LoopRuns
<1>4. \A k \in 1..n : k - 1 \in 0..n /\ k \in 0..n
  BY <1>1
<1>5. g = Body(g)
  <2>1. g \in [0..n -> States] /\ g[0] = s0 /\ \A k \in 1..n : g[k] = Step(k, g[k - 1])
    BY <1>2, <1>3, <1>4 DEF Run
  <2>2. g = [k \in 0..n |-> g[k]]
    BY <2>1
  <2>3. \A k \in 0..n : k = 0 \/ k \in 1..n
    BY <1>1
  <2>4. \A k \in 0..n : g[k] = Body(g)[k]
    BY <2>1, <2>3
  <2> QED BY <2>2, <2>4
<1> DEFINE f == CHOOSE h : h = Body(h)
<1>6. f = Body(f)
  BY <1>5
<1>7. Trace(prev, source, goal) = Reverse(f[n])
  BY DEF Trace, n, s0, Step
<1> HIDE DEF f
<1>8. f = [k \in 0..n |-> f[k]] /\ f[0] = s0 /\ \A k \in 1..n : f[k] = Step(k, f[k - 1])
  <2>1. \A k \in 0..n : f[k] = Body(f)[k]
    BY <1>6
  <2>2. 0 \in 0..n /\ \A k \in 1..n : k \in 0..n /\ k # 0
    BY <1>1
  <2> QED BY <1>6, <2>1, <2>2
<1>9. Run(States, n, s0, F, f)
  BY <1>1, <1>2, <1>8, RunOf
<1>10. f \in [0..n -> States] /\ f[n] \in States
  BY <1>1, <1>9 DEF Run
<1>11. GoesBackTo(A, prev, source, goal, f)
  BY <1>7, <1>8, <1>10 DEF GoesBackTo, n, s0, States, Step
<1> QED BY <1>7, <1>10, <1>11 DEF States

\* The state after each frontier
GoesOut(source, lists, hops, f) ==
  /\ f \in [0..hops -> SearchStates(DOMAIN nodes)] /\ f[0] = Begin(source, DOMAIN nodes)
  /\ \A k \in 1..hops : f[k] = NextFrontier(f[k - 1], lists)
  /\ Frontiers(source, lists, hops) = f[hops]

\* the Rust core goes from frontier to frontier that way.
LEMMA FrontiersSteps ==
  ASSUME NEW source \in DOMAIN nodes, NEW lists \in [DOMAIN nodes -> Seq(DOMAIN nodes)], NEW hops \in Nat
  PROVE  Frontiers(source, lists, hops) \in SearchStates(DOMAIN nodes) /\ \E f : GoesOut(source, lists, hops, f)
<1> DEFINE n == hops
           States == SearchStates(DOMAIN nodes)
           s0 == Begin(source, DOMAIN nodes)
           Step(k, x) == NextFrontier(x, lists)
           F == [p \in (1..n) \X States |-> Step(p[1], p[2])]
           Body(f) == [k \in 0..n |-> IF k = 0 THEN s0 ELSE Step(k, f[k - 1])]
<1>1. n \in Nat /\ s0 \in States /\ \A k \in 1..n, x \in States : Step(k, x) \in States
  <2>1. Begin(source, DOMAIN nodes) \in SearchStates(DOMAIN nodes)
    <3>1. <<source>> \in Seq(DOMAIN nodes)
      OBVIOUS
    <3> QED BY <3>1 DEF Begin, SearchStates
  <2>2. \A x \in SearchStates(DOMAIN nodes) : NextFrontier(x, lists) \in SearchStates(DOMAIN nodes)
    BY NextFrontierSteps
  <2> QED BY <2>1, <2>2
<1> HIDE DEF n, s0, States, Step
<1>2. F \in [(1..n) \X States -> States] /\ \A k \in 1..n, x \in States : F[<<k, x>>] = Step(k, x)
  <2>1. \A p \in (1..n) \X States : Step(p[1], p[2]) \in States
    BY <1>1
  <2> QED BY <2>1
<1> HIDE DEF F
<1>3. PICK g : Run(States, n, s0, F, g)
  BY <1>1, <1>2, LoopRuns
<1>4. \A k \in 1..n : k - 1 \in 0..n /\ k \in 0..n
  BY <1>1
<1>5. g = Body(g)
  <2>1. g \in [0..n -> States] /\ g[0] = s0 /\ \A k \in 1..n : g[k] = Step(k, g[k - 1])
    BY <1>2, <1>3, <1>4 DEF Run
  <2>2. g = [k \in 0..n |-> g[k]]
    BY <2>1
  <2>3. \A k \in 0..n : k = 0 \/ k \in 1..n
    BY <1>1
  <2>4. \A k \in 0..n : g[k] = Body(g)[k]
    BY <2>1, <2>3
  <2> QED BY <2>2, <2>4
<1> DEFINE f == CHOOSE h : h = Body(h)
<1>6. f = Body(f)
  BY <1>5
<1>7. Frontiers(source, lists, hops) = f[n]
  BY DEF Frontiers, n, s0, Step
<1> HIDE DEF f
<1>8. f = [k \in 0..n |-> f[k]] /\ f[0] = s0 /\ \A k \in 1..n : f[k] = Step(k, f[k - 1])
  <2>1. \A k \in 0..n : f[k] = Body(f)[k]
    BY <1>6
  <2>2. 0 \in 0..n /\ \A k \in 1..n : k \in 0..n /\ k # 0
    BY <1>1
  <2> QED BY <1>6, <2>1, <2>2
<1>9. Run(States, n, s0, F, f)
  BY <1>1, <1>2, <1>8, RunOf
<1>10. f \in [0..n -> States] /\ f[n] \in States
  BY <1>1, <1>9 DEF Run
<1>11. GoesOut(source, lists, hops, f)
  BY <1>7, <1>8, <1>10 DEF GoesOut, n, s0, States, Step
<1> QED BY <1>7, <1>10, <1>11 DEF States

\* The known nodes are those in the sequence.
LEMMA KnownAre ==
  ASSUME nodes \in Seq(Nodes)
  PROVE  /\ nodes \in Seq(Known) /\ Known \subseteq Nodes /\ Len(nodes) \in Nat /\ DOMAIN nodes = 1..Len(nodes)
         /\ \A n : n \in Known <=> \E i \in 1..Len(nodes) : nodes[i] = n
<1>1. Len(nodes) \in Nat /\ DOMAIN nodes = 1..Len(nodes) /\ nodes \in [1..Len(nodes) -> Nodes]
  OBVIOUS
<1>2. \A n : n \in Known <=> \E i \in 1..Len(nodes) : nodes[i] = n
  BY <1>1 DEF Known, ToSet
<1>3. \A i \in 1..Len(nodes) : nodes[i] \in Known
  BY <1>2
<1>4. nodes \in Seq(Known)
  BY <1>1, <1>3
<1> QED BY <1>1, <1>2, <1>4

\* A turn of the loop over the queue leads to a state of the search,
LEMMA TurnType ==
  ASSUME nodes \in Seq(Nodes), NEW st \in SearchStates(Known), NEW k \in 1..Len(nodes)
  PROVE  Turn(st, k) \in SearchStates(Known)
<1>1. CASE k > Len(st.queue)
  BY <1>1 DEF Turn
<1>2. CASE ~(k > Len(st.queue))
  <2>1. st.queue \in Seq(Known) /\ k \in 1..Len(st.queue)
    BY <1>2, KnownAre DEF SearchStates
  <2>2. st.queue[k] \in Known /\ Neighbours(st.queue[k]) \in Seq(Known)
    BY <2>1, KnownAre, KeptSteps DEF Neighbours
  <2>3. LookAround(st, st.queue[k], Neighbours(st.queue[k])) \in SearchStates(Known)
    BY <2>2, LookAroundSteps
  <2> QED BY <1>2, <2>3 DEF Turn
<1> QED BY <1>1, <1>2

\* The state after each turn
Searches(source, f) ==
  /\ f \in [0..Len(nodes) -> SearchStates(Known)] /\ f[0] = Begin(source, Known)
  /\ \A k \in 1..Len(nodes) : f[k] = Turn(f[k - 1], k)
  /\ Search(source) = f[Len(nodes)]

\* and a search in Python is made of such turns.
LEMMA SearchSteps ==
  ASSUME nodes \in Seq(Nodes), NEW source \in Known
  PROVE  Search(source) \in SearchStates(Known) /\ \E f : Searches(source, f)
<1> DEFINE n == Len(nodes)
           States == SearchStates(Known)
           s0 == Begin(source, Known)
           Step(k, x) == Turn(x, k)
           F == [p \in (1..n) \X States |-> Step(p[1], p[2])]
           Body(f) == [k \in 0..n |-> IF k = 0 THEN s0 ELSE Step(k, f[k - 1])]
<1>1. n \in Nat /\ s0 \in States /\ \A k \in 1..n, x \in States : Step(k, x) \in States
  <2>1. Begin(source, Known) \in SearchStates(Known)
    <3>1. <<source>> \in Seq(Known)
      OBVIOUS
    <3> QED BY <3>1 DEF Begin, SearchStates
  <2>2. \A k \in 1..Len(nodes), x \in SearchStates(Known) : Turn(x, k) \in SearchStates(Known)
    BY TurnType
  <2> QED BY <2>1, <2>2, KnownAre
<1> HIDE DEF n, s0, States, Step
<1>2. F \in [(1..n) \X States -> States] /\ \A k \in 1..n, x \in States : F[<<k, x>>] = Step(k, x)
  <2>1. \A p \in (1..n) \X States : Step(p[1], p[2]) \in States
    BY <1>1
  <2> QED BY <2>1
<1> HIDE DEF F
<1>3. PICK g : Run(States, n, s0, F, g)
  BY <1>1, <1>2, LoopRuns
<1>4. \A k \in 1..n : k - 1 \in 0..n /\ k \in 0..n
  BY <1>1
<1>5. g = Body(g)
  <2>1. g \in [0..n -> States] /\ g[0] = s0 /\ \A k \in 1..n : g[k] = Step(k, g[k - 1])
    BY <1>2, <1>3, <1>4 DEF Run
  <2>2. g = [k \in 0..n |-> g[k]]
    BY <2>1
  <2>3. \A k \in 0..n : k = 0 \/ k \in 1..n
    BY <1>1
  <2>4. \A k \in 0..n : g[k] = Body(g)[k]
    BY <2>1, <2>3
  <2> QED BY <2>2, <2>4
<1> DEFINE f == CHOOSE h : h = Body(h)
<1>6. f = Body(f)
  BY <1>5
<1>7. Search(source) = f[n]
  BY DEF Search, n, s0, Step
<1> HIDE DEF f
<1>8. f = [k \in 0..n |-> f[k]] /\ f[0] = s0 /\ \A k \in 1..n : f[k] = Step(k, f[k - 1])
  <2>1. \A k \in 0..n : f[k] = Body(f)[k]
    BY <1>6
  <2>2. 0 \in 0..n /\ \A k \in 1..n : k \in 0..n /\ k # 0
    BY <1>1
  <2> QED BY <1>6, <2>1, <2>2
<1>9. Run(States, n, s0, F, f)
  BY <1>1, <1>2, <1>8, RunOf
<1>10. f \in [0..n -> States] /\ f[n] \in States
  BY <1>1, <1>9 DEF Run
<1>11. Searches(source, f)
  BY <1>7, <1>8, <1>10 DEF Searches, n, s0, States, Step
<1> QED BY <1>7, <1>10, <1>11 DEF States

\* The components after each node
Collects(f) ==
  /\ f \in [0..Len(nodes) -> SUBSET SUBSET Known] /\ f[0] = {}
  /\ \A k \in 1..Len(nodes) : f[k] = IF nodes[k] \in UNION f[k - 1] THEN f[k - 1] ELSE f[k - 1] \cup {Search(nodes[k]).seen}
  /\ Components = f[Len(nodes)]

\* The components are collected that way.
LEMMA ComponentSteps ==
  ASSUME nodes \in Seq(Nodes)
  PROVE  Components \in SUBSET SUBSET Known /\ \E f : Collects(f)
<1> DEFINE n == Len(nodes)
           States == SUBSET SUBSET Known
           s0 == {}
           Step(k, x) == IF nodes[k] \in UNION x THEN x ELSE x \cup {Search(nodes[k]).seen}
           F == [p \in (1..n) \X States |-> Step(p[1], p[2])]
           Body(f) == [k \in 0..n |-> IF k = 0 THEN s0 ELSE Step(k, f[k - 1])]
<1>1. n \in Nat /\ s0 \in States /\ \A k \in 1..n, x \in States : Step(k, x) \in States
  <2>1. \A k \in 1..Len(nodes) : Search(nodes[k]).seen \in SUBSET Known
    BY KnownAre, SearchSteps DEF SearchStates
  <2> QED BY <2>1, KnownAre
<1> HIDE DEF n, s0, States, Step
<1>2. F \in [(1..n) \X States -> States] /\ \A k \in 1..n, x \in States : F[<<k, x>>] = Step(k, x)
  <2>1. \A p \in (1..n) \X States : Step(p[1], p[2]) \in States
    BY <1>1
  <2> QED BY <2>1
<1> HIDE DEF F
<1>3. PICK g : Run(States, n, s0, F, g)
  BY <1>1, <1>2, LoopRuns
<1>4. \A k \in 1..n : k - 1 \in 0..n /\ k \in 0..n
  BY <1>1
<1>5. g = Body(g)
  <2>1. g \in [0..n -> States] /\ g[0] = s0 /\ \A k \in 1..n : g[k] = Step(k, g[k - 1])
    BY <1>2, <1>3, <1>4 DEF Run
  <2>2. g = [k \in 0..n |-> g[k]]
    BY <2>1
  <2>3. \A k \in 0..n : k = 0 \/ k \in 1..n
    BY <1>1
  <2>4. \A k \in 0..n : g[k] = Body(g)[k]
    BY <2>1, <2>3
  <2> QED BY <2>2, <2>4
<1> DEFINE f == CHOOSE h : h = Body(h)
<1>6. f = Body(f)
  BY <1>5
<1>7. Components = f[n]
  BY DEF Components, n, s0, Step
<1> HIDE DEF f
<1>8. f = [k \in 0..n |-> f[k]] /\ f[0] = s0 /\ \A k \in 1..n : f[k] = Step(k, f[k - 1])
  <2>1. \A k \in 0..n : f[k] = Body(f)[k]
    BY <1>6
  <2>2. 0 \in 0..n /\ \A k \in 1..n : k \in 0..n /\ k # 0
    BY <1>1
  <2> QED BY <1>6, <2>1, <2>2
<1>9. Run(States, n, s0, F, f)
  BY <1>1, <1>2, <1>8, RunOf
<1>10. f \in [0..n -> States] /\ f[n] \in States
  BY <1>1, <1>9 DEF Run
<1>11. Collects(f)
  BY <1>7, <1>8, <1>10 DEF Collects, n, s0, States, Step
<1> QED BY <1>7, <1>10, <1>11 DEF States

\* One more at the end of a sequence
LEMMA OneMore ==
  ASSUME NEW A, NEW s \in Seq(A), NEW x \in A
  PROVE  /\ Append(s, x) \in Seq(A) /\ Len(Append(s, x)) = Len(s) + 1 /\ Len(s) \in Nat
         /\ \A i \in 1..Len(s) : Append(s, x)[i] = s[i]
         /\ Append(s, x)[Len(s) + 1] = x
         /\ \A i \in 1..(Len(s) + 1) : i \in 1..Len(s) \/ i = Len(s) + 1
         /\ \A i \in 1..Len(s) : i \in 1..(Len(s) + 1)
         /\ Len(s) + 1 \in 1..(Len(s) + 1)
<1>1. Append(s, x) \in Seq(A) /\ Len(Append(s, x)) = Len(s) + 1 /\ Len(s) \in Nat
  OBVIOUS
<1>2. (\A i \in 1..Len(s) : Append(s, x)[i] = s[i]) /\ Append(s, x)[Len(s) + 1] = x
  OBVIOUS
<1>3. /\ \A i \in 1..(Len(s) + 1) : i \in 1..Len(s) \/ i = Len(s) + 1
      /\ \A i \in 1..Len(s) : i \in 1..(Len(s) + 1)
      /\ Len(s) + 1 \in 1..(Len(s) + 1)
  BY <1>1
<1> QED BY <1>1, <1>2, <1>3

\* What is kept is what is in S.
LEMMA KeptIs ==
  ASSUME NEW A, NEW s \in Seq(A), NEW S, NEW y
  PROVE  (\E i \in 1..Len(Kept(s, S)) : Kept(s, S)[i] = y) <=> y \in S /\ \E i \in 1..Len(s) : s[i] = y
<1>1. PICK f : Keeps(A, s, S, f)
  BY KeptSteps
<1>2. /\ f \in [0..Len(s) -> Seq(A)] /\ f[0] = <<>> /\ Kept(s, S) = f[Len(s)]
      /\ \A k \in 1..Len(s) : f[k] = IF s[k] \in S THEN Append(f[k - 1], s[k]) ELSE f[k - 1]
  BY <1>1 DEF Keeps
<1> DEFINE Has(k) == \A x : (\E i \in 1..Len(f[k]) : f[k][i] = x) <=> x \in S /\ \E i \in 1..k : s[i] = x
           Good == {k \in 0..Len(s) : Has(k)}
<1>3. 0 \in Good
  BY <1>2
<1>4. ASSUME NEW k \in 1..Len(s), k - 1 \in Good PROVE k \in Good
  <2>1. k - 1 \in 0..Len(s) /\ k \in 0..Len(s) /\ s[k] \in A /\ f[k - 1] \in Seq(A)
    BY <1>2
  <2>2. Has(k - 1)
    BY <1>4
  <2>3. \A i \in 1..k : i \in 1..(k - 1) \/ i = k
    OBVIOUS
  <2>4. k \in 1..k /\ \A i \in 1..(k - 1) : i \in 1..k
    OBVIOUS
  <2>5. CASE s[k] \in S
    <3>1. f[k] = Append(f[k - 1], s[k])
      BY <1>2, <2>5
    <3> DEFINE b == f[k - 1]
               c == f[k]
    <3>2. /\ Len(c) = Len(b) + 1 /\ c[Len(b) + 1] = s[k] /\ Len(b) + 1 \in 1..(Len(b) + 1)
          /\ \A i \in 1..Len(b) : c[i] = b[i] /\ i \in 1..(Len(b) + 1)
          /\ \A i \in 1..(Len(b) + 1) : i \in 1..Len(b) \/ i = Len(b) + 1
      BY <2>1, <3>1, OneMore
    <3>3. \A x : (\E i \in 1..Len(b) : b[i] = x) <=> x \in S /\ \E i \in 1..(k - 1) : s[i] = x
      BY <2>2
    <3> HIDE DEF b, c
    <3>4. \A x : (\E i \in 1..Len(c) : c[i] = x) <=> (\E i \in 1..Len(b) : b[i] = x) \/ x = s[k]
      BY <3>2
    <3>5. \A x : (\E i \in 1..Len(c) : c[i] = x) <=> x \in S /\ \E i \in 1..k : s[i] = x
      BY <2>3, <2>4, <2>5, <3>3, <3>4
    <3>6. Has(k)
      BY <3>5 DEF c
    <3> QED BY <2>1, <3>6
  <2>6. CASE s[k] \notin S
    <3>1. f[k] = f[k - 1]
      BY <1>2, <2>6
    <3>2. Has(k)
      BY <2>2, <2>3, <2>4, <2>6, <3>1
    <3> QED BY <2>1, <3>2
  <2> QED BY <2>5, <2>6
<1>5. Len(s) \in Nat /\ Good \in SUBSET (0..Len(s))
  OBVIOUS
<1> HIDE DEF Good
<1>6. Good = 0..Len(s)
  BY <1>3, <1>4, <1>5, EachTurn
<1>7. Len(s) \in Good
  BY <1>5, <1>6
<1> QED BY <1>2, <1>7 DEF Good

\* What is kept of the nodes and what is kept of their positions go together.
LEMMA KeptTogether ==
  ASSUME nodes \in Seq(Nodes), NEW S, NEW T,
         \A k \in DOMAIN nodes : nodes[k] \in S <=> k \in T
  PROVE  LET s == Kept(nodes, S)
             t == Kept([k \in DOMAIN nodes |-> k], T)
         IN  Len(s) = Len(t) /\ \A i \in 1..Len(t) : s[i] = nodes[t[i]]
<1> DEFINE idx == [k \in DOMAIN nodes |-> k]
<1>1. Len(nodes) \in Nat /\ DOMAIN nodes = 1..Len(nodes) /\ nodes \in [1..Len(nodes) -> Nodes]
  OBVIOUS
<1>2. idx \in Seq(Nat) /\ Len(idx) = Len(nodes) /\ \A k \in 1..Len(nodes) : idx[k] = k
  BY <1>1
<1> HIDE DEF idx
<1>3. PICK f : Keeps(Nodes, nodes, S, f)
  BY KeptSteps
<1>4. PICK g : Keeps(Nat, idx, T, g)
  BY <1>2, KeptSteps
<1>5. /\ f \in [0..Len(nodes) -> Seq(Nodes)] /\ f[0] = <<>> /\ Kept(nodes, S) = f[Len(nodes)]
      /\ \A k \in 1..Len(nodes) : f[k] = IF nodes[k] \in S THEN Append(f[k - 1], nodes[k]) ELSE f[k - 1]
  BY <1>3 DEF Keeps
<1>6. /\ g \in [0..Len(nodes) -> Seq(Nat)] /\ g[0] = <<>> /\ Kept(idx, T) = g[Len(nodes)]
      /\ \A k \in 1..Len(nodes) : g[k] = IF k \in T THEN Append(g[k - 1], k) ELSE g[k - 1]
  BY <1>2, <1>4 DEF Keeps
<1> DEFINE Alike(s, t) == Len(s) = Len(t) /\ \A i \in 1..Len(t) : s[i] = nodes[t[i]]
           Good == {k \in 0..Len(nodes) : Alike(f[k], g[k])}
<1>7. 0 \in Good
  BY <1>5, <1>6
<1>8. ASSUME NEW k \in 1..Len(nodes), k - 1 \in Good PROVE k \in Good
  <2>1. /\ k - 1 \in 0..Len(nodes) /\ k \in 0..Len(nodes) /\ nodes[k] \in Nodes /\ k \in Nat
        /\ f[k - 1] \in Seq(Nodes) /\ g[k - 1] \in Seq(Nat)
    <3>1. k - 1 \in 0..Len(nodes) /\ k \in 0..Len(nodes) /\ nodes[k] \in Nodes /\ k \in Nat
      BY <1>1
    <3> QED BY <1>5, <1>6, <3>1
  <2>2. Alike(f[k - 1], g[k - 1])
    BY <1>8
  <2>3. CASE k \in T
    <3>1. f[k] = Append(f[k - 1], nodes[k]) /\ g[k] = Append(g[k - 1], k)
      BY <1>1, <1>5, <1>6, <2>3
    <3>2. Alike(f[k], g[k])
      BY <2>1, <2>2, <3>1, OneMore
    <3> QED BY <2>1, <3>2
  <2>4. CASE k \notin T
    <3>1. f[k] = f[k - 1] /\ g[k] = g[k - 1]
      BY <1>1, <1>5, <1>6, <2>4
    <3> QED BY <2>1, <2>2, <3>1
  <2> QED BY <2>3, <2>4
<1>9. Good \in SUBSET (0..Len(nodes))
  OBVIOUS
<1> HIDE DEF Good
<1>10. Good = 0..Len(nodes)
  BY <1>1, <1>7, <1>8, <1>9, EachTurn
<1>11. Len(nodes) \in Good
  BY <1>1, <1>10
<1>12. Alike(f[Len(nodes)], g[Len(nodes)])
  BY <1>11 DEF Good
<1> QED BY <1>5, <1>6, <1>12 DEF idx

\* The nodes are distinct, and neighbours are who have an edge, in whichever
\* direction.
EngineInv ==
  /\ GraphInv /\ edges \subseteq Known \X Known
  /\ \A i, j \in 1..Len(nodes) : nodes[i] = nodes[j] => i = j
  /\ \A n \in Nodes : adj[n] = {x \in Nodes : <<n, x>> \in edges \/ <<x, n>> \in edges}

\* A node that is put in where it is missing leaves the nodes distinct.
LEMMA InsertDistinct ==
  ASSUME NEW s \in Seq(Nodes), NEW n \in Nodes, \A i, j \in 1..Len(s) : s[i] = s[j] => i = j
  PROVE  \A i, j \in 1..Len(Insert(s, n)) : Insert(s, n)[i] = Insert(s, n)[j] => i = j
<1>1. CASE Contains(s, n)
  BY <1>1 DEF Insert
<1>2. CASE ~Contains(s, n)
  <2>1. Insert(s, n) = Append(s, n)
    BY <1>2 DEF Insert
  <2>2. \A i \in 1..Len(s) : s[i] # n
    <3>1. DOMAIN s = 1..Len(s)
      OBVIOUS
    <3> QED BY <1>2, <3>1 DEF Contains
  <2>3. \A i, j \in 1..Len(Append(s, n)) : Append(s, n)[i] = Append(s, n)[j] => i = j
    BY <2>2, OneMore
  <2> QED BY <2>1, <2>3
<1> QED BY <1>1, <1>2

\* The empty graph is such a graph,
LEMMA EngineStarts == GraphInit => EngineInv
<1> SUFFICES ASSUME GraphInit PROVE EngineInv
  OBVIOUS
<1>1. nodes = <<>> /\ adj = [n \in Nodes |-> {}] /\ edges = {}
  BY DEF GraphInit
<1>2. GraphInv
  BY RouteStarts DEF RouteInv
<1>3. \A i, j \in 1..Len(nodes) : nodes[i] = nodes[j] => i = j
  BY <1>1
<1> QED BY <1>1, <1>2, <1>3 DEF EngineInv

\* and add_node and add_edge keep it one.
LEMMA EngineStep == EngineInv /\ [GraphNext]_graphVars => EngineInv'
<1> SUFFICES ASSUME EngineInv, [GraphNext]_graphVars PROVE EngineInv'
  OBVIOUS
<1>0. /\ GraphInv /\ edges \subseteq Known \X Known /\ nodes \in Seq(Nodes) /\ adj \in [Nodes -> SUBSET Nodes]
      /\ \A i, j \in 1..Len(nodes) : nodes[i] = nodes[j] => i = j
      /\ \A n \in Nodes : adj[n] = {x \in Nodes : <<n, x>> \in edges \/ <<x, n>> \in edges}
  BY DEF EngineInv, GraphInv
<1>1. CASE UNCHANGED graph
  BY <1>0, <1>1 DEF EngineInv, GraphInv, Known, graph
<1>2. ASSUME NEW a \in Nodes, NEW b \in Nodes, AddEdge(a, b) PROVE EngineInv'
  <2>1. /\ nodes' = Insert(Insert(nodes, a), b) /\ edges' = edges \cup {<<a, b>>}
        /\ adj' = [n \in Nodes |-> adj[n] \cup {x \in {a, b} : {n, x} = {a, b}}]
    BY <1>2 DEF AddEdge
  <2>2. GraphInv'
    BY <1>0, <1>2, GraphGrows
  <2>3. Insert(nodes, a) \in Seq(Nodes) /\ ToSet(Insert(nodes, a)) = Known \cup {a}
    BY <1>0, InsertType DEF Known
  <2>4. Known' = Known \cup {a, b}
    <3>1. ToSet(nodes') = Known \cup {a} \cup {b}
      BY <2>1, <2>3, InsertType
    <3> QED BY <3>1 DEF Known
  <2>5. (edges \subseteq Known \X Known)'
    BY <1>0, <2>1, <2>4
  <2>6. \A i, j \in 1..Len(Insert(nodes, a)) : Insert(nodes, a)[i] = Insert(nodes, a)[j] => i = j
    BY <1>0, InsertDistinct
  <2>7. \A i, j \in 1..Len(nodes') : nodes'[i] = nodes'[j] => i = j
    <3> DEFINE s == Insert(nodes, a)
    <3> HIDE DEF s
    <3>1. \A i, j \in 1..Len(Insert(s, b)) : Insert(s, b)[i] = Insert(s, b)[j] => i = j
      BY <2>3, <2>6, InsertDistinct DEF s
    <3> QED BY <2>1, <3>1 DEF s
  <2>8. ASSUME NEW n \in Nodes PROVE adj'[n] = {x \in Nodes : <<n, x>> \in edges' \/ <<x, n>> \in edges'}
    <3>1. adj'[n] = adj[n] \cup {x \in {a, b} : {n, x} = {a, b}}
      BY <2>1
    <3>2. adj[n] = {x \in Nodes : <<n, x>> \in edges \/ <<x, n>> \in edges}
      BY <1>0
    <3>3. ASSUME NEW x \in Nodes
          PROVE  <<n, x>> \in edges' \/ <<x, n>> \in edges' <=>
                   (<<n, x>> \in edges \/ <<x, n>> \in edges) \/ ((x = a \/ x = b) /\ {n, x} = {a, b})
      <4>1. {n, x} = {a, b} <=> (n = a /\ x = b) \/ (n = b /\ x = a)
        OBVIOUS
      <4> QED BY <2>1, <4>1
    <3> QED BY <3>1, <3>2, <3>3
  <2> QED BY <2>2, <2>5, <2>7, <2>8 DEF EngineInv
<1>3. ASSUME NEW n \in Nodes, AddNode(n) PROVE EngineInv'
  <2>1. nodes' = Insert(nodes, n) /\ adj' = adj /\ edges' = edges
    BY <1>3 DEF AddNode
  <2>2. nodes' \in Seq(Nodes) /\ Known' = Known \cup {n}
    BY <1>0, <2>1, InsertType DEF Known
  <2>3. GraphInv'
    BY <1>0, <2>1, <2>2 DEF GraphInv
  <2>4. \A i, j \in 1..Len(nodes') : nodes'[i] = nodes'[j] => i = j
    BY <1>0, <2>1, InsertDistinct
  <2> QED BY <1>0, <2>1, <2>2, <2>3, <2>4 DEF EngineInv
<1>4. CASE GraphNext
  <2>1. CASE \E a, b \in Nodes : Ingest(a, b)
    BY <1>2, <2>1 DEF Ingest
  <2>2. ASSUME NEW n \in Nodes, IngestAlone(n) \/ Relax(n) PROVE EngineInv'
    BY <1>1, <1>3, <2>2 DEF IngestAlone, Relax
  <2>3. ASSUME NEW q \in Queries, FindAttackPath(q) PROVE EngineInv'
    BY <1>1, <2>3 DEF FindAttackPath
  <2>4. CASE PopEntry \/ NoPath \/ EndRelax
    BY <1>1, <2>4 DEF PopEntry, NoPath, EndRelax
  <2> QED BY <1>4, <2>1, <2>2, <2>3, <2>4 DEF GraphNext
<1>5. CASE UNCHANGED graphVars
  BY <1>1, <1>5 DEF graphVars
<1> QED BY <1>4, <1>5

\* _neighbours gives all of adj but the node itself.
LEMMA NeighboursAre ==
  ASSUME EngineInv, NEW n \in Known
  PROVE  /\ Neighbours(n) \in Seq(Known)
         /\ \A x : (\E i \in 1..Len(Neighbours(n)) : Neighbours(n)[i] = x) <=> x \in adj[n] \ {n}
<1>1. nodes \in Seq(Nodes) /\ adj[n] \subseteq Known
  BY KnownAre DEF EngineInv, GraphInv
<1>2. nodes \in Seq(Known) /\ \A x : x \in Known <=> \E i \in 1..Len(nodes) : nodes[i] = x
  BY <1>1, KnownAre
<1>3. Kept(nodes, adj[n] \ {n}) \in Seq(Known)
  BY <1>2, KeptSteps
<1>4. \A x : (\E i \in 1..Len(Neighbours(n)) : Neighbours(n)[i] = x) <=> x \in adj[n] \ {n} /\ x \in Known
  <2>1. PICK S : S = adj[n] \ {n}
    OBVIOUS
  <2>2. \A x : (\E i \in 1..Len(Kept(nodes, S)) : Kept(nodes, S)[i] = x) <=> x \in S /\ \E i \in 1..Len(nodes) : nodes[i] = x
    BY <1>1, KeptIs
  <2>3. Neighbours(n) = Kept(nodes, S)
    BY <2>1 DEF Neighbours
  <2> QED BY <1>2, <2>1, <2>2, <2>3
<1> QED BY <1>1, <1>3, <1>4 DEF Neighbours

\* A node is where _index says.
LEMMA IndexIs == ASSUME EngineInv, NEW k \in 1..Len(nodes) PROVE Index(nodes[k]) = k
<1> DEFINE T == {i \in 1..Len(nodes) : nodes[i] = nodes[k]}
<1>1. Index(nodes[k]) = IF T # {} THEN Min(T) ELSE 0
  BY DEF Index, SelectInSeq
<1>2. T = {k}
  BY DEF EngineInv
<1>3. Min({k}) = k
  BY DEF Min
<1> HIDE DEF T
<1> QED BY <1>1, <1>2, <1>3

\* The lists of the Rust core are the neighbours, position by position.
LEMMA ListsAre ==
  ASSUME EngineInv
  PROVE  LET lists == FromEdges(NativeGraph)
         IN  /\ lists \in [DOMAIN nodes -> Seq(DOMAIN nodes)]
             /\ \A i \in DOMAIN nodes :
                  /\ Len(Neighbours(nodes[i])) = Len(lists[i])
                  /\ \A k \in 1..Len(lists[i]) : Neighbours(nodes[i])[k] = nodes[lists[i][k]]
<1>1. /\ nodes \in Seq(Nodes) /\ edges \subseteq Known \X Known /\ Known \subseteq Nodes /\ DOMAIN nodes = 1..Len(nodes)
      /\ \A n : n \in Known <=> \E i \in 1..Len(nodes) : nodes[i] = n
      /\ \A i \in 1..Len(nodes) : Index(nodes[i]) = i /\ nodes[i] \in Nodes
      /\ \A i, j \in 1..Len(nodes) : nodes[i] = nodes[j] => i = j
      /\ \A n \in Nodes : adj[n] = {x \in Nodes : <<n, x>> \in edges \/ <<x, n>> \in edges}
  <2>1. nodes \in Seq(Nodes) /\ Known \subseteq Nodes
    BY KnownAre DEF EngineInv, GraphInv
  <2> QED BY <2>1, KnownAre, IndexIs DEF EngineInv
<1> DEFINE idx == [k \in DOMAIN nodes |-> k]
           Near(i) == {j \in DOMAIN nodes : i # j /\ {<<i, j>>, <<j, i>>} \cap NativeGraph # {}}
           lists == FromEdges(NativeGraph)
<1>2. ASSUME NEW i \in DOMAIN nodes, NEW j \in DOMAIN nodes, i # j
      PROVE  <<i, j>> \in NativeGraph <=> <<nodes[i], nodes[j]>> \in edges
  <2>1. nodes[i] # nodes[j]
    BY <1>1, <1>2
  <2>2. ASSUME <<nodes[i], nodes[j]>> \in edges PROVE <<i, j>> \in NativeGraph
    <3> DEFINE e == <<nodes[i], nodes[j]>>
    <3>1. e \in {x \in edges : x[1] # x[2]} /\ <<Index(e[1]), Index(e[2])>> = <<i, j>>
      BY <1>1, <2>1, <2>2
    <3> HIDE DEF e
    <3> QED BY <3>1 DEF NativeGraph
  <2>3. ASSUME <<i, j>> \in NativeGraph PROVE <<nodes[i], nodes[j]>> \in edges
    <3>1. PICK e \in edges : <<Index(e[1]), Index(e[2])>> = <<i, j>>
      BY <2>3 DEF NativeGraph
    <3>2. PICK a \in 1..Len(nodes), b \in 1..Len(nodes) : e = <<nodes[a], nodes[b]>>
      BY <1>1
    <3>3. a = i /\ b = j
      BY <1>1, <3>1, <3>2
    <3> QED BY <3>2, <3>3
  <2> QED BY <2>2, <2>3
<1>3. ASSUME NEW i \in DOMAIN nodes
      PROVE  \A k \in DOMAIN nodes : nodes[k] \in adj[nodes[i]] \ {nodes[i]} <=> k \in Near(i)
  <2> SUFFICES ASSUME NEW k \in DOMAIN nodes PROVE nodes[k] \in adj[nodes[i]] \ {nodes[i]} <=> k \in Near(i)
    OBVIOUS
  <2>1. nodes[k] = nodes[i] <=> k = i
    BY <1>1
  <2>2. nodes[k] \in adj[nodes[i]] <=> <<nodes[i], nodes[k]>> \in edges \/ <<nodes[k], nodes[i]>> \in edges
    BY <1>1
  <2>3. k # i => (nodes[k] \in adj[nodes[i]] <=> <<i, k>> \in NativeGraph \/ <<k, i>> \in NativeGraph)
    BY <1>2, <2>2
  <2> QED BY <2>1, <2>3
<1>4. idx \in Seq(DOMAIN nodes)
  BY <1>1
<1>5. \A i \in DOMAIN nodes : lists[i] = Kept(idx, Near(i))
  BY DEF FromEdges
<1>6. lists = [i \in DOMAIN nodes |-> lists[i]]
  BY DEF FromEdges
<1> HIDE DEF lists, idx, Near
<1>7. \A i \in DOMAIN nodes : lists[i] \in Seq(DOMAIN nodes)
  BY <1>4, <1>5, KeptSteps
<1>8. lists \in [DOMAIN nodes -> Seq(DOMAIN nodes)]
  BY <1>6, <1>7
<1>9. ASSUME NEW i \in DOMAIN nodes
      PROVE  /\ Len(Neighbours(nodes[i])) = Len(lists[i])
             /\ \A k \in 1..Len(lists[i]) : Neighbours(nodes[i])[k] = nodes[lists[i][k]]
  <2>1. PICK S, T : S = adj[nodes[i]] \ {nodes[i]} /\ T = Near(i)
    OBVIOUS
  <2>2. \A k \in DOMAIN nodes : nodes[k] \in S <=> k \in T
    BY <1>3, <2>1
  <2>3. Neighbours(nodes[i]) = Kept(nodes, S) /\ lists[i] = Kept(idx, T)
    BY <1>5, <2>1 DEF Neighbours
  <2>4. Len(Kept(nodes, S)) = Len(Kept(idx, T)) /\ \A k \in 1..Len(Kept(idx, T)) : Kept(nodes, S)[k] = nodes[Kept(idx, T)[k]]
    BY <1>1, <2>2, KeptTogether DEF idx
  <2> QED BY <2>3, <2>4
<1> QED BY <1>8, <1>9 DEF lists

\* The degrees are the lengths of the same lists.
LEMMA DegreesAgree == ASSUME EngineInv PROVE DegreePython = DegreeRust
<1>1. \A n \in Known : \E i \in DOMAIN nodes : nodes[i] = n /\ Index(n) = i
  <2>1. nodes \in Seq(Nodes)
    BY DEF EngineInv, GraphInv
  <2> QED BY <2>1, KnownAre, IndexIs
<1>2. \A n \in Known : Len(Neighbours(n)) = Len(FromEdges(NativeGraph)[Index(n)])
  BY <1>1, ListsAre
<1> QED BY <1>2 DEF DegreePython, DegreeRust

\* A way from s to w, which may visit a node twice; and the nodes with one of at
\* most h hops.
Walk(p, s, w) ==
  /\ p \in Seq(Known) /\ Len(p) > 0 /\ p[1] = s /\ p[Len(p)] = w
  /\ \A i \in 1..(Len(p) - 1) : p[i + 1] \in adj[p[i]]
Within(s, h) == {w \in Known : \E p \in Seq(Known) : Walk(p, s, w) /\ Len(p) <= h + 1}

\* Without a hop there is the source alone.
LEMMA WithinStarts ==
  ASSUME NEW s \in Known
  PROVE  Within(s, 0) = {s} /\ Within(s, -1) = {}
<1>1. Walk(<<s>>, s, s) /\ <<s>> \in Seq(Known) /\ Len(<<s>>) = 1
  BY DEF Walk
<1>2. ASSUME NEW w, NEW p \in Seq(Known), Walk(p, s, w), Len(p) <= 1 PROVE w = s
  <2>1. Len(p) = 1
    <3>1. Len(p) \in Nat /\ Len(p) > 0
      BY <1>2 DEF Walk
    <3>2. PICK n \in Nat : n = Len(p)
      BY <3>1
    <3>3. n > 0 /\ n <= 1
      BY <1>2, <3>1, <3>2
    <3> QED BY <3>2, <3>3
  <2> QED BY <1>2, <2>1 DEF Walk
<1>3. \A p \in Seq(Known) : \A w : Walk(p, s, w) => Len(p) > 0 /\ Len(p) \in Nat
  BY DEF Walk
<1>4. ASSUME NEW w \in Within(s, 0) PROVE w = s
  <2>1. 0 + 1 = 1
    OBVIOUS
  <2> QED BY <1>2, <1>4, <2>1 DEF Within
<1>5. s \in Within(s, 0)
  <2>1. Len(<<s>>) <= 0 + 1
    BY <1>1
  <2> QED BY <1>1, <2>1 DEF Within
<1>6. ASSUME NEW w \in Within(s, -1) PROVE FALSE
  <2>1. PICK p \in Seq(Known) : Walk(p, s, w) /\ Len(p) <= -1 + 1
    BY <1>6 DEF Within
  <2> QED BY <1>3, <2>1
<1> QED BY <1>4, <1>5, <1>6

\* More hops reach no less.
LEMMA WithinMore ==
  ASSUME NEW s, NEW g \in Int, NEW h \in Int, g <= h
  PROVE  Within(s, g) \subseteq Within(s, h)
<1>1. \A p \in Seq(Known) : Len(p) <= g + 1 => Len(p) <= h + 1
  OBVIOUS
<1> QED BY <1>1 DEF Within

\* One hop more
LEMMA OneHopMore ==
  ASSUME EngineInv, NEW s \in Known, NEW h \in Nat
  PROVE  \A w : w \in Within(s, h + 1) <=> w = s \/ \E v \in Within(s, h) : w \in adj[v]
<1>1. \A n \in Known : adj[n] \subseteq Known
  <2>1. Known \subseteq Nodes
    BY KnownAre DEF EngineInv, GraphInv
  <2> QED BY <2>1 DEF EngineInv, GraphInv
<1>2. s \in Within(s, h + 1)
  BY WithinStarts, WithinMore
<1>3. ASSUME NEW v \in Within(s, h), NEW w \in adj[v] PROVE w \in Within(s, h + 1)
  <2>1. PICK p \in Seq(Known) : Walk(p, s, v) /\ Len(p) <= h + 1
    BY <1>3 DEF Within
  <2>2. /\ Len(p) > 0 /\ p[1] = s /\ p[Len(p)] = v
        /\ \A i \in 1..(Len(p) - 1) : p[i + 1] \in adj[p[i]]
    BY <2>1 DEF Walk
  <2>3. w \in Known
    BY <1>1, <1>3 DEF Within
  <2>4. PICK q : q = Append(p, w)
    OBVIOUS
  <2>5. /\ q \in Seq(Known) /\ Len(q) = Len(p) + 1 /\ Len(p) \in Nat /\ q[Len(p) + 1] = w
        /\ \A i \in 1..Len(p) : q[i] = p[i]
    BY <2>3, <2>4, OneMore
  <2>6. ASSUME NEW i \in 1..(Len(q) - 1) PROVE q[i + 1] \in adj[q[i]]
    <3>1. CASE i = Len(p)
      BY <1>3, <2>2, <2>5, <3>1
    <3>2. CASE i # Len(p)
      <4>1. i \in 1..(Len(p) - 1) /\ i \in 1..Len(p) /\ i + 1 \in 1..Len(p)
        BY <2>5, <3>2
      <4> QED BY <2>2, <2>5, <4>1
    <3> QED BY <3>1, <3>2
  <2>7. 1 \in 1..Len(p) /\ Len(q) > 0 /\ Len(q) <= h + 1 + 1
    BY <2>1, <2>2, <2>5
  <2>8. Walk(q, s, w)
    BY <2>2, <2>5, <2>6, <2>7 DEF Walk
  <2> QED BY <2>3, <2>5, <2>7, <2>8 DEF Within
<1>4. ASSUME NEW w \in Within(s, h + 1), w # s PROVE \E v \in Within(s, h) : w \in adj[v]
  <2>1. PICK p \in Seq(Known) : Walk(p, s, w) /\ Len(p) <= h + 1 + 1
    BY <1>4 DEF Within
  <2>2. /\ Len(p) \in Nat /\ Len(p) > 0 /\ p[1] = s /\ p[Len(p)] = w
        /\ \A i \in 1..(Len(p) - 1) : p[i + 1] \in adj[p[i]]
    BY <2>1 DEF Walk
  <2>3. Len(p) # 1
    BY <1>4, <2>2
  <2>4. PICK m \in Nat : m = Len(p) - 1
    <3>1. Len(p) - 1 \in Nat
      BY <2>2
    <3> QED BY <3>1
  <2>5. m > 0 /\ m + 1 = Len(p) /\ m <= h + 1 /\ m \in 1..(Len(p) - 1) /\ 1 \in 1..m
    BY <2>1, <2>2, <2>3, <2>4
  <2>6. PICK q : q = SubSeq(p, 1, m)
    OBVIOUS
  <2>7. q \in Seq(Known) /\ Len(q) = m /\ \A i \in 1..m : q[i] = p[i]
    BY <2>4, <2>5, <2>6
  <2>8. \A i \in 1..(m - 1) : i \in 1..m /\ i + 1 \in 1..m /\ i \in 1..(Len(p) - 1)
    BY <2>4, <2>5
  <2>9. Walk(q, s, q[m])
    BY <2>2, <2>5, <2>7, <2>8 DEF Walk
  <2>10. q[m] \in Known /\ m \in 1..m
    BY <2>5, <2>7
  <2>11. q[m] \in Within(s, h)
    BY <2>5, <2>7, <2>9, <2>10 DEF Within
  <2>12. w \in adj[q[m]]
    BY <2>2, <2>5, <2>7, <2>10
  <2> QED BY <2>11, <2>12
<1> QED BY <1>2, <1>3, <1>4

\* What is seen is what is in the queue, once.
Tidy(A, st) ==
  /\ st \in SearchStates(A)
  /\ \A i, j \in 1..Len(st.queue) : st.queue[i] = st.queue[j] => i = j
  /\ \A x : x \in st.seen <=> \E i \in 1..Len(st.queue) : st.queue[i] = x

\* A later state r: nothing that was found is lost.
Later(st, r) ==
  /\ Len(st.queue) <= Len(r.queue) /\ \A i \in 1..Len(st.queue) : r.queue[i] = st.queue[i]
  /\ st.seen \subseteq r.seen /\ \A x \in st.seen : r.prev[x] = st.prev[x]

\* What is later than a later state is later.
LEMMA LaterStill ==
  ASSUME NEW A, NEW st, NEW r, NEW u, Tidy(A, st), Tidy(A, r), Tidy(A, u), Later(st, r), Later(r, u)
  PROVE  Later(st, u)
<1>1. Len(st.queue) \in Nat /\ Len(r.queue) \in Nat /\ Len(u.queue) \in Nat
  BY DEF Tidy, SearchStates
<1>2. Len(st.queue) <= Len(r.queue) /\ Len(r.queue) <= Len(u.queue)
  BY DEF Later
<1>3. Len(st.queue) <= Len(u.queue) /\ \A i \in 1..Len(st.queue) : i \in 1..Len(r.queue)
  BY <1>1, <1>2
<1> QED BY <1>3 DEF Later

\* Node w, met from v: seen from now on, by v if it was not before.
Met(st, r, v, W) ==
  /\ Later(st, r) /\ r.seen = st.seen \cup W
  /\ \A x \in r.seen \ st.seen : r.prev[x] = v

\* This is what meeting one node does.
LEMMA DiscoverIs ==
  ASSUME NEW A, NEW st, Tidy(A, st), NEW v \in A, NEW w \in A
  PROVE  Tidy(A, Discover(st, v, w)) /\ Met(st, Discover(st, v, w), v, {w})
<1>0. st.queue \in Seq(A) /\ Len(st.queue) \in Nat /\ st.seen \in SUBSET A /\ st.prev \in [A -> A] /\ st \in SearchStates(A)
  BY DEF Tidy, SearchStates
<1>1. CASE w \in st.seen
  BY <1>0, <1>1 DEF Discover, Met, Later
<1>2. CASE w \notin st.seen
  <2>1. PICK r : r = Discover(st, v, w)
    OBVIOUS
  <2>2. r.queue = Append(st.queue, w) /\ r.seen = st.seen \cup {w} /\ r.prev = [st.prev EXCEPT ![w] = v]
    BY <1>2, <2>1 DEF Discover
  <2>3. r \in SearchStates(A)
    BY <1>0, <2>1, DiscoverType
  <2>4. PICK q \in Seq(A) : q = st.queue
    BY <1>0
  <2>5. PICK u : u = r.queue
    OBVIOUS
  <2>6. /\ Len(u) = Len(q) + 1 /\ Len(q) \in Nat
        /\ \A i \in 1..Len(q) : u[i] = q[i] /\ i \in 1..(Len(q) + 1)
        /\ u[Len(q) + 1] = w /\ Len(q) + 1 \in 1..(Len(q) + 1)
        /\ \A i \in 1..(Len(q) + 1) : i \in 1..Len(q) \/ i = Len(q) + 1
    BY <2>2, <2>4, <2>5, OneMore
  <2>7. /\ \A i, j \in 1..Len(q) : q[i] = q[j] => i = j
        /\ \A x : x \in st.seen <=> \E i \in 1..Len(q) : q[i] = x
    BY <2>4 DEF Tidy
  <2>8. \A i \in 1..Len(q) : q[i] # w
    BY <1>2, <2>7
  <2>9. \A i, j \in 1..Len(u) : u[i] = u[j] => i = j
    BY <2>6, <2>7, <2>8
  <2>10. \A x : x \in r.seen <=> \E i \in 1..Len(u) : u[i] = x
    BY <2>2, <2>6, <2>7
  <2>11. Tidy(A, r)
    BY <2>3, <2>5, <2>9, <2>10 DEF Tidy
  <2>12. (\A x \in st.seen : r.prev[x] = st.prev[x]) /\ r.prev[w] = v
    BY <1>0, <1>2, <2>2
  <2>13. Len(q) <= Len(u)
    BY <2>6
  <2>14. Later(st, r)
    BY <2>2, <2>4, <2>5, <2>6, <2>12, <2>13 DEF Later
  <2>15. Met(st, r, v, {w})
    BY <2>2, <2>12, <2>14 DEF Met
  <2> QED BY <2>1, <2>11, <2>15
<1> QED BY <1>1, <1>2

\* All neighbours of v
LEMMA LookAroundIs ==
  ASSUME NEW A, NEW st, Tidy(A, st), NEW v \in A, NEW near \in Seq(A)
  PROVE  /\ Tidy(A, LookAround(st, v, near))
         /\ Met(st, LookAround(st, v, near), v, {near[i] : i \in 1..Len(near)})
<1>0. st \in SearchStates(A) /\ Len(near) \in Nat
  BY DEF Tidy
<1>1. PICK f : LooksAround(A, st, v, near, f)
  BY <1>0, LookAroundSteps
<1>2. /\ f[0] = st /\ LookAround(st, v, near) = f[Len(near)]
      /\ \A k \in 1..Len(near) : f[k] = Discover(f[k - 1], v, near[k])
  BY <1>1 DEF LooksAround
<1> DEFINE W(k) == {near[i] : i \in 1..k}
           Good == {k \in 0..Len(near) : Tidy(A, f[k]) /\ Met(st, f[k], v, W(k))}
<1>3. 0 \in Good
  <2>1. W(0) = {}
    OBVIOUS
  <2>2. Later(st, st)
    BY <1>0 DEF Later, SearchStates
  <2> QED BY <1>0, <1>2, <2>1, <2>2 DEF Met
<1>4. ASSUME NEW k \in 1..Len(near), k - 1 \in Good PROVE k \in Good
  <2>1. PICK r, u : r = f[k - 1] /\ u = f[k]
    OBVIOUS
  <2>2. Tidy(A, r) /\ Met(st, r, v, W(k - 1)) /\ near[k] \in A /\ k \in 0..Len(near)
    BY <1>0, <1>4, <2>1
  <2>3. Tidy(A, u) /\ Met(r, u, v, {near[k]})
    BY <1>2, <2>1, <2>2, DiscoverIs
  <2>4. Later(st, u)
    BY <2>2, <2>3, LaterStill DEF Met
  <2>5. W(k) = W(k - 1) \cup {near[k]}
    <3>1. \A i \in 1..k : i \in 1..(k - 1) \/ i = k
      OBVIOUS
    <3>2. k \in 1..k /\ \A i \in 1..(k - 1) : i \in 1..k
      OBVIOUS
    <3> QED BY <3>1, <3>2
  <2> HIDE DEF W
  <2>6. u.seen = st.seen \cup W(k)
    BY <2>2, <2>3, <2>5 DEF Met
  <2>7. ASSUME NEW x \in u.seen \ st.seen PROVE u.prev[x] = v
    <3>1. CASE x \in r.seen
      <4>1. r.prev[x] = v /\ u.prev[x] = r.prev[x]
        BY <2>2, <2>3, <2>7, <3>1 DEF Met, Later
      <4> QED BY <4>1
    <3>2. CASE x \notin r.seen
      BY <2>3, <2>7, <3>2 DEF Met
    <3> QED BY <3>1, <3>2
  <2>8. Met(st, u, v, W(k))
    BY <2>4, <2>6, <2>7 DEF Met
  <2> QED BY <2>1, <2>2, <2>3, <2>8
<1>5. Good \in SUBSET (0..Len(near))
  OBVIOUS
<1> HIDE DEF Good
<1>6. Good = 0..Len(near)
  BY <1>0, <1>3, <1>4, <1>5, EachTurn
<1>7. Len(near) \in Good
  BY <1>0, <1>6
<1> QED BY <1>2, <1>7 DEF Good

\* The state after k turns of the search from s: the neighbours of what was
\* taken from the queue are seen, and what is seen was met from there.
Searched(s, st, k) ==
  /\ Tidy(Known, st) /\ st.queue[1] = s /\ s \in st.seen
  /\ \A i \in 1..Len(st.queue) : i <= k => adj[st.queue[i]] \subseteq st.seen
  /\ \A i \in 2..Len(st.queue) : \E j \in 1..(i - 1) :
       j <= k /\ st.prev[st.queue[i]] = st.queue[j] /\ st.queue[i] \in adj[st.queue[j]]

\* It holds before the first turn,
LEMMA SearchBegins == ASSUME NEW s \in Known PROVE Searched(s, Begin(s, Known), 0)
<1>1. PICK st : st = Begin(s, Known)
  OBVIOUS
<1>2. st.queue = <<s>> /\ st.seen = {s} /\ st \in SearchStates(Known)
  BY <1>1 DEF Begin, SearchStates
<1>3. st.queue \in Seq(Known) /\ Len(st.queue) = 1 /\ st.queue[1] = s /\ 1..1 = {1} /\ 2..1 = {}
  BY <1>2
<1>4. Tidy(Known, st)
  BY <1>2, <1>3 DEF Tidy
<1> QED BY <1>1, <1>2, <1>3, <1>4 DEF Searched

\* and each turn keeps it and loses nothing.
LEMMA TurnKeeps ==
  ASSUME EngineInv, NEW s \in Known, NEW k \in 1..Len(nodes), NEW st, Searched(s, st, k - 1)
  PROVE  Searched(s, Turn(st, k), k) /\ Later(st, Turn(st, k))
<1>0. Tidy(Known, st) /\ st.queue[1] = s /\ s \in st.seen /\ st.queue \in Seq(Known) /\ Len(st.queue) \in Nat
  BY DEF Searched, Tidy, SearchStates
<1>1. /\ \A i \in 1..Len(st.queue) : i <= k - 1 => adj[st.queue[i]] \subseteq st.seen
      /\ \A i \in 2..Len(st.queue) : \E j \in 1..(i - 1) :
           j <= k - 1 /\ st.prev[st.queue[i]] = st.queue[j] /\ st.queue[i] \in adj[st.queue[j]]
  BY DEF Searched
<1>2. CASE k > Len(st.queue)
  <2>1. Turn(st, k) = st
    BY <1>2 DEF Turn
  <2>2. Later(st, st)
    BY <1>0 DEF Later
  <2>3. \A i \in 1..Len(st.queue) : i <= k - 1
    BY <1>0, <1>2
  <2>4. \A j \in Nat : j <= k - 1 => j <= k
    OBVIOUS
  <2>5. \A i \in 2..Len(st.queue) : \A j \in 1..(i - 1) : j \in Nat
    OBVIOUS
  <2>6. \A i \in 2..Len(st.queue) : \E j \in 1..(i - 1) :
          j <= k /\ st.prev[st.queue[i]] = st.queue[j] /\ st.queue[i] \in adj[st.queue[j]]
    BY <1>1, <2>4, <2>5
  <2>7. Searched(s, st, k)
    BY <1>0, <1>1, <2>3, <2>6 DEF Searched
  <2> QED BY <2>1, <2>2, <2>7
<1>3. CASE ~(k > Len(st.queue))
  <2>1. k \in 1..Len(st.queue)
    BY <1>0, <1>3
  <2>2. PICK v \in Known : v = st.queue[k]
    BY <1>0, <2>1
  <2>3. PICK near : near = Neighbours(v)
    OBVIOUS
  <2>4. near \in Seq(Known) /\ {near[i] : i \in 1..Len(near)} = adj[v] \ {v}
    <3>1. \A x : (\E i \in 1..Len(near) : near[i] = x) <=> x \in adj[v] \ {v}
      BY <2>3, NeighboursAre
    <3>2. near \in Seq(Known)
      BY <2>3, NeighboursAre
    <3> QED BY <3>1, <3>2
  <2>5. PICK r : r = LookAround(st, v, near)
    OBVIOUS
  <2>6. Tidy(Known, r) /\ Met(st, r, v, adj[v] \ {v})
    <3>1. Tidy(Known, r) /\ Met(st, r, v, {near[i] : i \in 1..Len(near)})
      BY <1>0, <2>4, <2>5, LookAroundIs
    <3> QED BY <2>4, <3>1
  <2>7. Turn(st, k) = r
    BY <1>3, <2>2, <2>3, <2>5 DEF Turn
  <2>8. /\ Later(st, r) /\ r.seen = st.seen \cup (adj[v] \ {v}) /\ Len(r.queue) \in Nat
        /\ \A x \in r.seen \ st.seen : r.prev[x] = v
    BY <2>6 DEF Met, Tidy, SearchStates
  <2>9. /\ Len(st.queue) <= Len(r.queue) /\ \A i \in 1..Len(st.queue) : r.queue[i] = st.queue[i]
        /\ st.seen \subseteq r.seen /\ \A x \in st.seen : r.prev[x] = st.prev[x]
    BY <2>8 DEF Later
  <2>10. \A x : x \in st.seen <=> \E i \in 1..Len(st.queue) : st.queue[i] = x
    BY <1>0 DEF Tidy
  <2>11. /\ \A i, j \in 1..Len(r.queue) : r.queue[i] = r.queue[j] => i = j
         /\ \A x : x \in r.seen <=> \E i \in 1..Len(r.queue) : r.queue[i] = x
    BY <2>6 DEF Tidy
  <2>12. r.queue[1] = s /\ s \in r.seen
    <3>1. 1 \in 1..Len(st.queue)
      BY <2>1
    <3> QED BY <1>0, <2>9, <3>1
  <2>13. ASSUME NEW i \in 1..Len(r.queue), i <= k PROVE adj[r.queue[i]] \subseteq r.seen
    <3>1. i \in 1..Len(st.queue)
      BY <1>0, <2>1, <2>13
    <3>2. CASE i = k
      <4>1. v \in st.seen
        BY <2>1, <2>2, <2>10
      <4>2. r.queue[i] = v
        BY <2>1, <2>2, <2>9, <3>2
      <4> QED BY <2>8, <2>9, <4>1, <4>2
    <3>3. CASE i # k
      <4>1. i <= k - 1
        BY <2>13, <3>3
      <4> QED BY <1>1, <2>9, <3>1, <4>1
    <3> QED BY <3>2, <3>3
  <2>14. ASSUME NEW i \in 2..Len(r.queue)
         PROVE  \E j \in 1..(i - 1) : j <= k /\ r.prev[r.queue[i]] = r.queue[j] /\ r.queue[i] \in adj[r.queue[j]]
    <3>1. CASE i <= Len(st.queue)
      <4>1. i \in 2..Len(st.queue) /\ i \in 1..Len(st.queue)
        BY <1>0, <3>1
      <4>2. PICK j \in 1..(i - 1) : j <= k - 1 /\ st.prev[st.queue[i]] = st.queue[j] /\ st.queue[i] \in adj[st.queue[j]]
        BY <1>1, <4>1
      <4>3. j \in 1..Len(st.queue) /\ j <= k
        BY <4>1, <4>2
      <4>4. st.queue[i] \in st.seen
        BY <2>10, <4>1
      <4>5. r.queue[i] = st.queue[i] /\ r.queue[j] = st.queue[j] /\ r.prev[st.queue[i]] = st.prev[st.queue[i]]
        BY <2>9, <4>1, <4>3, <4>4
      <4> QED BY <4>2, <4>3, <4>5
    <3>2. CASE ~(i <= Len(st.queue))
      <4>1. i \in 1..Len(r.queue) /\ k \in 1..(i - 1) /\ k <= k
        BY <1>0, <2>1, <3>2
      <4>2. PICK x : x = r.queue[i]
        OBVIOUS
      <4>3. x \in r.seen
        BY <2>11, <4>1, <4>2
      <4>4. x \notin st.seen
        <5>1. SUFFICES ASSUME NEW j \in 1..Len(st.queue), st.queue[j] = x PROVE FALSE
          BY <2>10
        <5>2. j \in 1..Len(r.queue) /\ j # i
          BY <1>0, <2>8, <2>9, <3>2
        <5>3. r.queue[j] = r.queue[i]
          BY <2>9, <4>2, <5>1
        <5> QED BY <2>11, <4>1, <5>2, <5>3
      <4>5. r.prev[x] = v /\ x \in adj[v]
        BY <2>8, <4>3, <4>4
      <4>6. r.queue[k] = v
        BY <2>1, <2>2, <2>9
      <4> QED BY <4>1, <4>2, <4>5, <4>6
    <3> QED BY <3>1, <3>2
  <2>15. Searched(s, r, k)
    BY <2>6, <2>12, <2>13, <2>14 DEF Searched
  <2> QED BY <2>7, <2>8, <2>15
<1> QED BY <1>2, <1>3

\* What the turns of a search leave
LEMMA SearchKeeps ==
  ASSUME EngineInv, NEW s \in Known, NEW f, Searches(s, f)
  PROVE  /\ \A k \in 0..Len(nodes) : Searched(s, f[k], k)
         /\ \A k, m \in 0..Len(nodes) : k <= m => Later(f[k], f[m])
<1>1. /\ f[0] = Begin(s, Known) /\ \A k \in 1..Len(nodes) : f[k] = Turn(f[k - 1], k)
      /\ Len(nodes) \in Nat
  BY KnownAre DEF Searches, EngineInv, GraphInv
<1> DEFINE Before(m) == \A k \in 0..m : Tidy(Known, f[k]) /\ Later(f[k], f[m])
           Good == {m \in 0..Len(nodes) : Searched(s, f[m], m) /\ Before(m)}
<1>2. \A st, k : Searched(s, st, k) => Tidy(Known, st) /\ Later(st, st)
  <2> SUFFICES ASSUME NEW st, NEW k, Searched(s, st, k) PROVE Tidy(Known, st) /\ Later(st, st)
    OBVIOUS
  <2>1. Tidy(Known, st)
    BY DEF Searched
  <2>2. st.queue \in Seq(Known)
    BY <2>1 DEF Tidy, SearchStates
  <2>3. Len(st.queue) \in Nat
    BY <2>2
  <2> QED BY <2>1, <2>3 DEF Later
<1>3. 0 \in Good
  <2>1. Searched(s, f[0], 0)
    BY <1>1, SearchBegins
  <2>2. 0..0 = {0}
    OBVIOUS
  <2> QED BY <1>1, <1>2, <2>1, <2>2
<1>4. ASSUME NEW m \in 1..Len(nodes), m - 1 \in Good PROVE m \in Good
  <2>1. Searched(s, f[m - 1], m - 1) /\ Before(m - 1) /\ m \in 0..Len(nodes)
    BY <1>1, <1>4
  <2>2. Searched(s, f[m], m) /\ Later(f[m - 1], f[m])
    BY <1>1, <2>1, TurnKeeps
  <2>3. ASSUME NEW k \in 0..m PROVE Tidy(Known, f[k]) /\ Later(f[k], f[m])
    <3>1. CASE k = m
      BY <1>2, <2>2, <3>1 DEF Searched
    <3>2. CASE k # m
      <4>1. k \in 0..(m - 1)
        BY <3>2
      <4>2. Tidy(Known, f[k]) /\ Later(f[k], f[m - 1])
        BY <2>1, <4>1
      <4>3. Tidy(Known, f[m - 1]) /\ Tidy(Known, f[m])
        BY <2>1, <2>2 DEF Searched
      <4> QED BY <2>2, <4>2, <4>3, LaterStill
    <3> QED BY <3>1, <3>2
  <2> QED BY <2>1, <2>2, <2>3
<1>5. Good \in SUBSET (0..Len(nodes))
  OBVIOUS
<1> HIDE DEF Good
<1>6. Good = 0..Len(nodes)
  BY <1>1, <1>3, <1>4, <1>5, EachTurn
<1>7. \A m \in 0..Len(nodes) : Searched(s, f[m], m) /\ Before(m)
  BY <1>6 DEF Good
<1>8. \A k, m \in 0..Len(nodes) : k <= m => k \in 0..m
  BY <1>1
<1> QED BY <1>7, <1>8

\* The queue has no more than the nodes.
LEMMA QueueFits == ASSUME EngineInv, NEW st, Tidy(Known, st) PROVE Len(st.queue) <= Len(nodes)
<1>1. PICK q \in Seq(Known) : q = st.queue
  BY DEF Tidy, SearchStates
<1>2. nodes \in Seq(Nodes) /\ Len(nodes) \in Nat /\ Len(q) \in Nat
  BY <1>1, KnownAre DEF EngineInv, GraphInv
<1>3. \A i, j \in 1..Len(q) : q[i] = q[j] => i = j
  BY <1>1 DEF Tidy
<1>4. \A i \in 1..Len(q) : Index(q[i]) \in 1..Len(nodes) /\ nodes[Index(q[i])] = q[i]
  <2> SUFFICES ASSUME NEW i \in 1..Len(q) PROVE Index(q[i]) \in 1..Len(nodes) /\ nodes[Index(q[i])] = q[i]
    OBVIOUS
  <2>1. q[i] \in Known
    BY <1>1
  <2>2. PICK k \in 1..Len(nodes) : nodes[k] = q[i]
    BY <1>2, <2>1, KnownAre
  <2> QED BY <2>2, IndexIs
<1> DEFINE h == [i \in 1..Len(q) |-> Index(q[i])]
<1>5. h \in Injection(1..Len(q), 1..Len(nodes))
  <2>1. h \in [1..Len(q) -> 1..Len(nodes)]
    BY <1>4
  <2>2. \A i, j \in 1..Len(q) : h[i] = h[j] => i = j
    BY <1>3, <1>4
  <2> HIDE DEF h
  <2>3. IsInjective(h)
    BY <2>1, <2>2 DEF IsInjective
  <2> QED BY <2>1, <2>3 DEF Injection
<1> HIDE DEF h
<1>6. \A n \in Nat : IsFiniteSet(1..n) /\ Cardinality(1..n) = n
  <2> SUFFICES ASSUME NEW n \in Nat PROVE IsFiniteSet(1..n) /\ Cardinality(1..n) = n
    OBVIOUS
  <2>1. IsFiniteSet(1..n) /\ Cardinality(1..n) = IF 1 > n THEN 0 ELSE n - 1 + 1
    BY FS_Interval
  <2> QED BY <2>1
<1>7. Cardinality(1..Len(q)) <= Cardinality(1..Len(nodes))
  BY <1>2, <1>5, <1>6, FS_Injection
<1> QED BY <1>1, <1>2, <1>6, <1>7

\* A state P of the search in Python, on names, and one of the Rust core's, R, on
\* positions, whose frontier is what P has in the queue behind place c.
Alike(P, R, c) ==
  /\ Len(P.queue) = c + Len(R.queue)
  /\ \A i \in 1..Len(R.queue) : P.queue[c + i] = nodes[R.queue[i]]
  /\ \A i \in DOMAIN nodes : i \in R.seen <=> nodes[i] \in P.seen
  /\ \A i \in R.seen : P.prev[nodes[i]] = nodes[R.prev[i]]

\* Two searches that are alike stay so when both meet the same node,
LEMMA DiscoverAlike ==
  ASSUME EngineInv, NEW P \in SearchStates(Known), NEW R \in SearchStates(DOMAIN nodes), NEW c \in Nat,
         Alike(P, R, c), NEW v \in DOMAIN nodes, NEW w \in DOMAIN nodes
  PROVE  Alike(Discover(P, nodes[v], nodes[w]), Discover(R, v, w), c)
<1>0. /\ nodes \in [DOMAIN nodes -> Known] /\ DOMAIN nodes = 1..Len(nodes)
      /\ \A i, j \in DOMAIN nodes : nodes[i] = nodes[j] => i = j
  <2>1. nodes \in Seq(Nodes)
    BY DEF EngineInv, GraphInv
  <2>2. nodes \in Seq(Known) /\ DOMAIN nodes = 1..Len(nodes)
    BY <2>1, KnownAre
  <2> QED BY <2>2 DEF EngineInv
<1>1. /\ P.queue \in Seq(Known) /\ P.seen \in SUBSET Known /\ P.prev \in [Known -> Known]
      /\ R.queue \in Seq(DOMAIN nodes) /\ R.seen \in SUBSET DOMAIN nodes /\ R.prev \in [DOMAIN nodes -> DOMAIN nodes]
  BY DEF SearchStates
<1>2. /\ Len(P.queue) = c + Len(R.queue)
      /\ \A i \in 1..Len(R.queue) : P.queue[c + i] = nodes[R.queue[i]]
      /\ \A i \in DOMAIN nodes : i \in R.seen <=> nodes[i] \in P.seen
      /\ \A i \in R.seen : P.prev[nodes[i]] = nodes[R.prev[i]]
  BY DEF Alike
<1>3. CASE w \in R.seen
  BY <1>2, <1>3 DEF Discover
<1>4. CASE w \notin R.seen
  <2>1. PICK Q, S : Q = Discover(P, nodes[v], nodes[w]) /\ S = Discover(R, v, w)
    OBVIOUS
  <2>2. /\ Q.queue = Append(P.queue, nodes[w]) /\ Q.seen = P.seen \cup {nodes[w]}
        /\ Q.prev = [P.prev EXCEPT ![nodes[w]] = nodes[v]]
    BY <1>2, <1>4, <2>1 DEF Discover
  <2>3. S.queue = Append(R.queue, w) /\ S.seen = R.seen \cup {w} /\ S.prev = [R.prev EXCEPT ![w] = v]
    BY <1>4, <2>1 DEF Discover
  <2>4. /\ Len(Q.queue) = Len(P.queue) + 1 /\ Q.queue[Len(P.queue) + 1] = nodes[w]
        /\ \A i \in 1..Len(P.queue) : Q.queue[i] = P.queue[i]
    BY <1>0, <1>1, <2>2, OneMore
  <2>5. /\ Len(S.queue) = Len(R.queue) + 1 /\ S.queue[Len(R.queue) + 1] = w /\ Len(R.queue) \in Nat
        /\ \A i \in 1..Len(R.queue) : S.queue[i] = R.queue[i]
        /\ \A i \in 1..(Len(R.queue) + 1) : i \in 1..Len(R.queue) \/ i = Len(R.queue) + 1
    BY <1>1, <2>3, OneMore
  <2>6. Len(Q.queue) = c + Len(S.queue)
    BY <1>2, <2>4, <2>5
  <2>7. ASSUME NEW i \in 1..Len(S.queue) PROVE Q.queue[c + i] = nodes[S.queue[i]]
    <3>1. CASE i \in 1..Len(R.queue)
      <4>1. c + i \in 1..Len(P.queue)
        BY <1>2, <2>5, <3>1
      <4> QED BY <1>2, <2>4, <2>5, <3>1, <4>1
    <3>2. CASE i = Len(R.queue) + 1
      <4>1. c + i = Len(P.queue) + 1
        BY <1>2, <2>5, <3>2
      <4> QED BY <2>4, <2>5, <3>2, <4>1
    <3> QED BY <2>5, <3>1, <3>2
  <2>8. \A i \in DOMAIN nodes : i \in S.seen <=> nodes[i] \in Q.seen
    BY <1>0, <1>2, <2>2, <2>3
  <2>9. ASSUME NEW i \in S.seen PROVE Q.prev[nodes[i]] = nodes[S.prev[i]]
    <3>1. CASE i = w
      BY <1>0, <1>1, <2>2, <2>3, <3>1
    <3>2. CASE i # w
      <4>1. i \in R.seen /\ i \in DOMAIN nodes /\ nodes[i] # nodes[w] /\ nodes[i] \in Known
        BY <1>0, <1>1, <2>3, <2>9, <3>2
      <4> QED BY <1>1, <1>2, <2>2, <2>3, <3>2, <4>1
    <3> QED BY <3>1, <3>2
  <2>10. Alike(Q, S, c)
    BY <2>6, <2>7, <2>8, <2>9 DEF Alike
  <2> QED BY <2>1, <2>10
<1> QED BY <1>3, <1>4

\* and when both look around at the same node.
LEMMA LookAroundAlike ==
  ASSUME EngineInv, NEW P \in SearchStates(Known), NEW R \in SearchStates(DOMAIN nodes), NEW c \in Nat,
         Alike(P, R, c), NEW v \in DOMAIN nodes, NEW near \in Seq(Known), NEW list \in Seq(DOMAIN nodes),
         Len(near) = Len(list), \A k \in 1..Len(list) : near[k] = nodes[list[k]]
  PROVE  Alike(LookAround(P, nodes[v], near), LookAround(R, v, list), c)
<1>0. nodes[v] \in Known /\ Len(list) \in Nat
  <2>1. nodes \in Seq(Nodes)
    BY DEF EngineInv, GraphInv
  <2>2. nodes \in Seq(Known)
    BY <2>1, KnownAre
  <2> QED BY <2>2
<1>1. PICK f : LooksAround(Known, P, nodes[v], near, f)
  BY <1>0, LookAroundSteps
<1>2. PICK g : LooksAround(DOMAIN nodes, R, v, list, g)
  BY LookAroundSteps
<1>3. /\ f \in [0..Len(list) -> SearchStates(Known)] /\ f[0] = P /\ LookAround(P, nodes[v], near) = f[Len(list)]
      /\ \A k \in 1..Len(list) : f[k] = Discover(f[k - 1], nodes[v], nodes[list[k]])
  BY <1>1 DEF LooksAround
<1>4. /\ g \in [0..Len(list) -> SearchStates(DOMAIN nodes)] /\ g[0] = R /\ LookAround(R, v, list) = g[Len(list)]
      /\ \A k \in 1..Len(list) : g[k] = Discover(g[k - 1], v, list[k])
  BY <1>2 DEF LooksAround
<1> DEFINE Good == {k \in 0..Len(list) : Alike(f[k], g[k], c)}
<1>5. 0 \in Good
  BY <1>0, <1>3, <1>4
<1>6. ASSUME NEW k \in 1..Len(list), k - 1 \in Good PROVE k \in Good
  <2>1. k - 1 \in 0..Len(list) /\ k \in 0..Len(list) /\ list[k] \in DOMAIN nodes
    BY <1>0
  <2>2. f[k - 1] \in SearchStates(Known) /\ g[k - 1] \in SearchStates(DOMAIN nodes) /\ Alike(f[k - 1], g[k - 1], c)
    BY <1>3, <1>4, <1>6, <2>1
  <2>3. Alike(Discover(f[k - 1], nodes[v], nodes[list[k]]), Discover(g[k - 1], v, list[k]), c)
    BY <2>1, <2>2, DiscoverAlike
  <2> QED BY <1>3, <1>4, <2>1, <2>3
<1>7. Good \in SUBSET (0..Len(list))
  OBVIOUS
<1> HIDE DEF Good
<1>8. Good = 0..Len(list)
  BY <1>0, <1>5, <1>6, <1>7, EachTurn
<1>9. Len(list) \in Good
  BY <1>0, <1>8
<1> QED BY <1>3, <1>4, <1>9 DEF Good

\* While the Rust core goes through a frontier, Python takes the same nodes from
\* its queue.
LEMMA FrontierAlike ==
  ASSUME EngineInv, NEW s \in Known, NEW f, Searches(s, f), NEW b \in 0..Len(nodes),
         NEW R \in SearchStates(DOMAIN nodes), Alike(f[b], R, b), NEW lists, lists = FromEdges(NativeGraph)
  PROVE  LET c == Len(f[b].queue)
         IN  c \in b..Len(nodes) /\ Alike(f[c], NextFrontier(R, lists), c)
<1>0. /\ f \in [0..Len(nodes) -> SearchStates(Known)] /\ \A k \in 1..Len(nodes) : f[k] = Turn(f[k - 1], k)
      /\ \A k \in 0..Len(nodes) : Tidy(Known, f[k])
      /\ \A k, m \in 0..Len(nodes) : k <= m => Later(f[k], f[m])
  BY SearchKeeps DEF Searches, Searched
<1>1. /\ lists \in [DOMAIN nodes -> Seq(DOMAIN nodes)]
      /\ \A i \in DOMAIN nodes :
           /\ Len(Neighbours(nodes[i])) = Len(lists[i])
           /\ \A k \in 1..Len(lists[i]) : Neighbours(nodes[i])[k] = nodes[lists[i][k]]
  BY ListsAre
<1>2. nodes \in [DOMAIN nodes -> Known] /\ Len(nodes) \in Nat
  <2>1. nodes \in Seq(Nodes)
    BY DEF EngineInv, GraphInv
  <2>2. nodes \in Seq(Known)
    BY <2>1, KnownAre
  <2> QED BY <2>2
<1>3. PICK M \in Nat : M = Len(R.queue)
  BY DEF SearchStates
<1>4. PICK c : c = Len(f[b].queue)
  OBVIOUS
<1>5. /\ c = b + M /\ \A i \in 1..M : f[b].queue[b + i] = nodes[R.queue[i]] /\ R.queue[i] \in DOMAIN nodes
      /\ \A i \in DOMAIN nodes : i \in R.seen <=> nodes[i] \in f[b].seen
      /\ \A i \in R.seen : f[b].prev[nodes[i]] = nodes[R.prev[i]]
  BY <1>3, <1>4 DEF Alike, SearchStates
<1>6. c \in b..Len(nodes) /\ c \in Nat
  <2>1. c <= Len(nodes)
    BY <1>0, <1>4, QueueFits
  <2> QED BY <1>2, <1>3, <1>5, <2>1
<1>7. PICK g : GoesThrough(DOMAIN nodes, R, lists, g)
  BY <1>1, NextFrontierSteps
<1>8. /\ g \in [0..M -> SearchStates(DOMAIN nodes)] /\ g[0] = [R EXCEPT !.queue = <<>>] /\ NextFrontier(R, lists) = g[M]
      /\ \A k \in 1..M : g[k] = LookAround(g[k - 1], R.queue[k], lists[R.queue[k]])
  BY <1>3, <1>7 DEF GoesThrough
<1> DEFINE Good == {j \in 0..M : Alike(f[b + j], g[j], c)}
<1>9. 0 \in Good
  <2>1. PICK S : S = g[0]
    OBVIOUS
  <2>2. S.queue = <<>> /\ S.seen = R.seen /\ S.prev = R.prev
    BY <1>8, <2>1 DEF SearchStates
  <2>3. Len(S.queue) = 0 /\ c + 0 = c /\ b + 0 = b /\ 1..0 = {}
    BY <1>6, <2>2
  <2>4. Alike(f[b], S, c)
    BY <1>4, <1>5, <2>2, <2>3 DEF Alike
  <2> QED BY <1>3, <2>1, <2>3, <2>4
<1>10. ASSUME NEW j \in 1..M, j - 1 \in Good PROVE j \in Good
  <2>1. PICK k \in Nat : k = b + j
    OBVIOUS
  <2>2. k \in 1..Len(nodes) /\ k - 1 \in 0..Len(nodes) /\ k - 1 = b + (j - 1) /\ b <= k - 1 /\ k <= c /\ k \in 1..c
    BY <1>2, <1>5, <1>6, <2>1
  <2>3. j - 1 \in 0..M /\ j \in 0..M
    BY <1>3
  <2>4. PICK P, S : P = f[k - 1] /\ S = g[j - 1]
    OBVIOUS
  <2>5. P \in SearchStates(Known) /\ S \in SearchStates(DOMAIN nodes) /\ Alike(P, S, c)
    BY <1>0, <1>8, <1>10, <2>2, <2>3, <2>4
  <2>6. Later(f[b], P)
    BY <1>0, <2>2, <2>4
  <2>7. c <= Len(P.queue) /\ P.queue[k] = f[b].queue[k] /\ Len(P.queue) \in Nat
    <3>1. Len(P.queue) \in Nat
      BY <2>5 DEF SearchStates
    <3> QED BY <1>4, <2>2, <2>6, <3>1 DEF Later
  <2>8. PICK v \in DOMAIN nodes : v = R.queue[j]
    BY <1>5
  <2>9. P.queue[k] = nodes[v]
    BY <1>5, <2>1, <2>7, <2>8
  <2>10. ~(k > Len(P.queue))
    BY <1>6, <2>2, <2>7
  <2>11. f[k] = LookAround(P, nodes[v], Neighbours(nodes[v]))
    BY <1>0, <2>2, <2>4, <2>9, <2>10 DEF Turn
  <2>12. g[j] = LookAround(S, v, lists[v])
    BY <1>8, <2>4, <2>8
  <2>13. Neighbours(nodes[v]) \in Seq(Known) /\ lists[v] \in Seq(DOMAIN nodes)
    BY <1>1, <1>2, NeighboursAre
  <2>14. Alike(f[k], g[j], c)
    <3>1. PICK near, list : near = Neighbours(nodes[v]) /\ list = lists[v]
      OBVIOUS
    <3>2. near \in Seq(Known) /\ list \in Seq(DOMAIN nodes) /\ Len(near) = Len(list) /\ \A i \in 1..Len(list) : near[i] = nodes[list[i]]
      BY <1>1, <2>13, <3>1
    <3>3. Alike(LookAround(P, nodes[v], near), LookAround(S, v, list), c)
      BY <1>6, <2>5, <3>2, LookAroundAlike
    <3> QED BY <2>11, <2>12, <3>1, <3>3
  <2> QED BY <2>1, <2>3, <2>14
<1>11. Good \in SUBSET (0..M)
  OBVIOUS
<1> HIDE DEF Good
<1>12. Good = 0..M
  BY <1>3, <1>9, <1>10, <1>11, EachTurn
<1>13. M \in Good
  BY <1>3, <1>12
<1>14. Alike(f[b + M], g[M], c)
  BY <1>13 DEF Good
<1> QED BY <1>4, <1>5, <1>6, <1>8, <1>14

\* After h frontiers, the state of the Rust core is the one that Python has
\* after b turns: what is seen is what is within h hops, and the node that met
\* another first is one hop nearer.
AfterHops(s, f, R, h, b) ==
  /\ b \in 0..Len(nodes) /\ Alike(f[b], R, b)
  /\ f[b].seen = Within(s, h)
  /\ \A g \in 1..h : \A w \in Within(s, g) \ {s} : f[b].prev[w] \in Within(s, g - 1) /\ w \in adj[f[b].prev[w]]

\* If that holds after h frontiers, it holds after one more.
LEMMA NextHop ==
  ASSUME EngineInv, NEW s \in Known, NEW f, Searches(s, f), NEW h \in Nat, NEW b,
         NEW R \in SearchStates(DOMAIN nodes), AfterHops(s, f, R, h, b), NEW lists, lists = FromEdges(NativeGraph)
  PROVE  \E c : AfterHops(s, f, NextFrontier(R, lists), h + 1, c)
<1>0. /\ \A k \in 0..Len(nodes) : Searched(s, f[k], k) /\ Tidy(Known, f[k])
      /\ \A k, m \in 0..Len(nodes) : k <= m => Later(f[k], f[m])
      /\ Len(nodes) \in Nat
  <2>1. nodes \in Seq(Nodes)
    BY DEF EngineInv, GraphInv
  <2> QED BY <2>1, SearchKeeps DEF Searched
<1>1. /\ b \in 0..Len(nodes) /\ Alike(f[b], R, b) /\ f[b].seen = Within(s, h)
      /\ \A g \in 1..h : \A w \in Within(s, g) \ {s} : f[b].prev[w] \in Within(s, g - 1) /\ w \in adj[f[b].prev[w]]
  BY DEF AfterHops
<1>2. PICK c : c = Len(f[b].queue)
  OBVIOUS
<1>3. c \in b..Len(nodes) /\ c \in 0..Len(nodes) /\ b <= c /\ Alike(f[c], NextFrontier(R, lists), c)
  <2>1. c \in b..Len(nodes) /\ Alike(f[c], NextFrontier(R, lists), c)
    BY <1>1, <1>2, FrontierAlike
  <2> QED BY <1>0, <1>1, <2>1
<1>4. PICK P, Q : P = f[b] /\ Q = f[c]
  OBVIOUS
<1>5. Later(P, Q) /\ Tidy(Known, P) /\ Tidy(Known, Q) /\ Searched(s, Q, c) /\ Len(Q.queue) \in Nat
  BY <1>0, <1>1, <1>3, <1>4 DEF Tidy, SearchStates
<1>6. /\ c <= Len(Q.queue) /\ \A i \in 1..c : Q.queue[i] = P.queue[i]
      /\ P.seen \subseteq Q.seen /\ \A x \in P.seen : Q.prev[x] = P.prev[x]
      /\ \A x : x \in Within(s, h) <=> \E i \in 1..c : P.queue[i] = x
  BY <1>1, <1>2, <1>4, <1>5 DEF Later, Tidy
<1>7. /\ Q.queue[1] = s /\ s \in Q.seen
      /\ \A i \in 1..Len(Q.queue) : i <= c => adj[Q.queue[i]] \subseteq Q.seen
      /\ \A i \in 2..Len(Q.queue) : \E j \in 1..(i - 1) :
           j <= c /\ Q.prev[Q.queue[i]] = Q.queue[j] /\ Q.queue[i] \in adj[Q.queue[j]]
      /\ \A x : x \in Q.seen <=> \E i \in 1..Len(Q.queue) : Q.queue[i] = x
  BY <1>5 DEF Searched, Tidy
<1>8. ASSUME NEW w \in Q.seen, w # s PROVE Q.prev[w] \in Within(s, h) /\ w \in adj[Q.prev[w]]
  <2>1. PICK i \in 1..Len(Q.queue) : Q.queue[i] = w
    BY <1>7
  <2>2. i # 1
    BY <1>7, <1>8, <2>1
  <2>3. i \in 2..Len(Q.queue)
    BY <2>2
  <2>4. PICK j \in 1..(i - 1) : j <= c /\ Q.prev[w] = Q.queue[j] /\ w \in adj[Q.queue[j]]
    BY <1>7, <2>1, <2>3
  <2>5. j \in 1..c
    BY <1>3, <2>4
  <2> QED BY <1>6, <2>4, <2>5
<1>9. \A w : w \in Within(s, h + 1) <=> w = s \/ \E v \in Within(s, h) : w \in adj[v]
  BY OneHopMore
<1>10. Q.seen = Within(s, h + 1)
  <2>1. ASSUME NEW w \in Q.seen PROVE w \in Within(s, h + 1)
    BY <1>8, <1>9
  <2>2. ASSUME NEW w \in Within(s, h + 1) PROVE w \in Q.seen
    <3>1. CASE w = s
      BY <1>7, <3>1
    <3>2. ASSUME NEW v \in Within(s, h), w \in adj[v] PROVE w \in Q.seen
      <4>1. PICK i \in 1..c : P.queue[i] = v
        BY <1>6
      <4>2. i \in 1..Len(Q.queue) /\ i <= c
        BY <1>3, <1>5, <1>6
      <4> QED BY <1>6, <1>7, <3>2, <4>1, <4>2
    <3> QED BY <1>9, <2>2, <3>1, <3>2
  <2> QED BY <2>1, <2>2
<1>11. ASSUME NEW g \in 1..(h + 1), NEW w \in Within(s, g) \ {s}
       PROVE  Q.prev[w] \in Within(s, g - 1) /\ w \in adj[Q.prev[w]]
  <2>1. CASE g = h + 1
    <3>1. g - 1 = h
      BY <2>1
    <3> QED BY <1>8, <1>10, <1>11, <2>1, <3>1
  <2>2. CASE g # h + 1
    <3>1. g \in 1..h /\ g <= h
      BY <2>2
    <3>2. w \in P.seen
      BY <1>1, <1>4, <1>11, <3>1, WithinMore
    <3> QED BY <1>1, <1>4, <1>6, <1>11, <3>1, <3>2
  <2> QED BY <2>1, <2>2
<1>12. AfterHops(s, f, NextFrontier(R, lists), h + 1, c)
  BY <1>3, <1>4, <1>10, <1>11 DEF AfterHops
<1> QED BY <1>12

\* Hop by hop
LEMMA HopsAre ==
  ASSUME EngineInv, NEW s \in Known, NEW f, Searches(s, f), NEW i \in DOMAIN nodes, nodes[i] = s,
         NEW hops \in Nat, NEW lists, lists = FromEdges(NativeGraph)
  PROVE  /\ Frontiers(i, lists, hops) \in SearchStates(DOMAIN nodes)
         /\ \E b : AfterHops(s, f, Frontiers(i, lists, hops), hops, b)
<1>1. lists \in [DOMAIN nodes -> Seq(DOMAIN nodes)]
  BY ListsAre
<1>2. PICK r : GoesOut(i, lists, hops, r)
  BY <1>1, FrontiersSteps
<1>3. /\ r \in [0..hops -> SearchStates(DOMAIN nodes)] /\ r[0] = Begin(i, DOMAIN nodes)
      /\ \A h \in 1..hops : r[h] = NextFrontier(r[h - 1], lists)
      /\ Frontiers(i, lists, hops) = r[hops]
  BY <1>2 DEF GoesOut
<1> DEFINE Good == {h \in 0..hops : \E b : AfterHops(s, f, r[h], h, b)}
<1>4. 0 \in Good
  <2>1. PICK P, R : P = f[0] /\ R = r[0]
    OBVIOUS
  <2>2. P.queue = <<s>> /\ P.seen = {s} /\ P.prev = [n \in Known |-> s]
    BY <2>1 DEF Searches, Begin
  <2>3. R.queue = <<i>> /\ R.seen = {i} /\ R.prev = [n \in DOMAIN nodes |-> i]
    BY <1>3, <2>1 DEF Begin
  <2>4. \A j \in DOMAIN nodes : nodes[j] = s <=> j = i
    <3>1. DOMAIN nodes = 1..Len(nodes) /\ \A j, k \in 1..Len(nodes) : nodes[j] = nodes[k] => j = k
      BY KnownAre DEF EngineInv, GraphInv
    <3> QED BY <3>1
  <2>5. Len(P.queue) = 0 + Len(R.queue) /\ Len(R.queue) = 1 /\ P.queue[0 + 1] = nodes[R.queue[1]] /\ 1..1 = {1}
    BY <2>2, <2>3
  <2>6. Alike(P, R, 0)
    BY <2>2, <2>3, <2>4, <2>5 DEF Alike
  <2>7. 0 \in 0..Len(nodes) /\ 1..0 = {}
    BY KnownAre DEF EngineInv, GraphInv
  <2>8. AfterHops(s, f, r[0], 0, 0)
    BY <2>1, <2>2, <2>6, <2>7, WithinStarts DEF AfterHops
  <2> QED BY <2>8
<1>5. ASSUME NEW h \in 1..hops, h - 1 \in Good PROVE h \in Good
  <2>1. PICK b : AfterHops(s, f, r[h - 1], h - 1, b)
    BY <1>5
  <2>2. h - 1 \in Nat /\ h - 1 \in 0..hops /\ h - 1 + 1 = h /\ h \in 0..hops
    OBVIOUS
  <2>3. PICK R \in SearchStates(DOMAIN nodes) : R = r[h - 1]
    BY <1>3, <2>2
  <2>4. \E c : AfterHops(s, f, NextFrontier(R, lists), h - 1 + 1, c)
    BY <2>1, <2>2, <2>3, NextHop
  <2> QED BY <1>3, <2>2, <2>3, <2>4
<1>6. Good \in SUBSET (0..hops)
  OBVIOUS
<1> HIDE DEF Good
<1>7. Good = 0..hops
  BY <1>4, <1>5, <1>6, EachTurn
<1>8. hops \in Good /\ hops \in 0..hops
  BY <1>7
<1> QED BY <1>3, <1>8 DEF Good

\* The search sees what can be reached, in fewer hops than there are nodes.
LEMMA SeenIs ==
  ASSUME EngineInv, NEW s \in Known, NEW w
  PROVE  /\ \A h \in Nat : w \in Within(s, h) => w \in Search(s).seen
         /\ w \in Search(s).seen => \E h \in 0..(Len(nodes) - 1) : w \in Within(s, h)
<1>0. nodes \in Seq(Nodes) /\ Len(nodes) \in Nat /\ DOMAIN nodes = 1..Len(nodes)
  BY KnownAre DEF EngineInv, GraphInv
<1>1. PICK f : Searches(s, f)
  BY <1>0, SearchSteps
<1>2. PICK st : st = Search(s)
  OBVIOUS
<1>3. /\ st = f[Len(nodes)] /\ Len(nodes) \in 0..Len(nodes)
      /\ \A k \in 0..Len(nodes) : Later(f[k], st)
      /\ Searched(s, st, Len(nodes))
  <2>1. st = f[Len(nodes)] /\ Len(nodes) \in 0..Len(nodes) /\ \A k \in 0..Len(nodes) : k <= Len(nodes)
    BY <1>0, <1>1, <1>2 DEF Searches
  <2> QED BY <1>1, <2>1, SearchKeeps
<1>4. ASSUME NEW h \in Nat, w \in Within(s, h) PROVE w \in st.seen
  <2>1. PICK i \in DOMAIN nodes : nodes[i] = s
    BY <1>0, KnownAre
  <2>2. PICK b : AfterHops(s, f, Frontiers(i, FromEdges(NativeGraph), h), h, b)
    BY <1>1, <2>1, HopsAre
  <2>3. b \in 0..Len(nodes) /\ w \in f[b].seen
    BY <1>4, <2>2 DEF AfterHops
  <2> QED BY <1>3, <2>3 DEF Later
<1>5. ASSUME w \in st.seen PROVE \E h \in 0..(Len(nodes) - 1) : w \in Within(s, h)
  <2>1. /\ st.queue[1] = s /\ Len(st.queue) \in Nat /\ Len(st.queue) <= Len(nodes)
        /\ \A i \in 2..Len(st.queue) : \E j \in 1..(i - 1) : st.queue[i] \in adj[st.queue[j]]
        /\ \A x : x \in st.seen <=> \E i \in 1..Len(st.queue) : st.queue[i] = x
    <3>1. Tidy(Known, st)
      BY <1>3 DEF Searched
    <3>2. Len(st.queue) <= Len(nodes)
      BY <3>1, QueueFits
    <3> QED BY <1>3, <3>1, <3>2 DEF Searched, Tidy, SearchStates
  <2> DEFINE Bad == {i \in 1..Len(st.queue) : st.queue[i] \notin Within(s, i - 1)}
  <2>2. Bad = {}
    <3> SUFFICES ASSUME Bad # {} PROVE FALSE
      OBVIOUS
    <3>1. Bad \in SUBSET Nat
      OBVIOUS
    <3>2. PICK i \in Bad : \A k \in Bad : i <= k
      <4> HIDE DEF Bad
      <4> QED BY <3>1, LeastNumber
    <3>3. i # 1
      <4>1. s \in Within(s, 0) /\ 1 - 1 = 0
        BY WithinStarts
      <4> QED BY <2>1, <3>2, <4>1
    <3>4. i \in 2..Len(st.queue)
      BY <3>2, <3>3
    <3>5. PICK j \in 1..(i - 1) : st.queue[i] \in adj[st.queue[j]]
      BY <2>1, <3>4
    <3>6. j \in 1..Len(st.queue) /\ ~(i <= j) /\ j - 1 \in Nat /\ j - 1 + 1 = j /\ j <= i - 1 /\ i - 1 \in Int /\ j \in Int
      BY <2>1, <3>4
    <3>7. st.queue[j] \in Within(s, j - 1)
      BY <3>2, <3>6
    <3>8. st.queue[i] \in Within(s, j)
      BY <3>5, <3>6, <3>7, OneHopMore
    <3>9. st.queue[i] \in Within(s, i - 1)
      BY <3>6, <3>8, WithinMore
    <3> QED BY <3>2, <3>9
  <2>3. PICK i \in 1..Len(st.queue) : st.queue[i] = w
    BY <1>5, <2>1
  <2>4. w \in Within(s, i - 1) /\ i - 1 \in 0..(Len(nodes) - 1)
    BY <1>0, <2>1, <2>2, <2>3
  <2> QED BY <2>4
<1> QED BY <1>2, <1>4, <1>5

\* Node w is h hops from s, and no fewer.
Hops(s, w, h) == w \in Within(s, h) /\ w \notin Within(s, h - 1)

\* A node has one distance only.
LEMMA HopsOnce ==
  ASSUME NEW s, NEW w, NEW g \in Int, NEW h \in Int, Hops(s, w, g), Hops(s, w, h)
  PROVE  g = h
<1>1. ~(g <= h - 1) /\ ~(h <= g - 1)
  BY WithinMore DEF Hops
<1> QED BY <1>1

\* The way back, e steps from t: each node is one hop nearer.
TracedTo(s, t, m, p, e) ==
  /\ p \in Seq(Known) /\ Len(p) = e + 1 /\ p[1] = t
  /\ \A i \in 1..(e + 1) : Hops(s, p[i], m - i + 1)
  /\ \A i \in 1..e : p[i] \in adj[p[i + 1]]

\* Who met a node first is one hop nearer, up to m hops.
Nearer(s, prev, m) ==
  \A g \in 1..m : \A w \in Within(s, g) \ {s} : prev[w] \in Within(s, g - 1) /\ w \in adj[prev[w]]

\* A step back comes one hop nearer, until the source is there; then it stays.
LEMMA OneStepBack ==
  ASSUME EngineInv, NEW s \in Known, NEW t, NEW m \in Nat, NEW prev \in [Known -> Known], Nearer(s, prev, m),
         NEW e \in 0..m, NEW p, TracedTo(s, t, m, p, e)
  PROVE  /\ e < m => TracedTo(s, t, m, GoBack(p, prev, s), e + 1)
         /\ e = m => GoBack(p, prev, s) = p
<1>1. /\ p \in Seq(Known) /\ Len(p) = e + 1 /\ p[1] = t
      /\ \A i \in 1..(e + 1) : Hops(s, p[i], m - i + 1)
      /\ \A i \in 1..e : p[i] \in adj[p[i + 1]]
  BY DEF TracedTo
<1>2. PICK x \in Known : x = p[e + 1]
  <2>1. e + 1 \in 1..Len(p)
    BY <1>1
  <2> QED BY <1>1, <2>1
<1>3. Last(p) = x /\ Hops(s, x, m - e)
  <2>1. e + 1 \in 1..(e + 1) /\ m - (e + 1) + 1 = m - e
    OBVIOUS
  <2> QED BY <1>1, <1>2, <2>1 DEF Last
<1>4. ASSUME e = m PROVE GoBack(p, prev, s) = p
  <2>1. m - e = 0
    BY <1>4
  <2>2. x = s
    BY <1>3, <2>1, WithinStarts DEF Hops
  <2> QED BY <1>3, <2>2 DEF GoBack
<1>5. ASSUME e < m PROVE TracedTo(s, t, m, GoBack(p, prev, s), e + 1)
  <2>1. PICK g \in 1..m : g = m - e
    <3>1. m - e \in 1..m
      BY <1>5
    <3> QED BY <3>1
  <2>2. x # s
    <3>1. 0 <= g - 1 /\ g - 1 \in Int /\ 0 \in Int
      OBVIOUS
    <3>2. s \in Within(s, g - 1)
      BY <3>1, WithinStarts, WithinMore
    <3> QED BY <1>3, <2>1, <3>2 DEF Hops
  <2>3. PICK y \in Known : y = prev[x]
    OBVIOUS
  <2>4. y \in Within(s, g - 1) /\ x \in adj[y]
    BY <1>3, <2>1, <2>2, <2>3 DEF Hops, Nearer
  <2>5. Hops(s, y, g - 1)
    <3>1. SUFFICES ASSUME y \in Within(s, g - 1 - 1) PROVE FALSE
      BY <2>4 DEF Hops
    <3>2. CASE g = 1
      <4>1. g - 1 - 1 = -1
        BY <3>2
      <4> QED BY <3>1, <4>1, WithinStarts
    <3>3. CASE g # 1
      <4>1. g - 1 - 1 \in Nat /\ g - 1 - 1 + 1 = g - 1
        BY <3>3
      <4>2. x \in Within(s, g - 1)
        BY <2>4, <3>1, <4>1, OneHopMore
      <4> QED BY <1>3, <2>1, <4>2 DEF Hops
    <3> QED BY <3>2, <3>3
  <2>6. PICK q : q = Append(p, y)
    OBVIOUS
  <2>7. GoBack(p, prev, s) = q
    BY <1>3, <2>2, <2>3, <2>6 DEF GoBack
  <2>8. /\ q \in Seq(Known) /\ Len(q) = e + 1 + 1 /\ q[e + 1 + 1] = y
        /\ \A i \in 1..(e + 1) : q[i] = p[i]
    BY <1>1, <2>6, OneMore
  <2>9. q[1] = t
    <3>1. 1 \in 1..(e + 1)
      OBVIOUS
    <3> QED BY <1>1, <2>8, <3>1
  <2>10. ASSUME NEW i \in 1..(e + 1 + 1) PROVE Hops(s, q[i], m - i + 1)
    <3>1. CASE i = e + 1 + 1
      <4>1. m - i + 1 = g - 1
        BY <2>1, <3>1
      <4> QED BY <2>5, <2>8, <3>1, <4>1
    <3>2. CASE i # e + 1 + 1
      <4>1. i \in 1..(e + 1)
        BY <3>2
      <4> QED BY <1>1, <2>8, <4>1
    <3> QED BY <3>1, <3>2
  <2>11. ASSUME NEW i \in 1..(e + 1) PROVE q[i] \in adj[q[i + 1]]
    <3>1. CASE i = e + 1
      BY <1>2, <2>4, <2>8, <3>1
    <3>2. CASE i # e + 1
      <4>1. i \in 1..e /\ i + 1 \in 1..(e + 1)
        BY <3>2
      <4> QED BY <1>1, <2>8, <4>1
    <3> QED BY <3>1, <3>2
  <2> QED BY <2>7, <2>8, <2>9, <2>10, <2>11 DEF TracedTo
<1> QED BY <1>4, <1>5

\* All steps back: m of them, then no more.
LEMMA TracedBack ==
  ASSUME EngineInv, NEW s \in Known, NEW t \in Known, NEW m \in 0..(Len(nodes) - 1), Hops(s, t, m),
         NEW prev \in [Known -> Known], Nearer(s, prev, m), NEW back, GoesBackTo(Known, prev, s, t, back)
  PROVE  \A k \in 0..Len(nodes) : \E e \in 0..m : TracedTo(s, t, m, back[k], e) /\ (k = Len(nodes) => e = m)
<1>0. Len(nodes) \in Nat /\ m \in Nat /\ m < Len(nodes)
  BY KnownAre DEF EngineInv, GraphInv
<1>1. back[0] = <<t>> /\ \A k \in 1..Len(nodes) : back[k] = GoBack(back[k - 1], prev, s)
  BY DEF GoesBackTo
<1> DEFINE At(k, e) == TracedTo(s, t, m, back[k], e) /\ (k <= m => e = k) /\ (k > m => e = m)
           Good == {k \in 0..Len(nodes) : \E e \in 0..m : At(k, e)}
<1>2. 0 \in Good
  <2>1. back[0] \in Seq(Known) /\ Len(back[0]) = 0 + 1 /\ back[0][1] = t /\ m - 1 + 1 = m
    BY <1>0, <1>1
  <2>2. 1..(0 + 1) = {1} /\ 1..0 = {}
    OBVIOUS
  <2>3. TracedTo(s, t, m, back[0], 0)
    BY <2>1, <2>2 DEF TracedTo
  <2>4. 0 \in 0..m /\ 0 <= m /\ ~(0 > m) /\ 0 \in 0..Len(nodes)
    BY <1>0
  <2> QED BY <2>3, <2>4
<1>3. ASSUME NEW k \in 1..Len(nodes), k - 1 \in Good PROVE k \in Good
  <2>1. PICK e \in 0..m : At(k - 1, e)
    BY <1>3
  <2>2. /\ e < m => TracedTo(s, t, m, back[k], e + 1)
        /\ e = m => TracedTo(s, t, m, back[k], e)
    <3>1. PICK p : p = back[k - 1]
      OBVIOUS
    <3>2. TracedTo(s, t, m, p, e) /\ back[k] = GoBack(p, prev, s)
      BY <1>1, <2>1, <3>1
    <3>3. (e < m => TracedTo(s, t, m, GoBack(p, prev, s), e + 1)) /\ (e = m => GoBack(p, prev, s) = p)
      BY <1>0, <3>2, OneStepBack
    <3> QED BY <3>2, <3>3
  <2>3. CASE e < m
    <3>1. e = k - 1 /\ e + 1 = k /\ e + 1 \in 0..m /\ k <= m /\ ~(k > m)
      BY <1>0, <2>1, <2>3
    <3>2. At(k, e + 1)
      BY <2>2, <2>3, <3>1
    <3> QED BY <3>1, <3>2
  <2>4. CASE ~(e < m)
    <3>1. e = m /\ k > m /\ ~(k <= m)
      BY <1>0, <2>1, <2>4
    <3>2. At(k, e)
      BY <2>2, <3>1
    <3> QED BY <3>2
  <2> QED BY <2>3, <2>4
<1>4. Good \in SUBSET (0..Len(nodes))
  OBVIOUS
<1> HIDE DEF Good
<1>5. Good = 0..Len(nodes)
  BY <1>0, <1>2, <1>3, <1>4, EachTurn
<1>6. \A k \in 0..Len(nodes) : \E e \in 0..m : At(k, e)
  BY <1>5 DEF Good
<1>7. Len(nodes) > m
  BY <1>0
<1> QED BY <1>6, <1>7

\* What is reversed is read from the end.
LEMMA ReverseIs ==
  ASSUME NEW A, NEW p \in Seq(A)
  PROVE  /\ Reverse(p) \in Seq(A) /\ Len(Reverse(p)) = Len(p)
         /\ \A i \in 1..Len(p) : Reverse(p)[i] = p[(Len(p) - i) + 1] /\ (Len(p) - i) + 1 \in 1..Len(p)
<1>1. Len(p) \in Nat /\ \A i \in 1..Len(p) : (Len(p) - i) + 1 \in 1..Len(p)
  OBVIOUS
<1>2. \A i \in 1..Len(p) : p[(Len(p) - i) + 1] \in A
  BY <1>1
<1> QED BY <1>1, <1>2 DEF Reverse

\* The way back, the other way round, is a path.
LEMMA TracedIsPath ==
  ASSUME EngineInv, NEW s \in Known, NEW t, NEW m \in Nat, NEW p, TracedTo(s, t, m, p, m)
  PROVE  IsPath(Reverse(p), s, t) /\ Len(Reverse(p)) = m + 1
<1>1. /\ p \in Seq(Known) /\ Len(p) = m + 1 /\ p[1] = t
      /\ \A i \in 1..(m + 1) : Hops(s, p[i], m - i + 1)
      /\ \A i \in 1..m : p[i] \in adj[p[i + 1]]
  BY DEF TracedTo
<1>2. PICK r : r = Reverse(p)
  OBVIOUS
<1>3. r \in Seq(Known) /\ Len(r) = m + 1 /\ \A i \in 1..(m + 1) : r[i] = p[m + 2 - i]
  <2>1. \A i \in 1..(m + 1) : (Len(p) - i) + 1 = m + 2 - i
    BY <1>1
  <2>2. r \in Seq(Known) /\ Len(r) = m + 1 /\ \A i \in 1..(m + 1) : r[i] = p[(Len(p) - i) + 1]
    BY <1>1, <1>2, ReverseIs
  <2> QED BY <2>1, <2>2
<1>4. \A i \in 1..(m + 1) : Hops(s, r[i], i - 1)
  <2>1. \A i \in 1..(m + 1) : m + 2 - i \in 1..(m + 1) /\ m - (m + 2 - i) + 1 = i - 1
    OBVIOUS
  <2>2. \A i \in 1..(m + 1) : Hops(s, p[m + 2 - i], m - (m + 2 - i) + 1)
    BY <1>1, <2>1
  <2> QED BY <1>3, <2>1, <2>2
<1>5. r[1] = s
  <2>1. 1 \in 1..(m + 1) /\ 1 - 1 = 0
    OBVIOUS
  <2>2. Hops(s, r[1], 0)
    BY <1>4, <2>1
  <2> QED BY <2>2, WithinStarts DEF Hops
<1>6. r[m + 1] = t
  <2>1. m + 1 \in 1..(m + 1) /\ m + 2 - (m + 1) = 1
    OBVIOUS
  <2> QED BY <1>1, <1>3, <2>1
<1>7. ASSUME NEW i \in 1..(m + 1), NEW j \in 1..(m + 1), r[i] = r[j] PROVE i = j
  <2>1. i - 1 \in Int /\ j - 1 \in Int
    OBVIOUS
  <2>2. i - 1 = j - 1
    BY <1>4, <1>7, <2>1, HopsOnce
  <2> QED BY <2>2
<1>8. ASSUME NEW i \in 1..m PROVE r[i + 1] \in adj[r[i]]
  <2>1. /\ i \in 1..(m + 1) /\ i + 1 \in 1..(m + 1) /\ m + 2 - (i + 1) = m + 1 - i
        /\ m + 1 - i \in 1..m /\ m + 1 - i + 1 = m + 2 - i
    OBVIOUS
  <2>2. r[i] = p[m + 1 - i + 1] /\ r[i + 1] = p[m + 1 - i]
    BY <1>3, <2>1
  <2> QED BY <1>1, <2>1, <2>2
<1>9. r \in Seq(Nodes) /\ \A i \in 1..(m + 1) : r[i] \in Known
  <2>1. Known \subseteq Nodes
    BY KnownAre DEF EngineInv, GraphInv
  <2>2. \A i \in 1..(m + 1) : r[i] \in Known
    BY <1>3
  <2> QED BY <1>3, <2>1, <2>2
<1>10. Len(r) > 0 /\ Len(r) - 1 = m
  BY <1>3
<1> QED BY <1>2, <1>3, <1>5, <1>6, <1>7, <1>8, <1>9, <1>10 DEF IsPath

\* The way back on names and the one on positions
PrevAlike(W, prev, prevR) == \A a \in DOMAIN nodes : nodes[a] \in W => prev[nodes[a]] = nodes[prevR[a]]
Renamed(u, v) == u = [k \in DOMAIN v |-> nodes[v[k]]]
StaysIn(W, back) == \A k \in 0..Len(nodes) : \A x \in 1..Len(back[k]) : back[k][x] \in W

\* If both searches remember the same for the nodes on the way back, both trace the same path.
LEMMA TracesAlike ==
  ASSUME EngineInv, NEW i \in DOMAIN nodes, NEW j \in DOMAIN nodes, NEW W,
         NEW prev \in [Known -> Known], NEW prevR \in [DOMAIN nodes -> DOMAIN nodes],
         PrevAlike(W, prev, prevR),
         NEW back, GoesBackTo(Known, prev, nodes[i], nodes[j], back),
         NEW backR, GoesBackTo(DOMAIN nodes, prevR, i, j, backR),
         StaysIn(W, back)
  PROVE  Renamed(Trace(prev, nodes[i], nodes[j]), Trace(prevR, i, j))
<1>0. /\ nodes \in [DOMAIN nodes -> Known] /\ Len(nodes) \in Nat
      /\ \A a, c \in DOMAIN nodes : nodes[a] = nodes[c] => a = c
  <2>1. nodes \in Seq(Nodes)
    BY DEF EngineInv, GraphInv
  <2>2. nodes \in Seq(Known) /\ DOMAIN nodes = 1..Len(nodes)
    BY <2>1, KnownAre
  <2> QED BY <2>2 DEF EngineInv
<1>1. /\ back \in [0..Len(nodes) -> {p \in Seq(Known) : p # <<>>}] /\ back[0] = <<nodes[j]>>
      /\ \A k \in 1..Len(nodes) : back[k] = GoBack(back[k - 1], prev, nodes[i])
      /\ Trace(prev, nodes[i], nodes[j]) = Reverse(back[Len(nodes)])
  BY DEF GoesBackTo
<1>2. /\ backR \in [0..Len(nodes) -> {p \in Seq(DOMAIN nodes) : p # <<>>}] /\ backR[0] = <<j>>
      /\ \A k \in 1..Len(nodes) : backR[k] = GoBack(backR[k - 1], prevR, i)
      /\ Trace(prevR, i, j) = Reverse(backR[Len(nodes)])
  BY DEF GoesBackTo
<1> DEFINE Matched(p, q) == Len(p) = Len(q) /\ \A x \in 1..Len(q) : p[x] = nodes[q[x]]
           Good == {k \in 0..Len(nodes) : Matched(back[k], backR[k])}
<1>3. 0 \in Good
  <2>1. Matched(<<nodes[j]>>, <<j>>)
    OBVIOUS
  <2>2. 0 \in 0..Len(nodes)
    BY <1>0
  <2>3. Matched(back[0], backR[0])
    <3> HIDE DEF Matched
    <3> QED BY <1>1, <1>2, <2>1
  <2> HIDE DEF Matched
  <2> QED BY <2>2, <2>3
<1>4. ASSUME NEW k \in 1..Len(nodes), k - 1 \in Good PROVE k \in Good
  <2>1. k - 1 \in 0..Len(nodes) /\ k \in 0..Len(nodes)
    BY <1>0
  <2>2. PICK p, q : p = back[k - 1] /\ q = backR[k - 1]
    OBVIOUS
  <2>3. p \in Seq(Known) /\ p # <<>> /\ q \in Seq(DOMAIN nodes) /\ q # <<>> /\ Matched(p, q)
    BY <1>1, <1>2, <1>4, <2>1, <2>2
  <2>4. Len(q) \in 1..Len(q) /\ Len(q) \in Nat /\ Len(p) = Len(q)
    BY <2>3
  <2>5. PICK a \in DOMAIN nodes : a = Last(q)
    BY <2>3, <2>4 DEF Last
  <2>6. Last(p) = nodes[a] /\ nodes[a] \in W
    <3>1. p[Len(q)] = nodes[q[Len(q)]] /\ p[Len(q)] \in W
      BY <2>1, <2>2, <2>3, <2>4 DEF StaysIn
    <3> QED BY <2>4, <2>5, <3>1 DEF Last
  <2>7. CASE a = i
    <3>1. back[k] = p /\ backR[k] = q
      BY <1>1, <1>2, <2>2, <2>5, <2>6, <2>7 DEF GoBack
    <3> QED BY <2>1, <2>3, <3>1
  <2>8. CASE a # i
    <3>1. nodes[a] # nodes[i]
      BY <1>0, <2>8
    <3>2. back[k] = Append(p, prev[nodes[a]]) /\ backR[k] = Append(q, prevR[a])
      BY <1>1, <1>2, <2>2, <2>5, <2>6, <2>8, <3>1 DEF GoBack
    <3>3. PICK y \in Known, z \in DOMAIN nodes : y = prev[nodes[a]] /\ z = prevR[a] /\ y = nodes[z]
      BY <1>0, <2>6 DEF PrevAlike
    <3>4. Matched(Append(p, y), Append(q, z))
      <4>1. Len(Append(p, y)) = Len(p) + 1 /\ Append(p, y)[Len(p) + 1] = y /\ \A x \in 1..Len(p) : Append(p, y)[x] = p[x]
        BY <2>3, OneMore
      <4>2. /\ Len(Append(q, z)) = Len(q) + 1 /\ Append(q, z)[Len(q) + 1] = z /\ \A x \in 1..Len(q) : Append(q, z)[x] = q[x]
            /\ \A x \in 1..(Len(q) + 1) : x \in 1..Len(q) \/ x = Len(q) + 1
        BY <2>3, OneMore
      <4> QED BY <2>3, <2>4, <3>3, <4>1, <4>2
    <3> QED BY <2>1, <3>2, <3>3, <3>4
  <2> QED BY <2>7, <2>8
<1>5. Good \in SUBSET (0..Len(nodes))
  OBVIOUS
<1> HIDE DEF Good
<1>6. Good = 0..Len(nodes)
  BY <1>0, <1>3, <1>4, <1>5, EachTurn
<1>7. Len(nodes) \in Good /\ Len(nodes) \in 0..Len(nodes)
  BY <1>0, <1>6
<1>8. PICK p \in Seq(Known), q \in Seq(DOMAIN nodes) : p = back[Len(nodes)] /\ q = backR[Len(nodes)]
  BY <1>1, <1>2, <1>7
<1>9. Len(p) = Len(q) /\ \A x \in 1..Len(q) : p[x] = nodes[q[x]]
  BY <1>7, <1>8 DEF Good
<1>10. /\ Reverse(p) \in Seq(Known) /\ Len(Reverse(p)) = Len(p)
       /\ Reverse(q) \in Seq(DOMAIN nodes) /\ Len(Reverse(q)) = Len(q) /\ DOMAIN Reverse(q) = 1..Len(q)
       /\ \A x \in 1..Len(p) : Reverse(p)[x] = p[(Len(p) - x) + 1] /\ (Len(p) - x) + 1 \in 1..Len(p)
       /\ \A x \in 1..Len(q) : Reverse(q)[x] = q[(Len(q) - x) + 1]
  <2>1. /\ Reverse(p) \in Seq(Known) /\ Len(Reverse(p)) = Len(p)
        /\ \A x \in 1..Len(p) : Reverse(p)[x] = p[(Len(p) - x) + 1] /\ (Len(p) - x) + 1 \in 1..Len(p)
    BY ReverseIs
  <2>2. /\ Reverse(q) \in Seq(DOMAIN nodes) /\ Len(Reverse(q)) = Len(q)
        /\ \A x \in 1..Len(q) : Reverse(q)[x] = q[(Len(q) - x) + 1]
    BY ReverseIs
  <2>3. DOMAIN Reverse(q) = 1..Len(q)
    BY <2>2
  <2> QED BY <2>1, <2>2, <2>3
<1>11. PICK u, v : u = Reverse(p) /\ v = Reverse(q)
  OBVIOUS
<1>12. u \in Seq(Known) /\ DOMAIN v = 1..Len(q) /\ Len(u) = Len(q) /\ \A x \in 1..Len(q) : u[x] = nodes[v[x]]
  <2>1. u \in Seq(Known) /\ DOMAIN v = 1..Len(q) /\ Len(u) = Len(q)
    BY <1>9, <1>10, <1>11
  <2>2. ASSUME NEW x \in 1..Len(q) PROVE u[x] = nodes[v[x]]
    <3>1. PICK y : y = (Len(q) - x) + 1
      OBVIOUS
    <3>2. u[x] = p[y] /\ v[x] = q[y] /\ y \in 1..Len(q)
      BY <1>9, <1>10, <1>11, <3>1
    <3> QED BY <1>9, <3>2
  <2> QED BY <2>1, <2>2
<1>13. u = [k \in DOMAIN v |-> nodes[v[k]]]
  <2>1. u = [k \in 1..Len(q) |-> u[k]]
    BY <1>12
  <2> QED BY <1>12, <2>1
<1> QED BY <1>1, <1>2, <1>8, <1>11, <1>13 DEF Renamed

\* A path of Paths is a way.
LEMMA PathIsWay ==
  ASSUME EngineInv, NEW s \in Known, NEW t, NEW q, IsPath(q, s, t)
  PROVE  Len(q) - 1 \in Nat /\ t \in Within(s, Len(q) - 1)
<1>1. /\ q \in Seq(Nodes) /\ Len(q) > 0 /\ q[1] = s /\ q[Len(q)] = t
      /\ \A i \in 1..Len(q) : q[i] \in Known
      /\ \A i \in 1..(Len(q) - 1) : q[i + 1] \in adj[q[i]]
  BY DEF IsPath
<1>2. Len(q) \in Nat /\ q \in Seq(Known) /\ Len(q) \in 1..Len(q)
  BY <1>1
<1>3. t \in Known /\ Walk(q, s, t)
  BY <1>1, <1>2 DEF Walk
<1>4. Len(q) - 1 \in Nat /\ Len(q) <= Len(q) - 1 + 1
  BY <1>1, <1>2
<1> QED BY <1>2, <1>3, <1>4 DEF Within

\* The neighbours of a position in the Rust core are those of its node.
LEMMA NearIs ==
  ASSUME EngineInv, NEW lists, lists = FromEdges(NativeGraph), NEW v \in DOMAIN nodes
  PROVE  /\ ToSet(lists[v]) \subseteq DOMAIN nodes
         /\ \A w \in DOMAIN nodes : w \in ToSet(lists[v]) <=> w # v /\ nodes[w] \in adj[nodes[v]]
<1>0. /\ DOMAIN nodes = 1..Len(nodes) /\ \A i, j \in DOMAIN nodes : nodes[i] = nodes[j] => i = j
      /\ nodes[v] \in Known
  BY KnownAre DEF EngineInv, GraphInv
<1>1. PICK near \in Seq(DOMAIN nodes) : near = lists[v]
  BY ListsAre
<1>2. PICK full : full = Neighbours(nodes[v])
  OBVIOUS
<1>3. Len(full) = Len(near) /\ \A k \in 1..Len(near) : full[k] = nodes[near[k]] /\ near[k] \in DOMAIN nodes
  BY <1>1, <1>2, ListsAre
<1>4. \A w : w \in ToSet(near) <=> \E k \in 1..Len(near) : near[k] = w
  BY <1>1 DEF ToSet
<1>5. \A y : (\E k \in 1..Len(full) : full[k] = y) <=> y \in adj[nodes[v]] \ {nodes[v]}
  BY <1>0, <1>2, NeighboursAre
<1>6. ASSUME NEW w \in DOMAIN nodes PROVE w \in ToSet(near) <=> w # v /\ nodes[w] \in adj[nodes[v]]
  <2>1. w \in ToSet(near) <=> \E k \in 1..Len(full) : full[k] = nodes[w]
    BY <1>0, <1>3, <1>4
  <2> QED BY <1>0, <1>5, <2>1
<1> QED BY <1>1, <1>3, <1>4, <1>6

\* The heap has an entry for each node that is reached and not settled.
OnHeap(dist, settled) == {[cost |-> dist[w], node |-> w] : w \in DOMAIN dist \ settled}

\* What is known of the distances after some turns: each is that of some way, none
\* on the heap is below a settled one, and the neighbours of what is settled are
\* at most one hop farther.
Measured(s, i, lists, dist, settled) ==
  /\ DOMAIN dist \in SUBSET DOMAIN nodes /\ dist \in [DOMAIN dist -> Nat] /\ settled \subseteq DOMAIN dist
  /\ i \in DOMAIN dist /\ dist[i] = 0
  /\ \A e \in DOMAIN dist \ settled, v \in DOMAIN dist :
       dist[v] <= dist[e] + 1 /\ (v \in settled => dist[v] <= dist[e])
  /\ \A w \in DOMAIN dist : nodes[w] \in Within(s, dist[w])
  /\ \A v \in settled : \A w \in ToSet(lists[v]) : w \in DOMAIN dist /\ dist[w] <= dist[v] + 1

HopStates(s, i, lists) ==
  {st \in [dist : UNION {[S -> Nat] : S \in SUBSET DOMAIN nodes}, settled : SUBSET DOMAIN nodes,
           heap : SUBSET [cost : Nat, node : DOMAIN nodes]] :
     st.heap = OnHeap(st.dist, st.settled) /\ Measured(s, i, lists, st.dist, st.settled)}

\* What is measured, with its heap, is a state.
LEMMA HopStateIs ==
  ASSUME NEW s, NEW i, NEW lists, NEW dist, NEW settled, Measured(s, i, lists, dist, settled)
  PROVE  [dist |-> dist, settled |-> settled, heap |-> OnHeap(dist, settled)] \in HopStates(s, i, lists)
<1>1. /\ DOMAIN dist \in SUBSET DOMAIN nodes /\ dist \in [DOMAIN dist -> Nat] /\ settled \in SUBSET DOMAIN nodes
  BY DEF Measured
<1>2. dist \in UNION {[S -> Nat] : S \in SUBSET DOMAIN nodes}
  BY <1>1
<1>3. OnHeap(dist, settled) \in SUBSET [cost : Nat, node : DOMAIN nodes]
  BY <1>1 DEF OnHeap
<1>4. PICK H : H = OnHeap(dist, settled)
  OBVIOUS
<1> QED BY <1>1, <1>2, <1>3, <1>4 DEF HopStates

\* The entry that is popped is that of a node which is not settled, none of them nearer.
LEMMA CheapestIs ==
  ASSUME NEW D \in SUBSET Nat, NEW dist \in [D -> Nat], NEW settled, OnHeap(dist, settled) # {}
  PROVE  \E x \in D \ settled : /\ Cheapest(OnHeap(dist, settled)) = [cost |-> dist[x], node |-> x]
                                /\ \A y \in D \ settled : dist[x] <= dist[y]
<1> DEFINE U == D \ settled
           S == {dist[w] : w \in U}
<1>1. DOMAIN dist = D /\ \A w \in U : dist[w] \in Nat /\ w \in Nat
  OBVIOUS
<1>2. PICK heap : heap = OnHeap(dist, settled)
  OBVIOUS
<1>3. \A f : f \in heap <=> \E w \in U : f = [cost |-> dist[w], node |-> w]
  BY <1>1, <1>2 DEF OnHeap
<1>4. S \in SUBSET Nat /\ S # {}
  BY <1>1, <1>2, <1>3
<1>5. PICK m \in S : \A k \in S : m <= k
  <2> HIDE DEF S
  <2> QED BY <1>4, LeastNumber
<1> DEFINE T == {w \in U : dist[w] = m}
<1>6. T \in SUBSET Nat /\ T # {}
  BY <1>1, <1>5
<1>7. PICK x \in T : \A y \in T : x <= y
  <2> HIDE DEF T
  <2> QED BY <1>6, LeastNumber
<1>8. x \in U /\ dist[x] = m /\ \A y \in U : m <= dist[y] /\ (dist[y] = m => x <= y)
  BY <1>5, <1>7
<1>9. \A y \in U : dist[x] < dist[y] \/ (dist[x] = dist[y] /\ x <= y)
  BY <1>1, <1>8
<1>10. \A f \in heap : dist[x] < f.cost \/ (dist[x] = f.cost /\ x <= f.node)
  BY <1>3, <1>9
<1>11. PICK e : e = [cost |-> dist[x], node |-> x]
  OBVIOUS
<1>12. e \in heap /\ \A f \in heap : e.cost < f.cost \/ (e.cost = f.cost /\ e.node <= f.node)
  BY <1>3, <1>8, <1>10, <1>11
<1>13. PICK c : c = Cheapest(heap)
  OBVIOUS
<1>14. c \in heap /\ \A f \in heap : c.cost < f.cost \/ (c.cost = f.cost /\ c.node <= f.node)
  BY <1>12, <1>13 DEF Cheapest
<1>15. PICK y \in U : c = [cost |-> dist[y], node |-> y]
  BY <1>3, <1>14
<1>16. dist[y] <= dist[x] /\ (dist[y] = dist[x] => y <= x)
  <2>1. dist[y] < dist[x] \/ (dist[y] = dist[x] /\ y <= x)
    BY <1>11, <1>12, <1>14, <1>15
  <2> QED BY <1>1, <1>8, <2>1
<1>17. y = x
  BY <1>1, <1>8, <1>9, <1>16
<1> HIDE DEF U
<1>18. \A z \in U : dist[x] <= dist[z]
  BY <1>8
<1> QED BY <1>2, <1>8, <1>13, <1>15, <1>17, <1>18 DEF U

\* A turn settles the node nearest to the source, and what was known stays true.
LEMMA PopKeeps ==
  ASSUME EngineInv, NEW s \in Known, NEW i \in DOMAIN nodes, NEW lists, lists = FromEdges(NativeGraph),
         NEW st \in HopStates(s, i, lists)
  PROVE  /\ PopHeap(st, lists) \in HopStates(s, i, lists)
         /\ st.heap # {} => \E x \in DOMAIN nodes \ st.settled : PopHeap(st, lists).settled = st.settled \cup {x}
<1>1. CASE st.heap = {}
  BY <1>1 DEF PopHeap
<1>2. CASE st.heap # {}
  <2>1. PICK dist, settled : dist = st.dist /\ settled = st.settled
    OBVIOUS
  <2>2. PICK D \in SUBSET DOMAIN nodes : D = DOMAIN dist
    BY <2>1 DEF HopStates, Measured
  <2>3. /\ st.heap = OnHeap(dist, settled) /\ dist \in [D -> Nat] /\ settled \subseteq D
        /\ i \in D /\ dist[i] = 0
        /\ \A e \in D \ settled, v \in D : dist[v] <= dist[e] + 1 /\ (v \in settled => dist[v] <= dist[e])
        /\ \A w \in D : nodes[w] \in Within(s, dist[w])
        /\ \A v \in settled : \A w \in ToSet(lists[v]) : w \in D /\ dist[w] <= dist[v] + 1
    BY <2>1, <2>2 DEF HopStates, Measured
  <2>4. D \in SUBSET Nat /\ \A w \in D : dist[w] \in Nat /\ nodes[w] \in Known
    <3>1. DOMAIN nodes = 1..Len(nodes) /\ \A w \in DOMAIN nodes : nodes[w] \in Known
      BY KnownAre DEF EngineInv, GraphInv
    <3> QED BY <2>3, <3>1
  <2>5. PICK x \in D \ settled : /\ Cheapest(OnHeap(dist, settled)) = [cost |-> dist[x], node |-> x]
                                 /\ \A y \in D \ settled : dist[x] <= dist[y]
    BY <1>2, <2>3, <2>4, CheapestIs
  <2>6. PICK near : near = ToSet(lists[x]) \ D
    OBVIOUS
  <2>7. PICK c \in Nat : c = dist[x] + 1
    BY <2>4
  <2>8. {w \in ToSet(lists[x]) \ settled : w \in D => c < dist[w]} = near
    <3>1. \A w \in D : ~(c < dist[w])
      BY <2>3, <2>4, <2>5, <2>7
    <3> QED BY <2>3, <2>6, <3>1
  <2>9. PICK dist2 : dist2 = [w \in D \cup near |-> IF w \in near THEN c ELSE dist[w]]
    OBVIOUS
  <2>10. PICK settled2 : settled2 = settled \cup {x}
    OBVIOUS
  <2>11. /\ DOMAIN dist2 = D \cup near /\ \A w \in D : dist2[w] = dist[w] /\ w \notin near
         /\ \A w \in near : dist2[w] = c
    BY <2>6, <2>9
  <2>12. near \in SUBSET DOMAIN nodes /\ \A w \in near : w # x /\ nodes[w] \in adj[nodes[x]]
    BY <2>6, NearIs
  <2>13. Measured(s, i, lists, dist2, settled2)
    <3>1. DOMAIN dist2 \in SUBSET DOMAIN nodes /\ dist2 \in [DOMAIN dist2 -> Nat] /\ settled2 \subseteq DOMAIN dist2
      BY <2>2, <2>3, <2>4, <2>7, <2>9, <2>10, <2>11, <2>12
    <3>2. i \in DOMAIN dist2 /\ dist2[i] = 0
      BY <2>3, <2>11
    <3>3. ASSUME NEW e \in DOMAIN dist2 \ settled2, NEW v \in DOMAIN dist2
          PROVE  dist2[v] <= dist2[e] + 1 /\ (v \in settled2 => dist2[v] <= dist2[e])
      <4>1. dist2[e] \in Nat /\ dist[x] <= dist2[e]
        <5>1. CASE e \in D
          BY <2>4, <2>5, <2>10, <2>11, <3>3, <5>1
        <5>2. CASE e \in near
          BY <2>4, <2>5, <2>7, <2>11, <5>2
        <5> QED BY <2>11, <3>3, <5>1, <5>2
      <4>2. dist2[v] \in Nat /\ dist2[v] <= dist[x] + 1
        <5>1. CASE v \in D
          BY <2>3, <2>4, <2>5, <2>11, <5>1
        <5>2. CASE v \in near
          BY <2>7, <2>11, <5>2
        <5> QED BY <2>11, <3>3, <5>1, <5>2
      <4>3. ASSUME v \in settled2 PROVE dist2[v] <= dist[x]
        BY <2>3, <2>4, <2>5, <2>10, <2>11, <4>3
      <4> QED BY <2>4, <2>5, <4>1, <4>2, <4>3
    <3>4. ASSUME NEW w \in DOMAIN dist2 PROVE nodes[w] \in Within(s, dist2[w])
      <4>1. CASE w \in D
        BY <2>3, <2>11, <4>1
      <4>2. CASE w \in near
        <5>1. nodes[x] \in Within(s, dist[x]) /\ nodes[w] \in adj[nodes[x]]
          BY <2>3, <2>5, <2>12, <4>2
        <5>2. nodes[w] \in Within(s, dist[x] + 1)
          BY <2>4, <2>5, <5>1, OneHopMore
        <5> QED BY <2>7, <2>11, <4>2, <5>2
      <4> QED BY <2>11, <3>4, <4>1, <4>2
    <3>5. ASSUME NEW v \in settled2, NEW w \in ToSet(lists[v]) PROVE w \in DOMAIN dist2 /\ dist2[w] <= dist2[v] + 1
      <4>1. CASE v \in settled
        BY <2>3, <2>11, <3>5, <4>1
      <4>2. CASE v = x
        <5>1. CASE w \in D
          BY <2>3, <2>5, <2>11, <4>2, <5>1
        <5>2. CASE w \notin D
          <6>1. w \in near
            BY <2>6, <3>5, <4>2, <5>2
          <6> QED BY <2>5, <2>7, <2>11, <4>2, <6>1
        <5> QED BY <5>1, <5>2
      <4> QED BY <2>10, <3>5, <4>1, <4>2
    <3> QED BY <3>1, <3>2, <3>3, <3>4, <3>5 DEF Measured
  <2>14. PICK e, heap : e = [cost |-> dist[x], node |-> x] /\ heap = st.heap
    OBVIOUS
  <2>15. (heap \ {e}) \cup {[cost |-> c, node |-> w] : w \in near} = OnHeap(dist2, settled2)
    <3>1. \A f : f \in heap \ {e} <=> \E w \in D \ settled2 : f = [cost |-> dist2[w], node |-> w]
      <4>1. \A f : f \in heap <=> \E w \in D \ settled : f = [cost |-> dist[w], node |-> w]
        BY <2>2, <2>3, <2>14 DEF OnHeap
      <4>2. ASSUME NEW f \in heap, f # e PROVE \E w \in D \ settled2 : f = [cost |-> dist2[w], node |-> w]
        <5>1. PICK w \in D \ settled : f = [cost |-> dist[w], node |-> w]
          BY <4>1, <4>2
        <5>2. w # x
          BY <2>14, <4>2, <5>1
        <5> QED BY <2>10, <2>11, <5>1, <5>2
      <4>3. ASSUME NEW w \in D \ settled2, NEW f, f = [cost |-> dist2[w], node |-> w] PROVE f \in heap /\ f # e
        <5>1. w \in D \ settled /\ w # x /\ dist2[w] = dist[w]
          BY <2>10, <2>11
        <5>2. f.node = w /\ e.node = x
          BY <2>14, <4>3
        <5> QED BY <4>1, <4>3, <5>1, <5>2
      <4> QED BY <4>2, <4>3
    <3>2. \A f : f \in {[cost |-> c, node |-> w] : w \in near} <=> \E w \in near : f = [cost |-> dist2[w], node |-> w]
      BY <2>11
    <3>3. \A w : w \in DOMAIN dist2 \ settled2 <=> w \in D \ settled2 \/ w \in near
      BY <2>3, <2>5, <2>10, <2>11
    <3>4. \A f : f \in OnHeap(dist2, settled2) <=> \E w \in DOMAIN dist2 \ settled2 : f = [cost |-> dist2[w], node |-> w]
      BY DEF OnHeap
    <3>5. \A f : f \in (heap \ {e}) \cup {[cost |-> c, node |-> w] : w \in near} <=> f \in OnHeap(dist2, settled2)
      BY <3>1, <3>2, <3>3, <3>4
    <3> QED BY <3>5
  <2>16. Cheapest(st.heap) = e /\ e.node = x /\ e.cost = dist[x] /\ x \notin settled
    BY <2>3, <2>5, <2>14
  <2>17. PopHeap(st, lists) = AfterPop(st, e, lists)
    BY <1>2, <2>1, <2>16 DEF PopHeap
  <2>18. AfterPop(st, e, lists) = [dist |-> dist2, settled |-> settled2, heap |-> OnHeap(dist2, settled2)]
    <3>1. e.cost + 1 = c
      BY <2>7, <2>16
    <3>2. AfterPop(st, e, lists) =
            LET new == {w \in ToSet(lists[x]) \ settled : w \in D => c < dist[w]}
            IN  [dist |-> [w \in D \cup new |-> IF w \in new THEN c ELSE dist[w]],
                 settled |-> settled \cup {x},
                 heap |-> (heap \ {e}) \cup {[cost |-> c, node |-> w] : w \in new}]
      BY <2>1, <2>2, <2>14, <2>16, <3>1, Zenon DEF AfterPop
    <3> QED BY <2>8, <2>9, <2>10, <2>15, <3>2, Zenon
  <2> QED BY <2>1, <2>5, <2>10, <2>13, <2>17, <2>18, HopStateIs
<1> QED BY <1>1, <1>2

\* The state after each turn
Measures(s, i, lists, f) ==
  /\ f \in [0..Len(nodes) -> HopStates(s, i, lists)] /\ f[0].settled = {}
  /\ \A k \in 1..Len(nodes) : f[k] = PopHeap(f[k - 1], lists)
  /\ HopsFrom(i, lists) = f[Len(nodes)].dist

\* the Rust core measures the distances that way.
LEMMA MeasureSteps ==
  ASSUME EngineInv, NEW s \in Known, NEW i \in DOMAIN nodes, nodes[i] = s, NEW lists, lists = FromEdges(NativeGraph)
  PROVE  \E f : Measures(s, i, lists, f)
<1> DEFINE n == Len(nodes)
           States == HopStates(s, i, lists)
           s0 == [dist |-> [w \in {i} |-> 0], settled |-> {}, heap |-> {[cost |-> 0, node |-> i]}]
           Step(k, x) == PopHeap(x, lists)
           F == [p \in (1..n) \X States |-> Step(p[1], p[2])]
           Body(f) == [k \in 0..n |-> IF k = 0 THEN s0 ELSE Step(k, f[k - 1])]
<1>1. n \in Nat /\ s0 \in States /\ \A k \in 1..n, x \in States : Step(k, x) \in States
  <2>1. n \in Nat
    BY KnownAre DEF EngineInv, GraphInv
  <2>2. PICK dist : dist = [w \in {i} |-> 0]
    OBVIOUS
  <2>3. DOMAIN dist = {i} /\ dist[i] = 0 /\ dist \in [{i} -> Nat] /\ s \in Within(s, 0)
    BY <2>2, WithinStarts
  <2>4. Measured(s, i, lists, dist, {})
    BY <2>3 DEF Measured
  <2>5. OnHeap(dist, {}) = {[cost |-> 0, node |-> i]}
    BY <2>3 DEF OnHeap
  <2>6. s0 \in States
    BY <2>2, <2>4, <2>5, HopStateIs
  <2>7. \A x \in HopStates(s, i, lists) : PopHeap(x, lists) \in HopStates(s, i, lists)
    BY PopKeeps
  <2> QED BY <2>1, <2>6, <2>7
<1>2. s0.settled = {}
  OBVIOUS
<1> HIDE DEF n, s0, States, Step
<1>3. F \in [(1..n) \X States -> States] /\ \A k \in 1..n, x \in States : F[<<k, x>>] = Step(k, x)
  <2>1. \A p \in (1..n) \X States : Step(p[1], p[2]) \in States
    BY <1>1
  <2> QED BY <2>1
<1> HIDE DEF F
<1>4. PICK g : Run(States, n, s0, F, g)
  BY <1>1, <1>3, LoopRuns
<1>5. \A k \in 1..n : k - 1 \in 0..n /\ k \in 0..n
  BY <1>1
<1>6. g = Body(g)
  <2>1. g \in [0..n -> States] /\ g[0] = s0 /\ \A k \in 1..n : g[k] = Step(k, g[k - 1])
    BY <1>3, <1>4, <1>5 DEF Run
  <2>2. g = [k \in 0..n |-> g[k]]
    BY <2>1
  <2>3. \A k \in 0..n : k = 0 \/ k \in 1..n
    BY <1>1
  <2>4. \A k \in 0..n : g[k] = Body(g)[k]
    BY <2>1, <2>3
  <2> QED BY <2>2, <2>4
<1> DEFINE f == CHOOSE h : h = Body(h)
<1>7. f = Body(f)
  BY <1>6
<1>8. HopsFrom(i, lists) = f[n].dist
  BY DEF HopsFrom, n, s0, Step
<1> HIDE DEF f
<1>9. f = [k \in 0..n |-> f[k]] /\ f[0] = s0 /\ \A k \in 1..n : f[k] = Step(k, f[k - 1])
  <2>1. \A k \in 0..n : f[k] = Body(f)[k]
    BY <1>7
  <2>2. 0 \in 0..n /\ \A k \in 1..n : k \in 0..n /\ k # 0
    BY <1>1
  <2> QED BY <1>7, <2>1, <2>2
<1>10. Run(States, n, s0, F, f)
  BY <1>1, <1>3, <1>9, RunOf
<1>11. f \in [0..n -> States]
  BY <1>10 DEF Run
<1>12. Measures(s, i, lists, f)
  BY <1>2, <1>8, <1>9, <1>11 DEF Measures, n, States, Step
<1> QED BY <1>12

\* The Rust core knows the distance of what can be reached: that of a way to it,
\* and of no longer one than any.
LEMMA DistancesAre ==
  ASSUME EngineInv, NEW s \in Known, NEW i \in DOMAIN nodes, nodes[i] = s, NEW lists, lists = FromEdges(NativeGraph)
  PROVE  LET dist == HopsFrom(i, lists)
         IN  /\ \A w \in DOMAIN dist : w \in DOMAIN nodes /\ dist[w] \in Nat /\ nodes[w] \in Within(s, dist[w])
             /\ \A h \in Nat : \A w \in DOMAIN nodes : nodes[w] \in Within(s, h) => w \in DOMAIN dist /\ dist[w] <= h
<1>0. /\ Len(nodes) \in Nat /\ DOMAIN nodes = 1..Len(nodes)
      /\ \A a, b \in DOMAIN nodes : nodes[a] = nodes[b] => a = b
      /\ \A n : n \in Known <=> \E w \in DOMAIN nodes : nodes[w] = n
  BY KnownAre DEF EngineInv, GraphInv
<1>1. PICK f : Measures(s, i, lists, f)
  BY MeasureSteps
<1>2. /\ \A k \in 0..Len(nodes) : f[k] \in HopStates(s, i, lists)
      /\ f[0].settled = {} /\ HopsFrom(i, lists) = f[Len(nodes)].dist
      /\ \A k \in 1..Len(nodes) : f[k] = PopHeap(f[k - 1], lists)
  BY <1>1 DEF Measures
<1>3. PICK st \in HopStates(s, i, lists) : st = f[Len(nodes)] /\ HopsFrom(i, lists) = st.dist
  BY <1>0, <1>2
<1>4. IsFiniteSet(DOMAIN nodes) /\ Cardinality(DOMAIN nodes) = Len(nodes)
  <2>1. IsFiniteSet(1..Len(nodes)) /\ Cardinality(1..Len(nodes)) = IF 1 > Len(nodes) THEN 0 ELSE Len(nodes) - 1 + 1
    BY <1>0, FS_Interval
  <2> QED BY <1>0, <2>1
<1>5. st.heap = {}
  <2> DEFINE Good == {k \in 0..Len(nodes) : f[k].heap = {} \/ Cardinality(f[k].settled) = k}
  <2>1. \A k \in 0..Len(nodes) : f[k].settled \subseteq DOMAIN nodes /\ IsFiniteSet(f[k].settled)
    <3>1. \A k \in 0..Len(nodes) : f[k].settled \subseteq DOMAIN nodes
      BY <1>2 DEF HopStates
    <3> SUFFICES ASSUME NEW k \in 0..Len(nodes) PROVE f[k].settled \subseteq DOMAIN nodes /\ IsFiniteSet(f[k].settled)
      OBVIOUS
    <3>2. PICK S : S = f[k].settled
      OBVIOUS
    <3>3. S \in SUBSET (DOMAIN nodes)
      BY <3>1, <3>2
    <3>4. IsFiniteSet(S)
      BY <1>4, <3>3, FS_Subset
    <3> QED BY <3>2, <3>3, <3>4
  <2>2. 0 \in Good
    <3>1. Cardinality(f[0].settled) = 0
      BY <1>2, FS_EmptySet, Zenon
    <3> QED BY <1>0, <3>1
  <2>3. ASSUME NEW k \in 1..Len(nodes), k - 1 \in Good PROVE k \in Good
    <3>1. k - 1 \in 0..Len(nodes) /\ k \in 0..Len(nodes) /\ f[k] = PopHeap(f[k - 1], lists)
      BY <1>0, <1>2
    <3>2. CASE f[k - 1].heap = {}
      BY <3>1, <3>2 DEF PopHeap
    <3>3. CASE f[k - 1].heap # {}
      <4>1. PICK p \in HopStates(s, i, lists) : p = f[k - 1]
        BY <1>2, <3>1
      <4>2. PICK x \in DOMAIN nodes \ p.settled : PopHeap(p, lists).settled = p.settled \cup {x}
        BY <3>3, <4>1, PopKeeps
      <4>3. Cardinality(p.settled \cup {x}) = Cardinality(p.settled) + 1 /\ Cardinality(p.settled) = k - 1
        BY <2>1, <2>3, <3>1, <3>3, <4>1, <4>2, FS_AddElement
      <4>4. Cardinality(f[k].settled) = k
        BY <3>1, <4>1, <4>2, <4>3
      <4> QED BY <3>1, <4>4
    <3> QED BY <3>2, <3>3
  <2>4. Good \in SUBSET (0..Len(nodes))
    OBVIOUS
  <2> HIDE DEF Good
  <2>5. Good = 0..Len(nodes)
    BY <1>0, <2>2, <2>3, <2>4, EachTurn
  <2>6. Len(nodes) \in Good /\ Len(nodes) \in 0..Len(nodes)
    BY <1>0, <2>5
  <2>7. CASE Cardinality(st.settled) = Len(nodes)
    <3>1. st.settled = DOMAIN nodes
      BY <1>3, <1>4, <2>1, <2>6, <2>7, FS_Subset
    <3>2. DOMAIN st.dist \ st.settled = {}
      BY <3>1 DEF HopStates, Measured
    <3> QED BY <3>2 DEF HopStates, OnHeap
  <2> QED BY <1>3, <2>6, <2>7 DEF Good
<1>6. PICK dist : dist = st.dist
  OBVIOUS
<1>7. /\ DOMAIN dist \subseteq DOMAIN nodes /\ i \in DOMAIN dist /\ dist[i] = 0
      /\ \A w \in DOMAIN dist : dist[w] \in Nat /\ nodes[w] \in Within(s, dist[w])
      /\ \A v \in st.settled : \A w \in ToSet(lists[v]) : w \in DOMAIN dist /\ dist[w] <= dist[v] + 1
  BY <1>6 DEF HopStates, Measured
<1>8. DOMAIN dist = st.settled
  <2>1. OnHeap(dist, st.settled) = {} /\ st.settled \subseteq DOMAIN dist
    BY <1>5, <1>6 DEF HopStates, Measured
  <2> QED BY <2>1 DEF OnHeap
<1>9. ASSUME NEW H \in Nat PROVE \A w \in DOMAIN nodes : nodes[w] \in Within(s, H) => w \in DOMAIN dist /\ dist[w] <= H
  <2> DEFINE Good == {h \in 0..H : \A w \in DOMAIN nodes : nodes[w] \in Within(s, h) => w \in DOMAIN dist /\ dist[w] <= h}
  <2>1. 0 \in Good
    <3>1. ASSUME NEW w \in DOMAIN nodes, nodes[w] \in Within(s, 0) PROVE w = i
      BY <1>0, <3>1, WithinStarts
    <3> QED BY <1>7, <3>1
  <2>2. ASSUME NEW h \in 1..H, h - 1 \in Good PROVE h \in Good
    <3>1. h - 1 \in Nat /\ h - 1 + 1 = h /\ h \in 0..H
      OBVIOUS
    <3>2. ASSUME NEW w \in DOMAIN nodes, nodes[w] \in Within(s, h) PROVE w \in DOMAIN dist /\ dist[w] <= h
      <4>1. nodes[w] = s \/ \E n \in Within(s, h - 1) : nodes[w] \in adj[n]
        <5>1. \A x : x \in Within(s, h - 1 + 1) <=> x = s \/ \E n \in Within(s, h - 1) : x \in adj[n]
          BY <3>1, OneHopMore
        <5> QED BY <3>1, <3>2, <5>1
      <4>2. CASE nodes[w] = s
        <5>1. w = i
          BY <1>0, <4>2
        <5> QED BY <1>7, <3>1, <5>1
      <4>3. ASSUME NEW n \in Within(s, h - 1), nodes[w] \in adj[n] PROVE w \in DOMAIN dist /\ dist[w] <= h
        <5>1. PICK v \in DOMAIN nodes : nodes[v] = n
          BY <1>0 DEF Within
        <5>2. v \in DOMAIN dist /\ dist[v] <= h - 1 /\ dist[v] \in Nat
          BY <1>7, <2>2, <4>3, <5>1
        <5>3. CASE w = v
          BY <3>1, <5>2, <5>3
        <5>4. CASE w # v
          <6>1. w \in ToSet(lists[v])
            BY <4>3, <5>1, <5>4, NearIs
          <6>2. w \in DOMAIN dist /\ dist[w] <= dist[v] + 1 /\ dist[w] \in Nat
            BY <1>7, <1>8, <5>2, <6>1
          <6> QED BY <5>2, <6>2
        <5> QED BY <5>3, <5>4
      <4> QED BY <4>1, <4>2, <4>3
    <3> QED BY <3>1, <3>2
  <2>3. Good \in SUBSET (0..H)
    OBVIOUS
  <2> HIDE DEF Good
  <2>4. Good = 0..H
    BY <2>1, <2>2, <2>3, EachTurn
  <2>5. H \in Good
    BY <2>4
  <2> QED BY <2>5 DEF Good
<1> QED BY <1>3, <1>6, <1>7, <1>9

\* The path that both engines give
LEMMA PathFound ==
  ASSUME EngineInv, NEW s \in Known, NEW t \in Known, t \in Search(s).seen
  PROVE  LET path == ShortestPathPython(s, t)
         IN  /\ IsPath(path, s, t) /\ path = ShortestPathRust(s, t)
             /\ \A q : IsPath(q, s, t) => Len(path) <= Len(q)
<1>0. nodes \in Seq(Nodes) /\ Len(nodes) \in Nat /\ DOMAIN nodes = 1..Len(nodes)
  BY KnownAre DEF EngineInv, GraphInv
<1>1. PICK m \in 0..(Len(nodes) - 1) : t \in Within(s, m) /\ \A h \in Nat : t \in Within(s, h) => m <= h
  <2> DEFINE S == {h \in Nat : t \in Within(s, h)}
  <2>1. PICK g \in 0..(Len(nodes) - 1) : t \in Within(s, g)
    BY SeenIs
  <2>2. g \in S /\ S \in SUBSET Nat
    BY <2>1
  <2>3. PICK m \in S : \A k \in S : m <= k
    <3> HIDE DEF S
    <3> QED BY <2>2, LeastNumber
  <2>4. m <= g /\ m \in Nat
    BY <2>2, <2>3
  <2>5. m \in 0..(Len(nodes) - 1)
    BY <1>0, <2>4
  <2> QED BY <2>3, <2>5
<1>2. m \in Nat /\ Hops(s, t, m)
  <2>1. CASE m = 0
    BY <1>1, <2>1, WithinStarts DEF Hops
  <2>2. CASE m # 0
    <3>1. m - 1 \in Nat /\ ~(m <= m - 1)
      BY <1>1, <2>2
    <3> QED BY <1>1, <3>1 DEF Hops
  <2> QED BY <1>1, <2>1, <2>2
<1>3. PICK i \in DOMAIN nodes, j \in DOMAIN nodes : nodes[i] = s /\ nodes[j] = t /\ Index(s) = i /\ Index(t) = j
  BY <1>0, KnownAre, IndexIs
<1>4. PICK f : Searches(s, f)
  BY <1>0, SearchSteps
<1>5. PICK lists : lists = FromEdges(NativeGraph)
  OBVIOUS
<1>6. PICK R \in SearchStates(DOMAIN nodes) : R = Frontiers(i, lists, m)
  BY <1>2, <1>3, <1>4, <1>5, HopsAre
<1>7. PICK b : AfterHops(s, f, R, m, b)
  BY <1>2, <1>3, <1>4, <1>5, <1>6, HopsAre
<1>8. PICK st : st = Search(s)
  OBVIOUS
<1>9. PICK P : P = f[b]
  OBVIOUS
<1>10. st \in SearchStates(Known) /\ Later(P, st)
  <2>1. st = f[Len(nodes)] /\ Len(nodes) \in 0..Len(nodes) /\ b \in 0..Len(nodes) /\ b <= Len(nodes)
    BY <1>0, <1>4, <1>7, <1>8 DEF Searches, AfterHops
  <2>2. f \in [0..Len(nodes) -> SearchStates(Known)]
    BY <1>4 DEF Searches
  <2> QED BY <1>4, <1>9, <2>1, <2>2, SearchKeeps
<1>11. /\ Alike(P, R, b) /\ P.seen = Within(s, m)
       /\ \A g \in 1..m : \A w \in Within(s, g) \ {s} : P.prev[w] \in Within(s, g - 1) /\ w \in adj[P.prev[w]]
  BY <1>7, <1>9 DEF AfterHops
<1>12. \A x \in Within(s, m) : st.prev[x] = P.prev[x]
  BY <1>10, <1>11 DEF Later
<1>13. st.prev \in [Known -> Known] /\ R.prev \in [DOMAIN nodes -> DOMAIN nodes]
  BY <1>6, <1>10 DEF SearchStates
<1>14. Nearer(s, st.prev, m)
  <2> SUFFICES ASSUME NEW g \in 1..m, NEW w \in Within(s, g) \ {s}
               PROVE  st.prev[w] \in Within(s, g - 1) /\ w \in adj[st.prev[w]]
    BY DEF Nearer
  <2>1. w \in Within(s, m)
    BY <1>2, WithinMore
  <2> QED BY <1>11, <1>12, <2>1
<1>15. PICK back : GoesBackTo(Known, st.prev, s, t, back)
  BY <1>0, <1>13, GoBackSteps
<1>16. PICK backR : GoesBackTo(DOMAIN nodes, R.prev, i, j, backR)
  BY <1>0, <1>13, GoBackSteps
<1>17. \A k \in 0..Len(nodes) : \E e \in 0..m : TracedTo(s, t, m, back[k], e) /\ (k = Len(nodes) => e = m)
  BY <1>1, <1>2, <1>13, <1>14, <1>15, TracedBack
<1>18. PICK path : path = ShortestPathPython(s, t)
  OBVIOUS
<1>19. path = Trace(st.prev, s, t)
  BY <1>8, <1>18 DEF ShortestPathPython
<1>20. IsPath(path, s, t) /\ Len(path) = m + 1
  <2>1. TracedTo(s, t, m, back[Len(nodes)], m)
    <3>1. Len(nodes) \in 0..Len(nodes)
      BY <1>0
    <3> QED BY <1>17, <3>1
  <2>2. path = Reverse(back[Len(nodes)])
    BY <1>15, <1>19 DEF GoesBackTo
  <2> QED BY <1>2, <2>1, <2>2, TracedIsPath
<1>21. path = ShortestPathRust(s, t)
  <2>1. \A k \in 0..Len(nodes) : \A x \in 1..Len(back[k]) : back[k][x] \in Within(s, m)
    <3> SUFFICES ASSUME NEW k \in 0..Len(nodes), NEW x \in 1..Len(back[k]) PROVE back[k][x] \in Within(s, m)
      OBVIOUS
    <3>1. PICK e \in 0..m : TracedTo(s, t, m, back[k], e)
      BY <1>17
    <3>2. x \in 1..(e + 1) /\ m - x + 1 <= m /\ m - x + 1 \in Int
      BY <1>2, <3>1 DEF TracedTo
    <3>3. back[k][x] \in Within(s, m - x + 1)
      BY <3>1, <3>2 DEF TracedTo, Hops
    <3> QED BY <1>2, <3>2, <3>3, WithinMore
  <2>2. \A a \in DOMAIN nodes : nodes[a] \in Within(s, m) => st.prev[nodes[a]] = nodes[R.prev[a]]
    BY <1>11, <1>12 DEF Alike
  <2>3. PICK W, prev, prevR : W = Within(s, m) /\ prev = st.prev /\ prevR = R.prev
    OBVIOUS
  <2>4. PICK u : u = Trace(prevR, i, j)
    OBVIOUS
  <2>5. Trace(prev, nodes[i], nodes[j]) = [k \in DOMAIN u |-> nodes[u[k]]]
    <3>1. /\ prev \in [Known -> Known] /\ prevR \in [DOMAIN nodes -> DOMAIN nodes]
          /\ PrevAlike(W, prev, prevR)
      BY <1>13, <2>2, <2>3 DEF PrevAlike
    <3>2. GoesBackTo(Known, prev, nodes[i], nodes[j], back) /\ GoesBackTo(DOMAIN nodes, prevR, i, j, backR)
      BY <1>3, <1>15, <1>16, <2>3
    <3>3. StaysIn(W, back)
      BY <2>1, <2>3 DEF StaysIn
    <3>4. Renamed(Trace(prev, nodes[i], nodes[j]), Trace(prevR, i, j))
      BY <3>1, <3>2, <3>3, TracesAlike
    <3> QED BY <2>4, <3>4 DEF Renamed
  <2>6. ShortestPathRust(s, t) = [k \in DOMAIN u |-> nodes[u[k]]]
    <3>1. PICK dist : dist = HopsFrom(i, lists)
      OBVIOUS
    <3>2. /\ \A w \in DOMAIN dist : dist[w] \in Nat /\ nodes[w] \in Within(s, dist[w])
          /\ j \in DOMAIN dist /\ dist[j] <= m
      BY <1>1, <1>2, <1>3, <1>5, <3>1, DistancesAre
    <3>3. m <= dist[j] /\ dist[j] \in Nat
      BY <1>1, <1>3, <3>2
    <3>4. dist[j] = m
      BY <1>2, <3>2, <3>3
    <3> QED BY <1>3, <1>5, <1>6, <2>3, <2>4, <3>1, <3>2, <3>4 DEF ShortestPathRust
  <2> QED BY <1>3, <1>19, <2>3, <2>5, <2>6
<1>22. ASSUME NEW q, IsPath(q, s, t) PROVE Len(path) <= Len(q)
  <2>1. Len(q) - 1 \in Nat /\ m <= Len(q) - 1
    BY <1>1, <1>22, PathIsWay
  <2>2. Len(q) \in Nat
    BY <1>22 DEF IsPath
  <2> QED BY <1>2, <1>20, <2>1, <2>2
<1> QED BY <1>18, <1>20, <1>21, <1>22

\* The Rust core gives no path to what the search in Python does not see.
LEMMA NoPathFound ==
  ASSUME EngineInv, NEW s \in Known, NEW t \in Known, t \notin Search(s).seen
  PROVE  ShortestPathRust(s, t) = <<>>
<1>1. PICK i \in DOMAIN nodes, j \in DOMAIN nodes : nodes[i] = s /\ nodes[j] = t /\ Index(s) = i /\ Index(t) = j
  BY KnownAre, IndexIs DEF EngineInv, GraphInv
<1>2. PICK lists, dist : lists = FromEdges(NativeGraph) /\ dist = HopsFrom(i, lists)
  OBVIOUS
<1>3. \A w \in DOMAIN dist : dist[w] \in Nat /\ nodes[w] \in Within(s, dist[w])
  BY <1>1, <1>2, DistancesAre
<1>4. j \notin DOMAIN dist
  BY <1>1, <1>3, SeenIs
<1> QED BY <1>1, <1>2, <1>4 DEF ShortestPathRust

\* There is a path to what the search sees.
LEMMA SeenIsReached ==
  ASSUME EngineInv, NEW s \in Known, NEW t \in Known
  PROVE  t \in Search(s).seen <=> From(s, t, Paths) # {}
<1>1. From(s, t, Paths) = PathsOf(s, t)
  BY DEF PathsOf
<1>2. ASSUME t \in Search(s).seen PROVE From(s, t, Paths) # {}
  <2>1. IsPath(ShortestPathPython(s, t), s, t)
    BY <1>2, PathFound
  <2>2. ShortestPathPython(s, t) \in PathsOf(s, t)
    BY <2>1, PathIs
  <2> QED BY <1>1, <2>2
<1>3. ASSUME NEW q \in From(s, t, Paths) PROVE t \in Search(s).seen
  <2>1. IsPath(q, s, t)
    BY <1>1, <1>3, PathIs
  <2>2. Len(q) - 1 \in Nat /\ t \in Within(s, Len(q) - 1)
    BY <2>1, PathIsWay
  <2> QED BY <2>2, SeenIs
<1> QED BY <1>2, <1>3

\* No way leads out of a set that has the neighbours of its members.
LEMMA StaysInside ==
  ASSUME EngineInv, NEW s \in Known, NEW C, s \in C, \A v \in C : adj[v] \subseteq C, NEW t \in Search(s).seen
  PROVE  t \in C
<1> DEFINE Bad == {h \in Nat : ~(Within(s, h) \subseteq C)}
<1>1. Bad = {}
  <2> SUFFICES ASSUME Bad # {} PROVE FALSE
    OBVIOUS
  <2>1. Bad \in SUBSET Nat
    OBVIOUS
  <2>2. PICK h \in Bad : \A k \in Bad : h <= k
    <3> HIDE DEF Bad
    <3> QED BY <2>1, LeastNumber
  <2>3. h # 0
    BY <2>2, WithinStarts
  <2>4. h - 1 \in Nat /\ ~(h <= h - 1) /\ h - 1 + 1 = h
    BY <2>2, <2>3
  <2>5. Within(s, h - 1) \subseteq C
    BY <2>2, <2>4
  <2>6. \A w : w \in Within(s, h) <=> w = s \/ \E v \in Within(s, h - 1) : w \in adj[v]
    <3>1. \A w : w \in Within(s, h - 1 + 1) <=> w = s \/ \E v \in Within(s, h - 1) : w \in adj[v]
      BY <2>4, OneHopMore
    <3> QED BY <2>4, <3>1
  <2>7. Within(s, h) \subseteq C
    BY <2>5, <2>6
  <2> QED BY <2>2, <2>7
<1>2. PICK h \in 0..(Len(nodes) - 1) : t \in Within(s, h)
  BY SeenIs
<1> QED BY <1>1, <1>2

\* What the search from s sees has itself the same search.
LEMMA SameSeen ==
  ASSUME EngineInv, NEW s \in Known, NEW t \in Known, t \in Search(s).seen
  PROVE  Search(t).seen = Search(s).seen
<1>0. /\ \A n \in Known : Search(n).seen \subseteq Known /\ n \in Search(n).seen
      /\ \A n, v \in Known : v \in Search(n).seen => adj[v] \subseteq Search(n).seen
      /\ \A v, w \in Known : w \in adj[v] <=> v \in adj[w]
      /\ \A v \in Known : adj[v] \subseteq Known
  <2>0. nodes \in Seq(Nodes) /\ Known \subseteq Nodes
    BY KnownAre DEF EngineInv, GraphInv
  <2>1. ASSUME NEW n \in Known PROVE Search(n).seen \subseteq Known /\ n \in Search(n).seen
    <3>1. Search(n).seen \subseteq Known
      BY <2>0, SearchSteps DEF SearchStates
    <3>2. n \in Within(n, 0)
      BY WithinStarts
    <3> QED BY <3>1, <3>2, SeenIs
  <2>2. ASSUME NEW n \in Known, NEW v \in Search(n).seen, NEW w \in adj[v] PROVE w \in Search(n).seen
    <3>1. PICK h \in 0..(Len(nodes) - 1) : v \in Within(n, h)
      BY SeenIs
    <3>2. h \in Nat /\ h + 1 \in Nat
      OBVIOUS
    <3>3. w \in Within(n, h + 1)
      BY <3>1, <3>2, OneHopMore
    <3> QED BY <3>2, <3>3, SeenIs
  <2>3. \A v, w \in Known : w \in adj[v] <=> v \in adj[w]
    <3> SUFFICES ASSUME NEW v \in Known, NEW w \in Known PROVE w \in adj[v] <=> v \in adj[w]
      OBVIOUS
    <3>1. v \in Nodes /\ w \in Nodes
      BY <2>0
    <3>2. /\ w \in adj[v] <=> <<v, w>> \in edges \/ <<w, v>> \in edges
          /\ v \in adj[w] <=> <<w, v>> \in edges \/ <<v, w>> \in edges
      BY <3>1 DEF EngineInv
    <3> QED BY <3>2
  <2>4. \A v \in Known : adj[v] \subseteq Known
    BY <2>0 DEF EngineInv, GraphInv
  <2> QED BY <2>1, <2>2, <2>3, <2>4
<1>1. ASSUME NEW a \in Known, NEW b \in Known, b \in Search(a).seen PROVE Search(b).seen \subseteq Search(a).seen
  <2>1. PICK C : C = Search(a).seen
    OBVIOUS
  <2>2. b \in C /\ \A v \in C : adj[v] \subseteq C
    BY <1>0, <1>1, <2>1
  <2>3. \A x \in Search(b).seen : x \in C
    BY <2>2, StaysInside
  <2> QED BY <2>1, <2>3
<1>2. s \in Search(t).seen
  <2> SUFFICES ASSUME s \notin Search(t).seen PROVE FALSE
    OBVIOUS
  <2>1. PICK C : C = Known \ Search(t).seen
    OBVIOUS
  <2>2. ASSUME NEW v \in C, NEW w \in adj[v] PROVE w \in C
    <3>1. v \in Known /\ w \in Known /\ v \in adj[w] /\ v \notin Search(t).seen
      BY <1>0, <2>1, <2>2
    <3>2. w \notin Search(t).seen
      BY <1>0, <3>1
    <3> QED BY <2>1, <3>1, <3>2
  <2>3. s \in C /\ \A v \in C : adj[v] \subseteq C
    BY <2>1, <2>2
  <2>4. t \in C
    BY <2>3, StaysInside
  <2> QED BY <1>0, <2>1, <2>4
<1> QED BY <1>1, <1>2

\* The components are what the searches from all nodes see, though only some are made.
LEMMA ComponentsAre == ASSUME EngineInv PROVE Components = {Search(s).seen : s \in Known}
<1>0. /\ nodes \in Seq(Nodes) /\ Len(nodes) \in Nat
      /\ \A n : n \in Known <=> \E i \in 1..Len(nodes) : nodes[i] = n
  BY KnownAre DEF EngineInv, GraphInv
<1>1. PICK f : Collects(f)
  BY <1>0, ComponentSteps
<1>2. /\ f[0] = {} /\ Components = f[Len(nodes)]
      /\ \A k \in 1..Len(nodes) :
           f[k] = IF nodes[k] \in UNION f[k - 1] THEN f[k - 1] ELSE f[k - 1] \cup {Search(nodes[k]).seen}
  BY <1>1 DEF Collects
<1> DEFINE Good == {k \in 0..Len(nodes) : \A c : c \in f[k] <=> \E i \in 1..k : c = Search(nodes[i]).seen}
<1>3. 0 \in Good
  BY <1>0, <1>2
<1>4. ASSUME NEW k \in 1..Len(nodes), k - 1 \in Good PROVE k \in Good
  <2>1. k \in 0..Len(nodes) /\ \A c : c \in f[k - 1] <=> \E i \in 1..(k - 1) : c = Search(nodes[i]).seen
    BY <1>0, <1>4
  <2>2. /\ \A i \in 1..k : i \in 1..(k - 1) \/ i = k
        /\ k \in 1..k /\ \A i \in 1..(k - 1) : i \in 1..k /\ i \in 1..Len(nodes)
    BY <1>0
  <2>3. CASE nodes[k] \in UNION f[k - 1]
    <3>1. f[k] = f[k - 1]
      BY <1>2, <2>3
    <3>2. PICK i \in 1..(k - 1) : nodes[k] \in Search(nodes[i]).seen
      BY <2>1, <2>3
    <3>3. nodes[i] \in Known /\ nodes[k] \in Known
      BY <1>0, <2>2
    <3>4. Search(nodes[k]).seen = Search(nodes[i]).seen
      BY <3>2, <3>3, SameSeen
    <3> QED BY <2>1, <2>2, <3>1, <3>4
  <2>4. CASE ~(nodes[k] \in UNION f[k - 1])
    <3>1. f[k] = f[k - 1] \cup {Search(nodes[k]).seen}
      BY <1>2, <2>4
    <3> QED BY <2>1, <2>2, <3>1
  <2> QED BY <2>3, <2>4
<1>5. Good \in SUBSET (0..Len(nodes))
  OBVIOUS
<1> HIDE DEF Good
<1>6. Good = 0..Len(nodes)
  BY <1>0, <1>3, <1>4, <1>5, EachTurn
<1>7. Len(nodes) \in Good
  BY <1>0, <1>6
<1>8. \A c : c \in Components <=> \E i \in 1..Len(nodes) : c = Search(nodes[i]).seen
  BY <1>2, <1>7 DEF Good
<1> QED BY <1>0, <1>8

\* What the Rust core and Python find out about a graph is the same, and right.
LEMMA EnginesMeet == EngineInv => EnginesAgree
<1> SUFFICES ASSUME EngineInv PROVE EnginesAgree
  OBVIOUS
<1>0. \A s \in Known : Search(s).seen \subseteq Known
  <2>1. nodes \in Seq(Nodes)
    BY DEF EngineInv, GraphInv
  <2> QED BY <2>1, SearchSteps DEF SearchStates
<1>1. ASSUME NEW s \in Known, NEW t \in Known
      PROVE  LET best == Shortest(s, t, Paths)
                 path == ShortestPathPython(s, t)
             IN  /\ IF best = {} THEN path = <<>> ELSE path \in best
                 /\ path = ShortestPathRust(s, t)
  <2> DEFINE all == From(s, t, Paths)
             best == {p \in all : \A q \in all : Len(p) <= Len(q)}
  <2>1. PICK path : path = ShortestPathPython(s, t)
    OBVIOUS
  <2>2. Shortest(s, t, Paths) = best
    BY DEF Shortest
  <2>3. CASE t \in Search(s).seen
    <3>1. IsPath(path, s, t) /\ path = ShortestPathRust(s, t) /\ \A q : IsPath(q, s, t) => Len(path) <= Len(q)
      BY <2>1, <2>3, PathFound
    <3>2. \A q : q \in all <=> IsPath(q, s, t)
      BY PathIs DEF PathsOf
    <3> HIDE DEF all
    <3>3. path \in best
      BY <3>1, <3>2
    <3> HIDE DEF best
    <3> QED BY <2>1, <2>2, <3>1, <3>3
  <2>4. CASE t \notin Search(s).seen
    <3>1. all = {}
      BY <2>4, SeenIsReached
    <3> HIDE DEF all
    <3>2. best = {}
      BY <3>1
    <3> HIDE DEF best
    <3>3. path = <<>> /\ ShortestPathRust(s, t) = <<>>
      BY <2>1, <2>4, NoPathFound DEF ShortestPathPython
    <3> QED BY <2>1, <2>2, <3>2, <3>3
  <2> QED BY <2>3, <2>4
<1>2. Components = {{t \in Known : From(s, t, Paths) # {}} : s \in Known}
  <2>1. \A s \in Known : Search(s).seen = {t \in Known : From(s, t, Paths) # {}}
    BY <1>0, SeenIsReached
  <2> QED BY <2>1, ComponentsAre
<1> QED BY <1>1, <1>2, DegreesAgree DEF EnginesAgree

\* On every graph, however it came about, Python and the Rust core agree on the
\* degrees and on the path between every two nodes, a shortest one or none, and the
\* components are the sets of nodes with a path to each other
\* (degree_centrality, shortest_path, connected_components).
THEOREM EnginesGiveTheSame == GraphSpec => []EnginesAgree
<1> QED BY EngineStarts, EngineStep, EnginesMeet, PTL DEF GraphSpec

-----------------------------------------------------------------------------
(***************************************************************************)
(* The pattern matcher (module Matcher)                                    *)
(***************************************************************************)
\* t ends with s, character by character.
Ends(s, t) == Len(s) <= Len(t) /\ \A i \in 1..Len(s) : s[i] = t[Len(t) - Len(s) + i]

\* This is IsSuffix, which is defined by reversal.
LEMMA SuffixIs ==
  ASSUME NEW S, NEW s \in Seq(S), NEW t \in Seq(S)
  PROVE  IsSuffix(s, t) <=> Ends(s, t)
<1>1. /\ Reverse(s) \in Seq(S) /\ Len(Reverse(s)) = Len(s) /\ \A j \in 1..Len(s) : Reverse(s)[j] = s[Len(s) - j + 1]
      /\ Reverse(t) \in Seq(S) /\ Len(Reverse(t)) = Len(t) /\ \A j \in 1..Len(t) : Reverse(t)[j] = t[Len(t) - j + 1]
      /\ Len(s) \in Nat /\ Len(t) \in Nat
  BY DEF Reverse
<1> DEFINE a == Reverse(s)
           b == Reverse(t)
<1>2. IsSuffix(s, t) <=> Len(s) <= Len(t) /\ SubSeq(a, 1, Len(s)) = SubSeq(b, 1, Len(s))
  BY <1>1 DEF IsSuffix, IsPrefix
<1> HIDE DEF a, b
<1> SUFFICES ASSUME Len(s) <= Len(t)
             PROVE  SubSeq(a, 1, Len(s)) = SubSeq(b, 1, Len(s)) <=> \A i \in 1..Len(s) : s[i] = t[Len(t) - Len(s) + i]
  BY <1>2 DEF Ends
<1> DEFINE u == SubSeq(a, 1, Len(s))
           v == SubSeq(b, 1, Len(s))
<1>3. /\ u \in Seq(S) /\ Len(u) = Len(s) /\ \A j \in 1..Len(s) : u[j] = a[j]
      /\ v \in Seq(S) /\ Len(v) = Len(s) /\ \A j \in 1..Len(s) : v[j] = b[j]
  BY <1>1 DEF a, b
<1> HIDE DEF u, v
<1>4. u = v <=> \A j \in 1..Len(s) : a[j] = b[j]
  BY <1>3
<1>5. \A j \in 1..Len(s) : a[j] = s[Len(s) - j + 1] /\ b[j] = t[Len(t) - j + 1]
  BY <1>1 DEF a, b
<1>6. ASSUME \A j \in 1..Len(s) : a[j] = b[j], NEW i \in 1..Len(s) PROVE s[i] = t[Len(t) - Len(s) + i]
  <2>1. PICK j \in 1..Len(s) : j = Len(s) - i + 1
    <3>1. Len(s) - i + 1 \in 1..Len(s)
      BY <1>1
    <3> QED BY <3>1
  <2>2. Len(s) - j + 1 = i /\ Len(t) - j + 1 = Len(t) - Len(s) + i
    BY <1>1, <2>1
  <2> QED BY <1>5, <1>6, <2>2
<1>7. ASSUME \A i \in 1..Len(s) : s[i] = t[Len(t) - Len(s) + i], NEW j \in 1..Len(s) PROVE a[j] = b[j]
  <2>1. PICK i \in 1..Len(s) : i = Len(s) - j + 1
    <3>1. Len(s) - j + 1 \in 1..Len(s)
      BY <1>1
    <3> QED BY <3>1
  <2>2. Len(t) - j + 1 = Len(t) - Len(s) + i
    BY <1>1, <2>1
  <2> QED BY <1>5, <1>7, <2>1, <2>2
<1> QED BY <1>4, <1>6, <1>7 DEF u, v

\* Ends of ends are ends; and of two ends of a text, the shorter is one of the
\* longer.
LEMMA EndsOfEnds ==
  ASSUME NEW S, NEW r \in Seq(S), NEW s \in Seq(S), NEW t \in Seq(S)
  PROVE  /\ Ends(r, s) /\ Ends(s, t) => Ends(r, t)
         /\ Ends(r, t) /\ Ends(s, t) /\ Len(r) <= Len(s) => Ends(r, s)
         /\ Ends(s, t) /\ Len(s) = Len(t) => s = t
         /\ Ends(t, t) /\ Ends(<<>>, t)
<1>0. Len(r) \in Nat /\ Len(s) \in Nat /\ Len(t) \in Nat
  OBVIOUS
<1>1. ASSUME Ends(r, s), Ends(s, t) PROVE Ends(r, t)
  <2>1. ASSUME NEW i \in 1..Len(r) PROVE r[i] = t[Len(t) - Len(r) + i]
    <3>1. PICK j \in 1..Len(s) : j = Len(s) - Len(r) + i
      <4>1. Len(s) - Len(r) + i \in 1..Len(s)
        BY <1>0, <1>1 DEF Ends
      <4> QED BY <4>1
    <3>2. Len(t) - Len(s) + j = Len(t) - Len(r) + i
      BY <1>0, <3>1
    <3>3. r[i] = s[j] /\ s[j] = t[Len(t) - Len(s) + j]
      BY <1>1, <3>1 DEF Ends
    <3> QED BY <3>2, <3>3
  <2> QED BY <1>0, <1>1, <2>1 DEF Ends
<1>2. ASSUME Ends(r, t), Ends(s, t), Len(r) <= Len(s) PROVE Ends(r, s)
  <2>1. ASSUME NEW i \in 1..Len(r) PROVE r[i] = s[Len(s) - Len(r) + i]
    <3>1. PICK j \in 1..Len(s) : j = Len(s) - Len(r) + i
      <4>1. Len(s) - Len(r) + i \in 1..Len(s)
        BY <1>0, <1>2
      <4> QED BY <4>1
    <3>2. Len(t) - Len(s) + j = Len(t) - Len(r) + i
      BY <1>0, <3>1
    <3>3. r[i] = t[Len(t) - Len(r) + i] /\ s[j] = t[Len(t) - Len(s) + j]
      BY <1>2 DEF Ends
    <3> QED BY <3>1, <3>2, <3>3
  <2> QED BY <1>0, <1>2, <2>1 DEF Ends
<1>3. ASSUME Ends(s, t), Len(s) = Len(t) PROVE s = t
  <2>1. \A i \in 1..Len(s) : Len(t) - Len(s) + i = i
    BY <1>0, <1>3
  <2>2. \A i \in 1..Len(s) : s[i] = t[i]
    BY <1>3, <2>1 DEF Ends
  <2> QED BY <1>3, <2>2
<1>4. Ends(t, t)
  <2>1. \A i \in 1..Len(t) : Len(t) - Len(t) + i = i
    BY <1>0
  <2> QED BY <1>0, <2>1 DEF Ends
<1>5. Ends(<<>>, t)
  BY <1>0 DEF Ends
<1> QED BY <1>1, <1>2, <1>3, <1>4, <1>5

\* A text and what it is without its last character.
LEMMA FrontAndLast ==
  ASSUME NEW S, NEW x \in Seq(S), x # <<>>
  PROVE  Front(x) \in Seq(S) /\ Last(x) \in S /\ Len(Front(x)) = Len(x) - 1 /\ Len(x) \in Nat \ {0} /\ x = Append(Front(x), Last(x))
<1>1. Len(x) \in Nat /\ Len(x) # 0
  OBVIOUS
<1>2. Front(x) \in Seq(S) /\ Len(Front(x)) = Len(x) - 1 /\ \A i \in 1..(Len(x) - 1) : Front(x)[i] = x[i]
  <2>1. PICK m \in Nat : m = Len(x) - 1
    <3>1. Len(x) - 1 \in Nat
      BY <1>1
    <3> QED BY <3>1
  <2>2. SubSeq(x, 1, m) \in Seq(S) /\ Len(SubSeq(x, 1, m)) = m /\ \A i \in 1..m : SubSeq(x, 1, m)[i] = x[i]
    BY <1>1, <2>1
  <2> QED BY <2>1, <2>2 DEF Front
<1>3. Last(x) \in S /\ Last(x) = x[Len(x)]
  BY <1>1 DEF Last
<1> DEFINE y == Append(Front(x), Last(x))
<1>4. y \in Seq(S) /\ Len(y) = Len(x) /\ y[Len(x)] = Last(x) /\ \A i \in 1..(Len(x) - 1) : y[i] = Front(x)[i]
  BY <1>1, <1>2, <1>3
<1> HIDE DEF y
<1>5. \A i \in 1..Len(x) : y[i] = x[i]
  <2> SUFFICES ASSUME NEW i \in 1..Len(x) PROVE y[i] = x[i]
    OBVIOUS
  <2>1. i = Len(x) \/ i \in 1..(Len(x) - 1)
    BY <1>1
  <2> QED BY <1>2, <1>3, <1>4, <2>1
<1>6. y = x
  BY <1>4, <1>5
<1> QED BY <1>1, <1>2, <1>3, <1>6 DEF y

LEMMA EndsByOneMore ==
  ASSUME NEW S, NEW v \in Seq(S), NEW y \in Seq(S), NEW c \in S, NEW d \in S
  PROVE  Ends(Append(v, d), Append(y, c)) <=> Ends(v, y) /\ c = d
<1> DEFINE w == Append(v, d)
           x == Append(y, c)
<1>1. /\ Len(v) \in Nat /\ Len(y) \in Nat /\ Len(w) = Len(v) + 1 /\ Len(x) = Len(y) + 1
      /\ w[Len(v) + 1] = d /\ x[Len(y) + 1] = c
      /\ \A i \in 1..Len(v) : w[i] = v[i]
      /\ \A i \in 1..Len(y) : x[i] = y[i]
  OBVIOUS
<1> HIDE DEF w, x
<1>2. ASSUME Ends(w, x) PROVE Ends(v, y) /\ c = d
  <2>1. Len(v) <= Len(y)
    BY <1>1, <1>2 DEF Ends
  <2>2. c = d
    <3>1. Len(v) + 1 \in 1..Len(w) /\ Len(x) - Len(w) + (Len(v) + 1) = Len(y) + 1
      BY <1>1
    <3>2. w[Len(v) + 1] = x[Len(x) - Len(w) + (Len(v) + 1)]
      BY <1>2, <3>1 DEF Ends
    <3> QED BY <1>1, <3>1, <3>2
  <2>3. ASSUME NEW i \in 1..Len(v) PROVE v[i] = y[Len(y) - Len(v) + i]
    <3>1. i \in 1..Len(w) /\ Len(x) - Len(w) + i = Len(y) - Len(v) + i /\ Len(y) - Len(v) + i \in 1..Len(y)
      BY <1>1, <2>1
    <3>2. w[i] = x[Len(x) - Len(w) + i]
      BY <1>2, <3>1 DEF Ends
    <3> QED BY <1>1, <3>1, <3>2
  <2> QED BY <2>1, <2>2, <2>3 DEF Ends
<1>3. ASSUME Ends(v, y), c = d PROVE Ends(w, x)
  <2>1. Len(w) <= Len(x) /\ Len(v) <= Len(y)
    BY <1>1, <1>3 DEF Ends
  <2>2. ASSUME NEW i \in 1..Len(w) PROVE w[i] = x[Len(x) - Len(w) + i]
    <3>1. CASE i = Len(v) + 1
      <4>1. Len(x) - Len(w) + i = Len(y) + 1
        BY <1>1, <3>1
      <4> QED BY <1>1, <1>3, <3>1, <4>1
    <3>2. CASE i # Len(v) + 1
      <4>1. i \in 1..Len(v) /\ Len(x) - Len(w) + i = Len(y) - Len(v) + i /\ Len(y) - Len(v) + i \in 1..Len(y)
        BY <1>1, <2>1, <3>2
      <4>2. v[i] = y[Len(y) - Len(v) + i]
        BY <1>3, <4>1 DEF Ends
      <4> QED BY <1>1, <4>1, <4>2
    <3> QED BY <3>1, <3>2
  <2> QED BY <2>1, <2>2 DEF Ends
<1> QED BY <1>2, <1>3 DEF w, x

\* The nodes of a trie: the texts that lead to them.
Trie(D) == D \subseteq Seq(Chars) /\ <<>> \in D /\ \A x \in D : x # <<>> => Front(x) \in D

\* y is the longest node, other than x itself, that x ends with.
Longest(D, x, y) ==
  /\ y \in D /\ Ends(y, x) /\ Len(y) < Len(x)
  /\ \A w \in D : Ends(w, x) /\ Len(w) < Len(x) => Len(w) <= Len(y)

\* The turns of the loop over failure links
GoesBack(D, link, y, c, back) ==
  /\ back \in [0..Len(y) -> D] /\ back[0] = y
  /\ \A k \in 1..Len(y) : back[k] = StepBack(link, back[k - 1], c)
  /\ Follow(link, y, c) = GoOn(link, back[Len(y)], c)

LEMMA FollowSteps ==
  ASSUME NEW D, D \subseteq Seq(Chars), <<>> \in D, NEW link \in [D -> D], NEW y \in D, NEW c \in Chars
  PROVE  Follow(link, y, c) \in D /\ \E back : GoesBack(D, link, y, c, back)
<1> DEFINE N == Len(y)
           F == [p \in (1..N) \X D |-> StepBack(link, p[2], c)]
           Body(f) == [k \in 0..N |-> IF k = 0 THEN y ELSE StepBack(link, f[k - 1], c)]
<1>1. N \in Nat
  OBVIOUS
<1>2. \A b \in D : StepBack(link, b, c) \in D /\ GoOn(link, b, c) \in D
  BY DEF StepBack, GoOn
<1> HIDE DEF N
<1>3. F \in [(1..N) \X D -> D] /\ \A k \in 1..N, b \in D : F[<<k, b>>] = StepBack(link, b, c)
  <2>1. \A p \in (1..N) \X D : StepBack(link, p[2], c) \in D
    BY <1>2
  <2> QED BY <2>1
<1> HIDE DEF F
<1>4. PICK f : Run(D, N, y, F, f)
  BY <1>1, <1>3, LoopRuns
<1>5. \A k \in 1..N : k - 1 \in 0..N /\ k \in 0..N
  BY <1>1
<1>6. f = Body(f)
  <2>1. f \in [0..N -> D] /\ f[0] = y /\ \A k \in 1..N : f[k] = StepBack(link, f[k - 1], c)
    BY <1>3, <1>4, <1>5 DEF Run
  <2>2. f = [k \in 0..N |-> f[k]]
    BY <2>1
  <2>3. \A k \in 0..N : k = 0 \/ k \in 1..N
    BY <1>1
  <2>4. \A k \in 0..N : f[k] = Body(f)[k]
    BY <2>1, <2>3
  <2> QED BY <2>2, <2>4
<1> DEFINE back == CHOOSE h : h = Body(h)
<1>7. back = Body(back)
  BY <1>6
<1>8. Follow(link, y, c) = GoOn(link, back[N], c)
  BY DEF Follow, N
<1> HIDE DEF back
<1>9. back = [k \in 0..N |-> back[k]] /\ back[0] = y /\ \A k \in 1..N : back[k] = StepBack(link, back[k - 1], c)
  <2>1. \A k \in 0..N : back[k] = Body(back)[k]
    BY <1>7
  <2>2. 0 \in 0..N /\ \A k \in 1..N : k \in 0..N /\ k # 0
    BY <1>1
  <2> QED BY <1>7, <2>1, <2>2
<1>10. Run(D, N, y, F, back)
  BY <1>1, <1>3, <1>9, RunOf
<1>11. back \in [0..N -> D] /\ back[N] \in D
  BY <1>1, <1>10 DEF Run
<1> QED BY <1>2, <1>8, <1>9, <1>11 DEF N, GoesBack

\* One turn of it, below a node x whose shorter nodes have their links
LEMMA OneLinkBack ==
  ASSUME NEW D, Trie(D), NEW link \in [D -> D], link[<<>>] = <<>>,
         NEW x \in D, x # <<>>,
         \A z \in D : z # <<>> /\ Len(z) < Len(x) => Longest(D, z, link[z]),
         NEW b \in D, Ends(b, Front(x)), Len(b) < Len(x) - 1,
         \A w \in D : w # <<>> /\ Ends(w, x) /\ Len(w) < Len(x) => Len(w) - 1 <= Len(b),
         NEW d, d = StepBack(link, b, Last(x))
  PROVE  /\ d \in D /\ Ends(d, Front(x)) /\ Len(d) < Len(x) - 1
         /\ \A w \in D : w # <<>> /\ Ends(w, x) /\ Len(w) < Len(x) => Len(w) - 1 <= Len(d)
         /\ Append(d, Last(x)) \in D \/ d = <<>> \/ Len(d) < Len(b)
<1>1. D \subseteq Seq(Chars) /\ <<>> \in D /\ \A z \in D : z # <<>> => Front(z) \in D
  BY DEF Trie
<1>2. /\ x \in Seq(Chars) /\ Front(x) \in Seq(Chars) /\ Last(x) \in Chars /\ Len(Front(x)) = Len(x) - 1
      /\ Len(x) \in Nat \ {0} /\ x = Append(Front(x), Last(x)) /\ b \in Seq(Chars) /\ Len(b) \in Nat
  <2>1. x \in Seq(Chars) /\ b \in Seq(Chars)
    BY <1>1
  <2> QED BY <2>1, FrontAndLast
<1>3. CASE Append(b, Last(x)) \in D
  <2>1. d = b
    BY <1>3 DEF StepBack
  <2> QED BY <1>3, <2>1
<1>4. CASE Append(b, Last(x)) \notin D
  <2>0. d = link[b] /\ d \in D /\ d \in Seq(Chars) /\ Len(d) \in Nat
    <3>1. d = link[b]
      BY <1>4 DEF StepBack
    <3>2. d \in D
      BY <3>1
    <3> QED BY <1>1, <3>1, <3>2
  \* What is looked for is shorter than b.
  <2>1. ASSUME NEW w \in D, w # <<>>, Ends(w, x), Len(w) < Len(x)
        PROVE  Front(w) \in D /\ Ends(Front(w), b) /\ Len(Front(w)) < Len(b) /\ Len(Front(w)) = Len(w) - 1
    <3>1. w \in Seq(Chars)
      BY <1>1
    <3>2. Front(w) \in Seq(Chars) /\ Last(w) \in Chars /\ Len(Front(w)) = Len(w) - 1 /\ Len(w) \in Nat \ {0} /\ w = Append(Front(w), Last(w))
      BY <2>1, <3>1, FrontAndLast
    <3> DEFINE v == Front(w)
               e == Last(w)
               y == Front(x)
               c == Last(x)
    <3>3. v \in Seq(Chars) /\ y \in Seq(Chars) /\ e \in Chars /\ c \in Chars
      BY <1>2, <3>2
    <3>4. Ends(Append(v, e), Append(y, c))
      BY <1>2, <2>1, <3>2
    <3>5. Ends(v, y) /\ c = e
      <4> HIDE DEF v, e, y, c
      <4> QED BY <3>3, <3>4, EndsByOneMore
    <3>6. Len(v) <= Len(b)
      BY <2>1, <3>2
    <3>7. Ends(v, b)
      BY <1>2, <3>3, <3>5, <3>6, EndsOfEnds
    <3>8. Len(v) # Len(b)
      <4> SUFFICES ASSUME Len(v) = Len(b) PROVE FALSE
        OBVIOUS
      <4>1. v = b
        BY <1>2, <3>3, <3>7, EndsOfEnds
      <4>2. Append(b, Last(x)) = w
        BY <3>2, <3>5, <4>1
      <4> QED BY <1>4, <4>2
    <3>9. Len(v) < Len(b)
      BY <1>2, <3>2, <3>6, <3>8
    <3> QED BY <1>1, <2>1, <3>2, <3>7, <3>9
  <2>2. CASE b = <<>>
    <3>1. d = <<>>
      BY <2>0, <2>2
    <3> QED BY <2>0, <2>1, <2>2, <3>1
  <2>3. CASE b # <<>>
    <3>1. Longest(D, b, d)
      <4>1. Len(b) < Len(x)
        BY <1>2
      <4> QED BY <2>0, <2>3, <4>1
    <3>2. Ends(d, b) /\ Len(d) < Len(b)
      BY <3>1 DEF Longest
    <3>3. Ends(d, Front(x))
      BY <1>2, <2>0, <3>2, EndsOfEnds
    <3>4. ASSUME NEW w \in D, w # <<>>, Ends(w, x), Len(w) < Len(x) PROVE Len(w) - 1 <= Len(d)
      BY <2>1, <3>1, <3>4 DEF Longest
    <3>5. Len(d) < Len(x) - 1
      BY <1>2, <2>0, <3>2
    <3> QED BY <2>0, <3>2, <3>3, <3>4, <3>5
  <2> QED BY <2>2, <2>3
<1> QED BY <1>3, <1>4

\* What the loop over failure links finds, once all shorter nodes have theirs,
\* is the longest node that x ends with.
LEMMA FollowIs ==
  ASSUME NEW D, Trie(D), NEW link \in [D -> D], link[<<>>] = <<>>,
         NEW x \in D, Len(x) > 1,
         \A z \in D : z # <<>> /\ Len(z) < Len(x) => Longest(D, z, link[z])
  PROVE  Longest(D, x, Follow(link, link[Front(x)], Last(x)))
<1> DEFINE c == Last(x)
           y == link[Front(x)]
           N == Len(y)
<1>1. D \subseteq Seq(Chars) /\ <<>> \in D /\ \A z \in D : z # <<>> => Front(z) \in D
  BY DEF Trie
<1>2. x \in Seq(Chars) /\ Len(x) \in Nat /\ x # <<>>
  BY <1>1
<1>3. /\ Front(x) \in Seq(Chars) /\ c \in Chars /\ Len(Front(x)) = Len(x) - 1
      /\ Len(x) \in Nat \ {0} /\ x = Append(Front(x), c) /\ Front(x) \in D
  BY <1>1, <1>2, FrontAndLast
<1>4. y \in D /\ y \in Seq(Chars) /\ N \in Nat /\ Longest(D, Front(x), y)
  <2>1. y \in D
    BY <1>3
  <2>2. Front(x) # <<>> /\ Len(Front(x)) < Len(x)
    <3>1. Len(Front(x)) # 0 /\ Len(Front(x)) < Len(x)
      BY <1>2, <1>3
    <3> QED BY <3>1
  <2>3. Longest(D, Front(x), y)
    BY <1>3, <2>2
  <2> QED BY <1>1, <2>1, <2>3
<1> HIDE DEF y
<1>5. PICK back : /\ back \in [0..N -> D] /\ back[0] = y
                  /\ \A k \in 1..N : back[k] = StepBack(link, back[k - 1], c)
                  /\ Follow(link, y, c) = GoOn(link, back[N], c)
  <2> HIDE DEF c
  <2>1. \E back : GoesBack(D, link, y, c, back)
    BY <1>1, <1>3, <1>4, FollowSteps
  <2> QED BY <2>1 DEF GoesBack
<1> DEFINE Reaches(b) == \A w \in D : w # <<>> /\ Ends(w, x) /\ Len(w) < Len(x) => Len(w) - 1 <= Len(b)
           Fine(k, b) == /\ Ends(b, Front(x)) /\ Len(b) < Len(x) - 1 /\ Reaches(b)
                         /\ Append(b, c) \in D \/ Len(b) <= N - k
           Good == {k \in 0..N : Fine(k, back[k])}
<1>6. 0 \in Good
  <2>1. Ends(y, Front(x)) /\ Len(y) < Len(x) - 1
    BY <1>3, <1>4 DEF Longest
  <2>2. ASSUME NEW w \in D, w # <<>>, Ends(w, x), Len(w) < Len(x) PROVE Len(w) - 1 <= Len(y)
    <3>1. w \in Seq(Chars)
      BY <1>1
    <3>2. Front(w) \in Seq(Chars) /\ Last(w) \in Chars /\ Len(Front(w)) = Len(w) - 1 /\ Len(w) \in Nat \ {0} /\ w = Append(Front(w), Last(w))
      BY <2>2, <3>1, FrontAndLast
    <3>3. Front(w) \in D
      BY <1>1, <2>2
    <3>4. Ends(Append(Front(w), Last(w)), Append(Front(x), c))
      BY <1>3, <2>2, <3>2
    <3>5. Ends(Front(w), Front(x))
      <4> HIDE DEF c
      <4> QED BY <1>3, <3>2, <3>4, EndsByOneMore
    <3>6. Len(Front(w)) < Len(Front(x))
      BY <1>3, <2>2, <3>2
    <3> QED BY <1>4, <3>2, <3>3, <3>5, <3>6 DEF Longest
  <2>3. Fine(0, y)
    BY <1>4, <2>1, <2>2
  <2> HIDE DEF Fine, N
  <2> QED BY <1>4, <1>5, <2>3
<1>7. ASSUME NEW k \in 1..N, k - 1 \in Good PROVE k \in Good
  <2>1. PICK b \in D : b = back[k - 1]
    <3>1. k - 1 \in 0..N
      BY <1>4
    <3> QED BY <1>5, <3>1
  <2>2. Fine(k - 1, b)
    <3> HIDE DEF Fine, N
    <3> QED BY <1>7, <2>1
  <2>3. PICK d : d = StepBack(link, b, c)
    OBVIOUS
  <2>4. back[k] = d
    BY <1>5, <2>1, <2>3
  <2>5. /\ d \in D /\ Ends(d, Front(x)) /\ Len(d) < Len(x) - 1
        /\ Reaches(d)
        /\ Append(d, c) \in D \/ d = <<>> \/ Len(d) < Len(b)
    <3>1. Ends(b, Front(x)) /\ Len(b) < Len(x) - 1 /\ Reaches(b)
      BY <2>2
    <3> QED BY <1>2, <2>3, <3>1, OneLinkBack
  <2>6. Append(d, c) \in D \/ Len(d) <= N - k
    <3> SUFFICES ASSUME Append(d, c) \notin D PROVE Len(d) <= N - k
      OBVIOUS
    <3>1. CASE d = <<>>
      <4>1. Len(d) = 0
        BY <3>1
      <4> HIDE DEF N
      <4> QED BY <1>4, <4>1
    <3>2. CASE d # <<>>
      <4>1. Append(b, c) \notin D
        <5> SUFFICES ASSUME Append(b, c) \in D PROVE FALSE
          OBVIOUS
        <5>1. d = b
          BY <2>3, DOMAIN link = D DEF StepBack
        <5> QED BY <5>1
      <4>2. Len(b) <= N - (k - 1)
        BY <2>2, <4>1
      <4>3. Len(d) < Len(b) /\ Len(d) \in Nat /\ Len(b) \in Nat
        BY <1>1, <2>5, <3>2
      <4> HIDE DEF N
      <4> QED BY <1>4, <4>2, <4>3
    <3> QED BY <3>1, <3>2
  <2>7. Fine(k, d)
    BY <2>5, <2>6
  <2>8. k \in 0..N
    BY <1>4
  <2> HIDE DEF Fine, N
  <2> QED BY <2>4, <2>7, <2>8
<1>8. N \in Good
  <2>1. Good \in SUBSET (0..N)
    OBVIOUS
  <2> HIDE DEF Good, N
  <2>2. Good = 0..N
    BY <1>4, <1>6, <1>7, <2>1, EachTurn
  <2> QED BY <1>4, <2>2
<1>9. PICK b \in D : b = back[N]
  <2>1. N \in 0..N
    BY <1>4
  <2> HIDE DEF N
  <2> QED BY <1>5, <2>1
<1>10. Fine(N, b)
  <2> HIDE DEF Fine, N
  <2> QED BY <1>8, <1>9
<1>11. b \in Seq(Chars) /\ Len(b) \in Nat
  BY <1>1
<1>12. Ends(b, Front(x)) /\ Len(b) < Len(x) - 1 /\ Reaches(b) /\ (Append(b, c) \in D \/ b = <<>>)
  <2>1. Append(b, c) \in D \/ Len(b) <= N - N
    BY <1>10
  <2>2. Len(b) <= N - N => Len(b) = 0
    BY <1>4, <1>11
  <2>3. Len(b) = 0 => b = <<>>
    BY <1>11
  <2> QED BY <1>10, <2>1, <2>2, <2>3
<1>13. ASSUME NEW w \in D, Ends(w, x), Len(w) < Len(x) PROVE w = <<>> \/ (Len(w) - 1 <= Len(b) /\ Len(w) \in Nat)
  BY <1>1, <1>12, <1>13
<1>14. CASE Append(b, c) \in D
  <2>1. Follow(link, y, c) = Append(b, c)
    BY <1>5, <1>9, <1>14, DOMAIN link = D DEF GoOn
  <2>2. Ends(Append(b, c), x) /\ Len(Append(b, c)) = Len(b) + 1
    <3>1. Ends(Append(b, c), Append(Front(x), c))
      <4> HIDE DEF c
      <4> QED BY <1>3, <1>11, <1>12, EndsByOneMore
    <3>2. Ends(Append(b, c), x)
      BY <1>3, <3>1
    <3> HIDE DEF c
    <3> QED BY <1>3, <1>11, <3>2
  <2>3. Len(Append(b, c)) < Len(x)
    BY <1>2, <1>11, <1>12, <2>2
  <2>4. ASSUME NEW w \in D, Ends(w, x), Len(w) < Len(x) PROVE Len(w) <= Len(Append(b, c))
    <3>1. w = <<>> => Len(w) = 0
      OBVIOUS
    <3> HIDE DEF c
    <3> QED BY <1>11, <1>13, <2>2, <2>4, <3>1
  <2> QED BY <1>14, <2>1, <2>2, <2>3, <2>4 DEF Longest, y
<1>15. CASE Append(b, c) \notin D
  <2>1. b = <<>>
    BY <1>12, <1>15
  <2>2. Follow(link, y, c) = <<>>
    BY <1>5, <1>9, <1>15, DOMAIN link = D DEF GoOn
  <2>3. ASSUME NEW w \in D, Ends(w, x), Len(w) < Len(x) PROVE Len(w) <= 0
    <3> SUFFICES ASSUME w # <<>> PROVE FALSE
      OBVIOUS
    <3>1. w \in Seq(Chars)
      BY <1>1
    <3>2. Front(w) \in Seq(Chars) /\ Last(w) \in Chars /\ Len(Front(w)) = Len(w) - 1 /\ Len(w) \in Nat \ {0} /\ w = Append(Front(w), Last(w))
      BY <3>1, FrontAndLast
    <3>3. Front(w) = <<>>
      <4>1. Len(w) - 1 <= Len(b) /\ Len(b) = 0
        BY <1>13, <2>1, <2>3
      <4>2. Len(Front(w)) = 0
        BY <3>2, <4>1
      <4> QED BY <3>2, <4>2
    <3>4. Ends(Append(Front(w), Last(w)), Append(Front(x), c))
      BY <1>3, <2>3, <3>2
    <3>5. Last(w) = c
      <4> HIDE DEF c
      <4> QED BY <1>3, <3>2, <3>4, EndsByOneMore
    <3>6. w = Append(b, c)
      BY <2>1, <3>2, <3>3, <3>5
    <3> QED BY <1>15, <3>6
  <2>4. <<>> \in D /\ Ends(<<>>, x) /\ Len(<<>>) < Len(x) /\ Len(<<>>) = 0
    <3>1. Ends(<<>>, x)
      BY <1>2, EndsOfEnds
    <3> QED BY <1>1, <1>2, <3>1
  <2> QED BY <2>2, <2>3, <2>4 DEF Longest, y
<1> QED BY <1>14, <1>15

\* The outputs of the nodes, A registered: a pattern is at its own node, and
\* elsewhere only where a text ends with it.
Registry(outs, A) ==
  /\ A \subseteq Patterns /\ Trie(DOMAIN outs) /\ outs \in [DOMAIN outs -> SUBSET A]
  /\ \E m \in Nat : \A x \in DOMAIN outs : Len(x) <= m
  /\ \A x \in DOMAIN outs : \A p \in outs[x] : Ends(Lower[p], x)
  /\ \A p \in A : Lower[p] \in DOMAIN outs /\ p \in outs[Lower[p]]

\* Every pattern that a text ends with at x is there.
Complete(outs, A, x) == outs[x] \ {<<>>} = {p \in A \ {<<>>} : Ends(Lower[p], x)}

\* What build_failure_links has done when it has been through the nodes up to
\* depth n
Linked(D, A, outs, st, n) ==
  /\ st.link \in [D -> D] /\ st.outs \in [D -> SUBSET A] /\ st.link[<<>>] = <<>>
  /\ \A z \in D : outs[z] \subseteq st.outs[z]
  /\ \A z \in D : Len(z) <= n => (z # <<>> => Longest(D, z, st.link[z])) /\ Complete(st.outs, A, z)
  /\ \A z \in D : Len(z) > n => st.link[z] = <<>> /\ st.outs[z] = outs[z]

\* The patterns
LEMMA LowerIs ==
  ASSUME NEW p \in Patterns
  PROVE  Lower[p] \in Seq(Chars) /\ Len(Lower[p]) \in Nat /\ (Len(Lower[p]) = 0 <=> p = <<>>)
<1>1. Lower[p] \in Seq(Chars) /\ (Lower[p] = <<>> <=> p = <<>>)
  BY MatcherAssumption
<1> QED BY <1>1

\* The nodes have a greatest depth.
LEMMA DepthIs ==
  ASSUME NEW D, D \subseteq Seq(Chars), <<>> \in D, NEW m \in Nat, \A x \in D : Len(x) <= m
  PROVE  Depth(D) \in Nat /\ \A x \in D : Len(x) <= Depth(D)
<1> DEFINE L == {Len(x) : x \in D}
           Up == {k \in Nat : \A l \in L : l <= k}
<1>1. L \in SUBSET Nat /\ L # {} /\ \A x \in D : Len(x) \in L
  OBVIOUS
<1>2. m \in Up
  OBVIOUS
<1> HIDE DEF L
<1>3. PICK k \in Up : \A j \in Up : k <= j
  <2>1. Up \in SUBSET Nat /\ Up # {}
    BY <1>2
  <2> HIDE DEF Up
  <2> QED BY <2>1, LeastNumber
<1>4. k \in Nat /\ \A l \in L : l <= k
  BY <1>3
<1>5. k \in L
  <2> SUFFICES ASSUME k \notin L PROVE FALSE
    OBVIOUS
  <2>1. \A l \in L : l < k /\ l \in Nat
    BY <1>1, <1>4
  <2>2. k # 0
    BY <1>1, <2>1
  <2>3. k - 1 \in Nat /\ ~(k <= k - 1) /\ \A l \in L : l <= k - 1
    BY <1>4, <2>1, <2>2
  <2>4. k - 1 \in Up
    BY <2>3
  <2> HIDE DEF Up
  <2> QED BY <1>3, <2>3, <2>4
<1>6. \A l \in L : k >= l
  BY <1>1, <1>4
<1>7. Max(L) \in L /\ \A l \in L : Max(L) >= l
  BY <1>5, <1>6 DEF Max
<1>8. Depth(D) = Max(L)
  BY DEF Depth, L
<1> QED
  <2>1. \A l \in L : l <= Max(L)
    BY <1>1, <1>7
  <2> HIDE DEF Up
  <2> QED BY <1>1, <1>7, <1>8, <2>1

\* Before the first depth: every link is the root, and a node has no outputs but
\* the patterns that were added at it.
LEMMA LinksStart ==
  ASSUME NEW outs, NEW A, Registry(outs, A)
  PROVE  LET D == DOMAIN outs IN Linked(D, A, outs, [link |-> [x \in D |-> <<>>], outs |-> outs], 0)
<1> DEFINE D == DOMAIN outs
           st == [link |-> [x \in D |-> <<>>], outs |-> outs]
<1>1. D \subseteq Seq(Chars) /\ <<>> \in D /\ outs \in [D -> SUBSET A] /\ A \subseteq Patterns
  BY DEF Registry, Trie
<1>2. /\ st.link \in [D -> D] /\ st.outs = outs /\ \A z \in D : st.link[z] = <<>>
  BY <1>1
<1>3. \A z \in D : Len(z) \in Nat /\ (Len(z) <= 0 => z = <<>>)
  BY <1>1
<1>4. Complete(outs, A, <<>>)
  <2>1. ASSUME NEW p \in A, Ends(Lower[p], <<>>) PROVE p = <<>>
    <3>1. p \in Patterns
      BY <1>1
    <3>2. Len(Lower[p]) <= Len(<<>>) /\ Len(<<>>) = 0
      BY <2>1 DEF Ends
    <3> QED BY <3>1, <3>2, LowerIs
  <2>2. \A p \in outs[<<>>] : p \in A /\ Ends(Lower[p], <<>>)
    BY <1>1 DEF Registry
  <2> QED BY <2>1, <2>2 DEF Complete
<1> HIDE DEF st
<1>5. Linked(D, A, outs, st, 0)
  BY <1>1, <1>2, <1>3, <1>4 DEF Linked
<1> QED BY <1>5 DEF st

\* The states of build_failure_links
LinkStates(D, A) == [link : [D -> D], outs : [D -> SUBSET A]]

LEMMA LevelType ==
  ASSUME NEW D, NEW A, Trie(D), NEW st \in LinkStates(D, A), NEW n \in Nat
  PROVE  /\ Level(st, n) \in LinkStates(D, A)
         /\ \A x \in D : ~(n > 1 /\ Len(x) = n) => Level(st, n).link[x] = st.link[x] /\ Level(st, n).outs[x] = st.outs[x]
         /\ \A x \in D : n > 1 /\ Len(x) = n =>
              /\ Level(st, n).link[x] = Follow(st.link, st.link[Front(x)], Last(x))
              /\ Level(st, n).outs[x] = st.outs[x] \cup st.outs[Level(st, n).link[x]]
<1>1. st.link \in [D -> D] /\ st.outs \in [D -> SUBSET A] /\ DOMAIN st.link = D
  BY DEF LinkStates
<1>2. D \subseteq Seq(Chars) /\ <<>> \in D /\ \A x \in D : x # <<>> => Front(x) \in D
  BY DEF Trie
<1> DEFINE Now(x) == n > 1 /\ Len(x) = n
           to(x) == IF Now(x) THEN Follow(st.link, st.link[Front(x)], Last(x)) ELSE st.link[x]
           link == [x \in D |-> to(x)]
           of(x) == IF Now(x) THEN st.outs[x] \cup st.outs[link[x]] ELSE st.outs[x]
           outs == [x \in D |-> of(x)]
<1>3. ASSUME NEW x \in D PROVE to(x) \in D
  <2>1. CASE Now(x)
    <3>1. x \in Seq(Chars) /\ x # <<>>
      BY <1>2, <2>1
    <3>2. Front(x) \in D /\ Last(x) \in Chars
      BY <1>2, <3>1, FrontAndLast
    <3>3. st.link[Front(x)] \in D
      BY <1>1, <3>2
    <3>4. Follow(st.link, st.link[Front(x)], Last(x)) \in D
      BY <1>1, <1>2, <3>2, <3>3, FollowSteps
    <3> QED BY <2>1, <3>4
  <2>2. CASE ~Now(x)
    BY <1>1, <2>2
  <2> QED BY <2>1, <2>2
<1> HIDE DEF to
<1>4. link \in [D -> D] /\ \A x \in D : link[x] = to(x)
  BY <1>3
<1>5. Level(st, n) = [link |-> link, outs |-> outs]
  BY <1>1 DEF Level, to
<1> HIDE DEF link, Now
<1>6. \A x \in D : of(x) \in SUBSET A
  BY <1>1, <1>4
<1> HIDE DEF of
<1>7. outs \in [D -> SUBSET A] /\ \A x \in D : outs[x] = of(x)
  BY <1>6
<1> HIDE DEF outs
<1>8. Level(st, n).link = link /\ Level(st, n).outs = outs /\ Level(st, n) \in LinkStates(D, A)
  BY <1>4, <1>5, <1>7 DEF LinkStates
<1>9. ASSUME NEW x \in D, ~Now(x) PROVE link[x] = st.link[x] /\ outs[x] = st.outs[x]
  BY <1>4, <1>7, <1>9 DEF to, of
<1>10. ASSUME NEW x \in D, Now(x)
       PROVE  link[x] = Follow(st.link, st.link[Front(x)], Last(x)) /\ outs[x] = st.outs[x] \cup st.outs[link[x]]
  BY <1>4, <1>7, <1>10 DEF to, of
<1> QED BY <1>8, <1>9, <1>10 DEF Now

\* One depth more
LEMMA OneLevelMore ==
  ASSUME NEW outs, NEW A, Registry(outs, A), NEW m \in Nat, NEW n, n = m + 1, NEW st \in LinkStates(DOMAIN outs, A),
         Linked(DOMAIN outs, A, outs, st, m)
  PROVE  Linked(DOMAIN outs, A, outs, Level(st, n), n)
<1>0. PICK D : D = DOMAIN outs
  OBVIOUS
<1>1. D \subseteq Seq(Chars) /\ <<>> \in D /\ outs \in [D -> SUBSET A] /\ A \subseteq Patterns /\ Trie(D)
  BY <1>0 DEF Registry, Trie
<1>2. PICK link, os : link = Level(st, n).link /\ os = Level(st, n).outs
  OBVIOUS
<1>3. n \in Nat /\ n > 0
  OBVIOUS
<1>4. /\ link \in [D -> D] /\ os \in [D -> SUBSET A]
      /\ \A x \in D : ~(n > 1 /\ Len(x) = n) => link[x] = st.link[x] /\ os[x] = st.outs[x]
      /\ \A x \in D : n > 1 /\ Len(x) = n =>
           link[x] = Follow(st.link, st.link[Front(x)], Last(x)) /\ os[x] = st.outs[x] \cup st.outs[link[x]]
  <2>1. Level(st, n) \in LinkStates(D, A)
    BY <1>0, <1>1, <1>3, LevelType
  <2>2. link \in [D -> D] /\ os \in [D -> SUBSET A]
    BY <1>2, <2>1 DEF LinkStates
  <2> QED BY <1>0, <1>1, <1>2, <1>3, <2>2, LevelType
<1>5. /\ st.link \in [D -> D] /\ st.outs \in [D -> SUBSET A] /\ st.link[<<>>] = <<>>
      /\ \A z \in D : outs[z] \subseteq st.outs[z]
      /\ \A z \in D : Len(z) <= m => (z # <<>> => Longest(D, z, st.link[z])) /\ Complete(st.outs, A, z)
      /\ \A z \in D : Len(z) > m => st.link[z] = <<>> /\ st.outs[z] = outs[z]
  BY <1>0 DEF Linked
<1>6. \A z \in D : Len(z) \in Nat /\ z \in Seq(Chars) /\ (z = <<>> <=> Len(z) = 0)
  BY <1>1
<1>7. link[<<>>] = <<>>
  BY <1>1, <1>3, <1>4, <1>5, <1>6
<1>8. ASSUME NEW z \in D PROVE outs[z] \subseteq os[z]
  BY <1>4, <1>5
<1>9. ASSUME NEW z \in D, Len(z) > n PROVE link[z] = <<>> /\ os[z] = outs[z]
  <2>1. Len(z) > m /\ Len(z) # n
    BY <1>3, <1>6, <1>9
  <2> QED BY <1>4, <1>5, <2>1
<1>10. ASSUME NEW z \in D, Len(z) <= n PROVE (z # <<>> => Longest(D, z, link[z])) /\ Complete(os, A, z)
  <2>1. CASE Len(z) # n
    <3>1. Len(z) <= m
      BY <1>3, <1>6, <1>10, <2>1
    <3> QED BY <1>4, <1>5, <2>1, <3>1 DEF Complete
  <2>2. CASE Len(z) = n
    <3>1. z # <<>> /\ Len(z) > m /\ st.outs[z] = outs[z] /\ st.link[z] = <<>>
      BY <1>3, <1>5, <1>6, <2>2
    <3>2. Longest(D, z, link[z])
      <4>1. CASE n > 1
        <5>1. Longest(D, z, Follow(st.link, st.link[Front(z)], Last(z)))
          <6>1. \A y \in D : y # <<>> /\ Len(y) < Len(z) => Longest(D, y, st.link[y])
            <7>1. \A y \in D : Len(y) < Len(z) => Len(y) <= m
              BY <1>6, <2>2
            <7> QED BY <1>5, <7>1
          <6>2. st.link \in [D -> D] /\ Len(z) > 1 /\ st.link[<<>>] = <<>>
            BY <1>5, <2>2, <4>1
          <6> QED BY <1>1, <6>1, <6>2, FollowIs
        <5> QED BY <1>4, <2>2, <4>1, <5>1
      <4>2. CASE ~(n > 1)
        <5>1. link[z] = <<>> /\ Len(z) = 1
          BY <1>3, <1>4, <2>2, <3>1, <4>2
        <5>2. Ends(<<>>, z) /\ Len(<<>>) = 0
          BY <1>6, EndsOfEnds
        <5>3. \A w \in D : Len(w) < Len(z) => Len(w) <= 0
          BY <1>6, <5>1
        <5> QED BY <1>1, <5>1, <5>2, <5>3 DEF Longest
      <4> QED BY <4>1, <4>2
    <3>3. PICK y : y = link[z]
      OBVIOUS
    <3>4. y \in D /\ Ends(y, z) /\ Len(y) < Len(z) /\ \A w \in D : Ends(w, z) /\ Len(w) < Len(z) => Len(w) <= Len(y)
      BY <3>2, <3>3 DEF Longest
    <3>5. Len(y) <= m
      BY <1>6, <2>2, <3>4
    <3>6. Complete(st.outs, A, y)
      BY <1>5, <3>4, <3>5
    <3>7. os[z] = outs[z] \/ os[z] = outs[z] \cup st.outs[y]
      BY <1>4, <3>1, <3>3
    <3>8. ASSUME NEW p \in os[z], p # <<>> PROVE p \in A /\ Ends(Lower[p], z)
      <4>1. p \in A /\ p \in Patterns
        BY <1>1, <1>4
      <4>2. CASE p \in outs[z]
        BY <1>0, <4>1, <4>2 DEF Registry
      <4>3. CASE p \in st.outs[y]
        <5>1. Ends(Lower[p], y)
          BY <3>6, <3>8, <4>3 DEF Complete
        <5>2. Lower[p] \in Seq(Chars) /\ y \in Seq(Chars) /\ z \in Seq(Chars)
          BY <1>6, <3>4, <4>1, LowerIs
        <5> QED BY <3>4, <4>1, <5>1, <5>2, EndsOfEnds
      <4> QED BY <3>7, <4>2, <4>3
    <3>9. ASSUME NEW p \in A, p # <<>>, Ends(Lower[p], z) PROVE p \in os[z]
      <4>1. p \in Patterns
        BY <1>1
      <4>2. Lower[p] \in Seq(Chars) /\ Len(Lower[p]) \in Nat /\ Len(Lower[p]) # 0 /\ Lower[p] \in D /\ p \in outs[Lower[p]]
        BY <1>0, <3>9, <4>1, LowerIs DEF Registry
      <4>3. CASE Len(Lower[p]) = Len(z)
        <5>1. Lower[p] = z
          BY <1>6, <3>9, <4>2, <4>3, EndsOfEnds
        <5> QED BY <1>8, <4>2, <5>1
      <4>4. CASE Len(Lower[p]) # Len(z)
        <5>1. Len(Lower[p]) < Len(z)
          BY <1>6, <3>9, <4>2, <4>4 DEF Ends
        <5>2. Len(Lower[p]) <= Len(y)
          BY <3>4, <3>9, <4>2, <5>1
        <5>3. Ends(Lower[p], y)
          BY <1>6, <3>4, <3>9, <4>2, <5>2, EndsOfEnds
        <5>4. p \in st.outs[y]
          BY <3>6, <3>9, <5>3 DEF Complete
        <5>5. n > 1
          BY <1>3, <1>6, <2>2, <4>2, <5>1
        <5> QED BY <1>4, <2>2, <3>3, <5>4, <5>5
      <4> QED BY <4>3, <4>4
    <3>10. Complete(os, A, z)
      BY <3>8, <3>9 DEF Complete
    <3> QED BY <3>2, <3>10
  <2> QED BY <2>1, <2>2
<1>11. Linked(D, A, outs, Level(st, n), n)
  <2>1. \A z \in D : Len(z) <= n => (z # <<>> => Longest(D, z, link[z])) /\ Complete(os, A, z)
    BY <1>10
  <2> QED BY <1>2, <1>4, <1>7, <1>8, <1>9, <2>1 DEF Linked
<1> QED BY <1>0, <1>11

\* build_failure_links: afterwards every node has every pattern that a text ends
\* with there.
LEMMA BuiltIs ==
  ASSUME NEW outs, NEW A, Registry(outs, A)
  PROVE  Registry(Built(outs), A) /\ \A x \in DOMAIN Built(outs) : Complete(Built(outs), A, x)
<1>0. PICK D : D = DOMAIN outs
  OBVIOUS
<1>1. /\ D \subseteq Seq(Chars) /\ <<>> \in D /\ outs \in [D -> SUBSET A] /\ A \subseteq Patterns /\ Trie(D)
      /\ \E m \in Nat : \A x \in D : Len(x) <= m
  BY <1>0 DEF Registry, Trie
<1>2. PICK N : N = Depth(D)
  OBVIOUS
<1>3. N \in Nat /\ \A x \in D : Len(x) <= N
  BY <1>1, <1>2, DepthIs
<1> DEFINE S == LinkStates(D, A)
           s0 == [link |-> [x \in D |-> <<>>], outs |-> outs]
           F == [p \in (1..N) \X S |-> Level(p[2], p[1])]
           Body(f) == [n \in 0..N |-> IF n = 0 THEN s0 ELSE Level(f[n - 1], n)]
<1>4. s0 \in S
  BY <1>1 DEF LinkStates
<1>5. \A n \in 1..N, st \in S : Level(st, n) \in S
  <2>1. \A n \in 1..N : n \in Nat
    BY <1>3
  <2> QED BY <1>1, <2>1, LevelType
<1>6. Linked(D, A, outs, s0, 0)
  BY <1>0, LinksStart
<1>7. Built(outs) = (CHOOSE h : h = Body(h))[N].outs
  BY <1>0, <1>2 DEF Built
<1> HIDE DEF s0, S
<1>8. F \in [(1..N) \X S -> S] /\ \A n \in 1..N, st \in S : F[<<n, st>>] = Level(st, n)
  <2>1. \A p \in (1..N) \X S : Level(p[2], p[1]) \in S
    BY <1>5
  <2> QED BY <2>1
<1> HIDE DEF F
<1>9. PICK f : Run(S, N, s0, F, f)
  BY <1>3, <1>4, <1>8, LoopRuns
<1>10. \A n \in 1..N : n - 1 \in 0..N /\ n \in 0..N
  BY <1>3
<1>11. f = Body(f)
  <2>1. f \in [0..N -> S] /\ f[0] = s0 /\ \A n \in 1..N : f[n] = Level(f[n - 1], n)
    BY <1>8, <1>9, <1>10 DEF Run
  <2>2. f = [n \in 0..N |-> f[n]]
    BY <2>1
  <2>3. \A n \in 0..N : n = 0 \/ n \in 1..N
    BY <1>3
  <2>4. \A n \in 0..N : f[n] = Body(f)[n]
    BY <2>1, <2>3
  <2> QED BY <2>2, <2>4
<1> DEFINE st == CHOOSE h : h = Body(h)
<1>12. st = Body(st)
  BY <1>11
<1> HIDE DEF st
<1>13. st = [n \in 0..N |-> st[n]] /\ st[0] = s0 /\ \A n \in 1..N : st[n] = Level(st[n - 1], n)
  <2>1. \A n \in 0..N : st[n] = Body(st)[n]
    BY <1>12
  <2>2. 0 \in 0..N /\ \A n \in 1..N : n \in 0..N /\ n # 0
    BY <1>3
  <2> QED BY <1>12, <2>1, <2>2
<1>14. Run(S, N, s0, F, st)
  BY <1>3, <1>4, <1>8, <1>13, RunOf
<1>15. st \in [0..N -> S]
  BY <1>14 DEF Run
<1> DEFINE Good == {n \in 0..N : Linked(D, A, outs, st[n], n)}
<1>16. N \in Good
  <2>1. 0 \in Good
    BY <1>3, <1>6, <1>13
  <2>2. ASSUME NEW n \in 1..N, n - 1 \in Good PROVE n \in Good
    <3>1. PICK m \in 0..N : m = n - 1
      BY <1>10
    <3>2. m \in Nat /\ n = m + 1
      BY <1>3, <3>1
    <3>3. PICK s : s = st[m]
      OBVIOUS
    <3>4. s \in LinkStates(DOMAIN outs, A) /\ Linked(DOMAIN outs, A, outs, s, m)
      BY <1>0, <1>15, <2>2, <3>1, <3>3 DEF S
    <3>5. Linked(DOMAIN outs, A, outs, Level(s, n), n)
      BY <3>2, <3>4, OneLevelMore
    <3> QED BY <1>0, <1>10, <1>13, <3>1, <3>3, <3>5
  <2>3. Good \in SUBSET (0..N)
    OBVIOUS
  <2> HIDE DEF Good
  <2>4. Good = 0..N
    BY <1>3, <2>1, <2>2, <2>3, EachTurn
  <2> QED BY <1>3, <2>4
<1>17. PICK end : end = Built(outs)
  OBVIOUS
<1>18. end = st[N].outs
  BY <1>7, <1>17 DEF st
<1>19. end \in [D -> SUBSET A] /\ \A z \in D : outs[z] \subseteq end[z] /\ Complete(end, A, z)
  BY <1>3, <1>16, <1>18 DEF Linked
<1>20. Registry(end, A)
  <2>1. DOMAIN end = D
    BY <1>19
  <2>2. ASSUME NEW x \in D, NEW p \in end[x] PROVE Ends(Lower[p], x)
    <3>1. p \in A /\ p \in Patterns
      BY <1>1, <1>19
    <3>2. CASE p = <<>>
      <4>1. Lower[p] = <<>>
        BY <3>1, <3>2, MatcherAssumption
      <4> QED BY <1>1, <4>1, EndsOfEnds
    <3>3. CASE p # <<>>
      BY <1>19, <3>3 DEF Complete
    <3> QED BY <3>2, <3>3
  <2>3. \A p \in A : Lower[p] \in D /\ p \in end[Lower[p]]
    BY <1>0, <1>19 DEF Registry
  <2> QED BY <1>1, <1>19, <2>1, <2>2, <2>3 DEF Registry
<1>21. DOMAIN end = D
  BY <1>19
<1> QED BY <1>17, <1>19, <1>20, <1>21

\* What leads to the node of a pattern: its prefixes.
LEMMA PrefixesAreNodes ==
  ASSUME NEW e \in Seq(Chars)
  PROVE  /\ Prefixes(e) \subseteq Seq(Chars) /\ <<>> \in Prefixes(e) /\ e \in Prefixes(e)
         /\ \A x \in Prefixes(e) : Len(x) <= Len(e) /\ (x # <<>> => Front(x) \in Prefixes(e))
<1>1. Len(e) \in Nat /\ 0 \in 0..Len(e) /\ Len(e) \in 0..Len(e)
  OBVIOUS
<1>2. SubSeq(e, 1, 0) = <<>> /\ SubSeq(e, 1, Len(e)) = e
  OBVIOUS
<1>3. ASSUME NEW l \in 0..Len(e) PROVE SubSeq(e, 1, l) \in Seq(Chars) /\ Len(SubSeq(e, 1, l)) = l /\ \A i \in 1..l : SubSeq(e, 1, l)[i] = e[i]
  <2>1. l \in Nat /\ l <= Len(e)
    BY <1>1
  <2> QED BY <1>1, <2>1
<1>4. ASSUME NEW l \in 0..Len(e), SubSeq(e, 1, l) # <<>> PROVE Front(SubSeq(e, 1, l)) \in Prefixes(e)
  <2>1. PICK x : x = SubSeq(e, 1, l)
    OBVIOUS
  <2>2. x \in Seq(Chars) /\ Len(x) = l /\ x # <<>> /\ \A i \in 1..l : x[i] = e[i]
    BY <1>3, <1>4, <2>1
  <2>3. PICK k \in 0..Len(e) : k = l - 1
    <3>1. l # 0
      BY <2>2
    <3>2. l - 1 \in 0..Len(e)
      BY <1>1, <3>1
    <3> QED BY <3>2
  <2>4. PICK y : y = SubSeq(e, 1, k)
    OBVIOUS
  <2>5. y \in Seq(Chars) /\ Len(y) = k /\ \A i \in 1..k : y[i] = e[i]
    BY <1>3, <2>4
  <2>6. PICK z : z = SubSeq(x, 1, k)
    OBVIOUS
  <2>7. k \in Nat /\ k <= l /\ l \in Nat
    BY <1>1, <2>3
  <2>8. z \in Seq(Chars) /\ Len(z) = k /\ \A i \in 1..k : z[i] = x[i]
    BY <2>2, <2>6, <2>7
  <2>9. \A i \in 1..k : i \in 1..l
    BY <2>7
  <2>10. z = y
    <3>1. \A i \in 1..k : z[i] = y[i]
      BY <2>2, <2>5, <2>8, <2>9
    <3> QED BY <2>5, <2>8, <3>1
  <2>11. Front(x) = z
    BY <2>2, <2>3, <2>6 DEF Front
  <2> QED BY <2>1, <2>4, <2>10, <2>11 DEF Prefixes
<1>5. Prefixes(e) \subseteq Seq(Chars) /\ \A x \in Prefixes(e) : Len(x) <= Len(e) /\ (x # <<>> => Front(x) \in Prefixes(e))
  <2> SUFFICES ASSUME NEW l \in 0..Len(e)
               PROVE  LET x == SubSeq(e, 1, l) IN x \in Seq(Chars) /\ Len(x) <= Len(e) /\ (x # <<>> => Front(x) \in Prefixes(e))
    BY DEF Prefixes
  <2> QED BY <1>1, <1>3, <1>4
<1>6. <<>> \in Prefixes(e) /\ e \in Prefixes(e)
  BY <1>1, <1>2 DEF Prefixes
<1> QED BY <1>5, <1>6

\* add_pattern
LEMMA AddIs ==
  ASSUME NEW outs, NEW A, Registry(outs, A), NEW p \in Patterns
  PROVE  Registry(Add(outs, p), A \cup {p})
<1>0. PICK D, e, B : D = DOMAIN outs /\ e = Lower[p] /\ B = A \cup {p}
  OBVIOUS
<1>1. /\ D \subseteq Seq(Chars) /\ <<>> \in D /\ outs \in [D -> SUBSET A] /\ A \subseteq Patterns /\ B \subseteq Patterns
      /\ \A x \in D : x # <<>> => Front(x) \in D
  BY <1>0 DEF Registry, Trie
<1>2. PICK m \in Nat : \A x \in D : Len(x) <= m
  BY <1>0 DEF Registry
<1>3. e \in Seq(Chars) /\ Len(e) \in Nat
  BY <1>0, LowerIs
<1>4. PICK P : P = Prefixes(e)
  OBVIOUS
<1>5. P \subseteq Seq(Chars) /\ e \in P /\ \A x \in P : Len(x) <= Len(e) /\ (x # <<>> => Front(x) \in P)
  BY <1>3, <1>4, PrefixesAreNodes
<1>6. PICK new : new = Add(outs, p)
  OBVIOUS
<1> DEFINE of(x) == (IF x \in D THEN outs[x] ELSE {}) \cup (IF x = e THEN {p} ELSE {})
<1>7. new = [x \in D \cup P |-> of(x)]
  BY <1>0, <1>4, <1>6 DEF Add
<1>8. \A x \in D \cup P : of(x) \in SUBSET B
  BY <1>0, <1>1
<1>9. DOMAIN new = D \cup P /\ new \in [D \cup P -> SUBSET B] /\ \A x \in D \cup P : new[x] = of(x)
  <2> HIDE DEF of
  <2> QED BY <1>7, <1>8
<1>10. Trie(D \cup P)
  BY <1>1, <1>5 DEF Trie
<1>11. \E k \in Nat : \A x \in D \cup P : Len(x) <= k
  <2>1. \A x \in D \cup P : Len(x) \in Nat
    BY <1>1, <1>5
  <2>2. m + Len(e) \in Nat /\ \A x \in D \cup P : Len(x) <= m + Len(e)
    BY <1>2, <1>3, <1>5, <2>1
  <2> QED BY <2>2
<1>12. ASSUME NEW x \in D \cup P, NEW q \in new[x] PROVE Ends(Lower[q], x)
  <2>1. CASE x \in D /\ q \in outs[x]
    BY <1>0, <2>1 DEF Registry
  <2>2. CASE x = e /\ q = p
    BY <1>0, <1>3, <2>2, EndsOfEnds
  <2> QED BY <1>9, <1>12, <2>1, <2>2
<1>13. ASSUME NEW q \in B PROVE Lower[q] \in D \cup P /\ q \in new[Lower[q]]
  <2>1. CASE q = p
    BY <1>0, <1>5, <1>9, <2>1
  <2>2. CASE q \in A
    <3>1. Lower[q] \in D /\ q \in outs[Lower[q]]
      BY <1>0, <2>2 DEF Registry
    <3> QED BY <1>9, <3>1
  <2> QED BY <1>0, <2>1, <2>2
<1>14. Registry(new, B)
  <2> HIDE DEF of
  <2> QED BY <1>1, <1>9, <1>10, <1>11, <1>12, <1>13 DEF Registry
<1> QED BY <1>0, <1>6, <1>14

\* A finite set as a sequence has each of its elements once.
LEMMA SetAsSequence ==
  ASSUME NEW ps, IsFiniteSet(ps)
  PROVE  LET s == SetToSeq(ps)
         IN  /\ s \in Seq(ps) /\ Len(s) = Cardinality(ps) /\ Range(s) = ps
             /\ \A i, j \in 1..Len(s) : s[i] = s[j] => i = j
             /\ \A p \in ps : \E i \in 1..Len(s) : s[i] = p
<1>1. PICK s, N : s = SetToSeq(ps) /\ N = Cardinality(ps)
  OBVIOUS
<1>2. N \in Nat /\ ExistsBijection(1..N, ps)
  BY <1>1, FS_CardinalityType
<1>3. \E f \in [1..N -> ps] : IsInjective(f)
  BY <1>2 DEF ExistsBijection, Bijection, Injection
<1>4. s \in [1..N -> ps] /\ IsInjective(s)
  BY <1>1, <1>3 DEF SetToSeq
<1>5. s \in Injection(1..N, ps)
  BY <1>4 DEF Injection
<1>6. Cardinality(1..N) = N
  <2>1. Cardinality(1..N) = IF 1 > N THEN 0 ELSE N - 1 + 1
    BY <1>2, FS_Interval
  <2> QED BY <1>2, <2>1
<1>7. s \in Surjection(1..N, ps)
  BY <1>1, <1>5, <1>6, FS_Injection
<1>8. \A p \in ps : \E i \in 1..N : s[i] = p
  BY <1>7 DEF Surjection
<1>9. s \in Seq(ps) /\ Len(s) = N /\ DOMAIN s = 1..N
  BY <1>2, <1>4
<1>10. Range(s) = ps
  BY <1>4, <1>8, <1>9 DEF Range
<1>11. \A i, j \in 1..N : s[i] = s[j] => i = j
  BY <1>4, <1>9 DEF IsInjective
<1> QED BY <1>1, <1>8, <1>9, <1>10, <1>11

\* What can be kept by the nodes
Outputs == UNION {[D -> SUBSET Patterns] : D \in SUBSET Seq(Chars)}

LEMMA AddType ==
  ASSUME NEW outs \in Outputs, NEW p \in Patterns
  PROVE  Add(outs, p) \in Outputs
<1>0. PICK D, e : D = DOMAIN outs /\ e = Lower[p]
  OBVIOUS
<1>1. D \in SUBSET Seq(Chars) /\ outs \in [D -> SUBSET Patterns]
  BY <1>0 DEF Outputs
<1>2. Prefixes(e) \subseteq Seq(Chars)
  BY <1>0, LowerIs, PrefixesAreNodes
<1>3. PICK E : E = D \cup Prefixes(e)
  OBVIOUS
<1>4. Add(outs, p) \in [E -> SUBSET Patterns]
  BY <1>0, <1>1, <1>3 DEF Add
<1>5. E \in SUBSET Seq(Chars)
  BY <1>1, <1>2, <1>3
<1> QED BY <1>4, <1>5 DEF Outputs

LEMMA RegistryType ==
  ASSUME NEW outs, NEW A, Registry(outs, A)
  PROVE  outs \in Outputs
<1>0. PICK D : D = DOMAIN outs
  OBVIOUS
<1>1. D \in SUBSET Seq(Chars) /\ outs \in [D -> SUBSET Patterns]
  <2>1. A \subseteq Patterns /\ Trie(D) /\ outs \in [D -> SUBSET A]
    BY <1>0 DEF Registry
  <2> QED BY <2>1 DEF Trie
<1> QED BY <1>1 DEF Outputs

\* The loop of load_defaults and load_from_json over the patterns
LEMMA AddAllIs ==
  ASSUME NEW outs, NEW A, Registry(outs, A), NEW ps \in SUBSET Patterns
  PROVE  Registry(AddAll(outs, ps), A \cup ps)
<1>1. IsFiniteSet(ps)
  BY MatcherAssumption, FS_Subset
<1>2. PICK s : s = SetToSeq(ps)
  OBVIOUS
<1>3. s \in Seq(ps) /\ Range(s) = ps /\ \A p \in ps : \E i \in 1..Len(s) : s[i] = p
  BY <1>1, <1>2, SetAsSequence
<1>4. PICK N : N = Len(s)
  OBVIOUS
<1>5. N \in Nat /\ \A n \in 1..N : s[n] \in Patterns /\ s[n] \in ps
  BY <1>3, <1>4
<1> DEFINE F == [q \in (1..N) \X Outputs |-> Add(q[2], s[q[1]])]
           Body(f) == [n \in 0..N |-> IF n = 0 THEN outs ELSE Add(f[n - 1], s[n])]
           upTo == CHOOSE h : h = Body(h)
<1>6. outs \in Outputs
  BY RegistryType
<1>7. F \in [(1..N) \X Outputs -> Outputs] /\ \A n \in 1..N, o \in Outputs : F[<<n, o>>] = Add(o, s[n])
  <2>1. \A q \in (1..N) \X Outputs : Add(q[2], s[q[1]]) \in Outputs
    BY <1>5, AddType
  <2> QED BY <2>1
<1> HIDE DEF F
<1>8. PICK f : Run(Outputs, N, outs, F, f)
  BY <1>5, <1>6, <1>7, LoopRuns
<1>9. \A n \in 1..N : n - 1 \in 0..N /\ n \in 0..N
  BY <1>5
<1>10. f = Body(f)
  <2>1. f \in [0..N -> Outputs] /\ f[0] = outs /\ \A n \in 1..N : f[n] = Add(f[n - 1], s[n])
    BY <1>7, <1>8, <1>9 DEF Run
  <2>2. f = [n \in 0..N |-> f[n]]
    BY <2>1
  <2>3. \A n \in 0..N : n = 0 \/ n \in 1..N
    BY <1>5
  <2>4. \A n \in 0..N : f[n] = Body(f)[n]
    BY <2>1, <2>3
  <2> QED BY <2>2, <2>4
<1>11. upTo = Body(upTo)
  BY <1>10
<1>12. AddAll(outs, ps) = upTo[N]
  BY <1>2, <1>4 DEF AddAll
<1> HIDE DEF upTo
<1>13. upTo[0] = outs /\ \A n \in 1..N : upTo[n] = Add(upTo[n - 1], s[n])
  <2>1. \A n \in 0..N : upTo[n] = Body(upTo)[n]
    BY <1>11
  <2>2. 0 \in 0..N /\ \A n \in 1..N : n \in 0..N /\ n # 0
    BY <1>5
  <2> QED BY <2>1, <2>2
<1> DEFINE So(n) == A \cup {s[i] : i \in 1..n}
           Good == {n \in 0..N : Registry(upTo[n], So(n))}
<1>14. N \in Good
  <2>1. 0 \in Good
    <3>1. So(0) = A
      OBVIOUS
    <3> HIDE DEF So
    <3> QED BY <1>5, <1>13, <3>1
  <2>2. ASSUME NEW n \in 1..N, n - 1 \in Good PROVE n \in Good
    <3>1. So(n) = So(n - 1) \cup {s[n]}
      <4>1. \A i : i \in 1..n <=> i \in 1..(n - 1) \/ i = n
        BY <1>5
      <4> QED BY <4>1
    <3>2. PICK o, B : o = upTo[n - 1] /\ B = So(n - 1)
      OBVIOUS
    <3> HIDE DEF So
    <3>3. Registry(o, B)
      BY <2>2, <3>2
    <3>4. Registry(Add(o, s[n]), B \cup {s[n]})
      BY <1>5, <3>3, AddIs
    <3> QED BY <1>9, <1>13, <3>1, <3>2, <3>4
  <2>3. Good \in SUBSET (0..N)
    OBVIOUS
  <2> HIDE DEF Good
  <2>4. Good = 0..N
    BY <1>5, <2>1, <2>2, <2>3, EachTurn
  <2> QED BY <1>5, <2>4
<1>15. So(N) = A \cup ps
  BY <1>3, <1>4, <1>5
<1> HIDE DEF So
<1> QED BY <1>12, <1>14, <1>15

\* What the matcher holds
MatcherInv ==
  /\ Registry(outputs, added) /\ built \in BOOLEAN
  /\ Cardinality(added) <= MaxPatterns
  /\ built => \A x \in DOMAIN outputs : Complete(outputs, added, x)

LEMMA MatcherStep == MatcherInv /\ [MatcherNext]_matcherVars => MatcherInv'
<1> SUFFICES ASSUME MatcherInv, [MatcherNext]_matcherVars PROVE MatcherInv'
  OBVIOUS
<1>1. CASE MatcherNext
  <2>1. PICK ps \in SUBSET Patterns :
          Cardinality(added \cup ps) <= MaxPatterns /\ (Load(ps) \/ LoadRaises(ps) \/ \E p \in ps : AddPattern(p))
    BY <1>1 DEF MatcherNext
  <2>2. PICK outs, A : outs = outputs /\ A = added
    OBVIOUS
  <2>3. Registry(outs, A)
    BY <2>2 DEF MatcherInv
  <2>4. PICK all : all = AddAll(outs, ps)
    OBVIOUS
  <2>5. Registry(all, A \cup ps)
    BY <2>3, <2>4, AddAllIs
  <2>6. CASE Load(ps)
    <3>1. PICK end : end = Built(all)
      OBVIOUS
    <3>2. Registry(end, A \cup ps) /\ \A x \in DOMAIN end : Complete(end, A \cup ps, x)
      BY <2>5, <3>1, BuiltIs
    <3>3. outputs' = end /\ built' = TRUE /\ added' = A \cup ps /\ Cardinality(A \cup ps) <= MaxPatterns
      BY <2>1, <2>2, <2>4, <2>6, <3>1 DEF Load
    <3> QED BY <3>2, <3>3 DEF MatcherInv
  <2>7. CASE LoadRaises(ps)
    <3>1. outputs' = all /\ built' = FALSE /\ added' = A \cup ps /\ Cardinality(A \cup ps) <= MaxPatterns
      BY <2>1, <2>2, <2>4, <2>7 DEF LoadRaises
    <3> QED BY <2>5, <3>1 DEF MatcherInv
  <2>8. ASSUME NEW p \in ps, AddPattern(p) PROVE MatcherInv'
    <3>1. PICK one : one = Add(outs, p)
      OBVIOUS
    <3>2. p \in Patterns /\ Registry(one, A \cup {p})
      BY <2>3, <3>1, AddIs
    <3>3. outputs' = one /\ built' = FALSE /\ added' = A \cup {p}
      BY <2>2, <2>8, <3>1 DEF AddPattern
    <3>4. Cardinality(A \cup {p}) <= MaxPatterns
      <4>1. A \cup ps \subseteq Patterns
        BY <2>5 DEF Registry
      <4>2. IsFiniteSet(A \cup ps)
        BY <4>1, MatcherAssumption, FS_Subset
      <4>3. A \cup {p} \in SUBSET (A \cup ps)
        OBVIOUS
      <4>4. Cardinality(A \cup {p}) <= Cardinality(A \cup ps) /\ Cardinality(A \cup {p}) \in Nat /\ Cardinality(A \cup ps) \in Nat
        BY <4>2, <4>3, FS_Subset, FS_CardinalityType
      <4>5. Cardinality(A \cup ps) <= MaxPatterns /\ MaxPatterns \in Nat
        BY <2>1, <2>2, MatcherAssumption
      <4> QED BY <4>4, <4>5
    <3> QED BY <3>2, <3>3, <3>4 DEF MatcherInv
  <2> QED BY <2>1, <2>6, <2>7, <2>8
<1>2. CASE UNCHANGED matcherVars
  <2>1. outputs' = outputs /\ built' = built /\ added' = added
    BY <1>2 DEF matcherVars
  <2> QED BY <2>1 DEF MatcherInv
<1> QED BY <1>1, <1>2

LEMMA MatcherStarts == MatcherInit => MatcherInv
<1> SUFFICES ASSUME MatcherInit PROVE MatcherInv
  OBVIOUS
<1>1. outputs = [x \in {<<>>} |-> {}] /\ built = FALSE /\ added = {}
  BY DEF MatcherInit
<1>2. DOMAIN outputs = {<<>>} /\ outputs[<<>>] = {} /\ outputs \in [{<<>>} -> SUBSET {}]
  BY <1>1
<1>3. <<>> \in Seq(Chars) /\ Len(<<>>) = 0
  OBVIOUS
<1>4. Trie({<<>>})
  BY <1>3 DEF Trie
<1>5. \E m \in Nat : \A x \in {<<>>} : Len(x) <= m
  <2>1. 0 \in Nat /\ \A x \in {<<>>} : Len(x) <= 0
    BY <1>3
  <2> QED BY <2>1
<1>6. Registry(outputs, {})
  BY <1>2, <1>4, <1>5 DEF Registry
<1>7. Cardinality({}) = 0 /\ 0 <= MaxPatterns
  BY MatcherAssumption, FS_EmptySet
<1> QED BY <1>1, <1>6, <1>7 DEF MatcherInv

\* For every set of patterns, and however they are loaded, failed loads among the
\* loads: the registry lists what was registered, and once the links are built
\* the outputs of a node are the patterns that a text ends with there
\* (add_pattern, build_failure_links, all_patterns).
THEOREM OutputsAreRight == MatcherSpec => []OutputsAreSuffixes
<1>1. ASSUME MatcherInv PROVE OutputsAreSuffixes
  <2>1. added \subseteq Patterns /\ outputs \in [DOMAIN outputs -> SUBSET added] /\ Trie(DOMAIN outputs)
        /\ \A p \in added : Lower[p] \in DOMAIN outputs /\ p \in outputs[Lower[p]]
    BY <1>1 DEF MatcherInv, Registry
  <2>2. AllPatterns = added
    <3>1. \A p : p \in AllPatterns <=> \E x \in DOMAIN outputs : p \in outputs[x]
      BY DEF AllPatterns, Range
    <3> QED BY <2>1, <3>1
  <2>3. ASSUME built, NEW x \in DOMAIN outputs
        PROVE  outputs[x] \ {<<>>} = {p \in added \ {<<>>} : IsSuffix(Lower[p], x)}
    <3>1. outputs[x] \ {<<>>} = {p \in added \ {<<>>} : Ends(Lower[p], x)}
      BY <1>1, <2>3 DEF MatcherInv, Complete
    <3>2. x \in Seq(Chars)
      BY <2>1 DEF Trie
    <3>3. \A p \in added : IsSuffix(Lower[p], x) <=> Ends(Lower[p], x)
      BY <2>1, <3>2, LowerIs, SuffixIs
    <3> QED BY <3>1, <3>3
  <2> QED BY <2>2, <2>3 DEF OutputsAreSuffixes
<1>2. QED BY <1>1, MatcherStarts, MatcherStep, PTL DEF MatcherSpec

\* A text with its case folded
LEMMA Folded ==
  ASSUME NEW t \in Seq(Chars)
  PROVE  /\ Map(FoldAscii, t) \in Seq(Chars) /\ Len(Map(FoldAscii, t)) = Len(t) /\ Len(t) \in Nat
         /\ \A i \in 1..Len(t) : Map(FoldAscii, t)[i] = FoldAscii[t[i]] /\ t[i] \in Chars
<1>1. Len(t) \in Nat /\ DOMAIN t = 1..Len(t) /\ \A i \in 1..Len(t) : t[i] \in Chars
  OBVIOUS
<1>2. \A i \in 1..Len(t) : FoldAscii[t[i]] \in Chars
  BY <1>1, MatcherAssumption
<1>3. Map(FoldAscii, t) = [i \in 1..Len(t) |-> FoldAscii[t[i]]]
  BY <1>1 DEF Map
<1> QED BY <1>1, <1>2, <1>3

\* find_all_occurrences finds every place, since it goes on one behind each.
LEMMA FindAllIs ==
  ASSUME NEW t \in Seq(Chars), NEW p \in Seq(Chars)
  PROVE  FindAll(t, p) = {k \in 1..Len(t) : OccursAt(t, p, k)}
<1>1. PICK N \in Nat : N = Len(t)
  OBVIOUS
<1> DEFINE S == [found : SUBSET Nat, from : Nat]
           s0 == [found |-> {}, from |-> 1]
           F == [q \in (1..N) \X S |-> Look(q[2], t, p, q[1])]
           Body(f) == [k \in 0..N |-> IF k = 0 THEN s0 ELSE Look(f[k - 1], t, p, k)]
           st == CHOOSE h : h = Body(h)
<1>2. s0 \in S /\ s0.found = {} /\ s0.from = 1
  OBVIOUS
<1>3. \A k \in 1..N, s \in S : Look(s, t, p, k) \in S
  <2> SUFFICES ASSUME NEW k \in 1..N, NEW s \in S PROVE Look(s, t, p, k) \in S
    OBVIOUS
  <2>1. [found |-> s.found \cup {k}, from |-> k + 1] \in S
    BY <1>1
  <2> QED BY <2>1 DEF Look, NextStart
<1>4. FindAll(t, p) = st[N].found
  BY <1>1 DEF FindAll
<1> HIDE DEF S, s0
<1>5. F \in [(1..N) \X S -> S] /\ \A k \in 1..N, s \in S : F[<<k, s>>] = Look(s, t, p, k)
  <2>1. \A q \in (1..N) \X S : Look(q[2], t, p, q[1]) \in S
    BY <1>3
  <2> QED BY <2>1
<1> HIDE DEF F
<1>6. PICK f : Run(S, N, s0, F, f)
  BY <1>1, <1>2, <1>5, LoopRuns
<1>7. \A n \in 1..N : n - 1 \in 0..N /\ n \in 0..N
  BY <1>1
<1>8. f = Body(f)
  <2>1. f \in [0..N -> S] /\ f[0] = s0 /\ \A n \in 1..N : f[n] = Look(f[n - 1], t, p, n)
    BY <1>5, <1>6, <1>7 DEF Run
  <2>2. f = [n \in 0..N |-> f[n]]
    BY <2>1
  <2>3. \A n \in 0..N : n = 0 \/ n \in 1..N
    BY <1>1
  <2>4. \A n \in 0..N : f[n] = Body(f)[n]
    BY <2>1, <2>3
  <2> QED BY <2>2, <2>4
<1>9. st = Body(st)
  BY <1>8
<1> HIDE DEF st
<1>10. st = [n \in 0..N |-> st[n]] /\ st[0] = s0 /\ \A n \in 1..N : st[n] = Look(st[n - 1], t, p, n)
  <2>1. \A n \in 0..N : st[n] = Body(st)[n]
    BY <1>9
  <2>2. 0 \in 0..N /\ \A n \in 1..N : n \in 0..N /\ n # 0
    BY <1>1
  <2> QED BY <1>9, <2>1, <2>2
<1>11. st \in [0..N -> S]
  <2>0. \A n \in 1..N : st[n - 1] \in S => st[n] = F[<<n, st[n - 1]>>]
    BY <1>5, <1>10
  <2>1. Run(S, N, s0, F, st)
    BY <1>1, <1>2, <1>5, <1>10, <2>0, RunOf
  <2> QED BY <2>1 DEF Run
<1> DEFINE So(k) == {j \in 1..k : OccursAt(t, p, j)}
           Good == {k \in 0..N : st[k].found = So(k) /\ st[k].from <= k + 1}
<1>12. N \in Good
  <2>1. 0 \in Good
    BY <1>1, <1>2, <1>10
  <2>2. ASSUME NEW n \in 1..N, n - 1 \in Good PROVE n \in Good
    <3>1. PICK s \in S : s = st[n - 1]
      BY <1>7, <1>11
    <3>2. s.found = So(n - 1) /\ s.from <= n /\ s.from \in Nat
      BY <1>1, <2>2, <3>1 DEF S
    <3>3. \A j : j \in 1..n <=> j \in 1..(n - 1) \/ j = n
      BY <1>1
    <3>4. CASE OccursAt(t, p, n)
      <4>1. st[n] = [found |-> s.found \cup {n}, from |-> n + 1]
        BY <1>1, <1>10, <3>1, <3>2, <3>4 DEF Look, NextStart
      <4>2. st[n].found = So(n)
        BY <3>2, <3>3, <3>4, <4>1
      <4> QED BY <1>1, <1>7, <4>1, <4>2
    <3>5. CASE ~OccursAt(t, p, n)
      <4>1. st[n] = s
        BY <1>10, <3>1, <3>5 DEF Look
      <4>2. st[n].found = So(n)
        BY <3>2, <3>3, <3>5, <4>1
      <4> QED BY <1>1, <1>7, <3>2, <4>1, <4>2
    <3> QED BY <3>4, <3>5
  <2>3. Good \in SUBSET (0..N)
    OBVIOUS
  <2> HIDE DEF Good
  <2>4. Good = 0..N
    BY <1>1, <2>1, <2>2, <2>3, EachTurn
  <2> QED BY <1>1, <2>4
<1> QED BY <1>1, <1>4, <1>12

\* A pattern occurs in the folded text where the text is the same but for case.
LEMMA OccursIsSame ==
  ASSUME NEW t \in Seq(Chars), NEW p \in Seq(Chars), p # <<>>, NEW k \in 1..Len(t)
  PROVE  OccursAt(Map(FoldAscii, t), Map(FoldAscii, p), k) <=> Same(t, p, k)
<1>1. PICK u, q : u = Map(FoldAscii, t) /\ q = Map(FoldAscii, p)
  OBVIOUS
<1>2. /\ u \in Seq(Chars) /\ Len(u) = Len(t) /\ Len(t) \in Nat /\ \A i \in 1..Len(t) : u[i] = FoldAscii[t[i]]
      /\ q \in Seq(Chars) /\ Len(q) = Len(p) /\ Len(p) \in Nat /\ \A i \in 1..Len(p) : q[i] = FoldAscii[p[i]]
  BY <1>1, Folded
<1>3. Len(p) > 0 /\ DOMAIN p = 1..Len(p)
  OBVIOUS
<1> SUFFICES ASSUME k + Len(p) - 1 <= Len(t)
             PROVE  SubSeq(u, k, k + Len(p) - 1) = q <=> \A i \in 1..Len(p) : FoldAscii[t[k + i - 1]] = FoldAscii[p[i]]
  BY <1>1, <1>2, <1>3 DEF OccursAt, Same
<1>4. PICK e \in Nat : e = k + Len(p) - 1
  <2>1. k + Len(p) - 1 \in Nat
    BY <1>2, <1>3
  <2> QED BY <2>1
<1>5. PICK v : v = SubSeq(u, k, e)
  OBVIOUS
<1>6. e <= Len(u) /\ e >= k /\ k \in Nat /\ k >= 1 /\ e - k + 1 = Len(p)
  BY <1>2, <1>3, <1>4
<1>7. v \in Seq(Chars) /\ Len(v) = e - k + 1 /\ \A i \in 1..(e - k + 1) : v[i] = u[k + i - 1]
  BY <1>2, <1>5, <1>6
<1>8. Len(v) = Len(p) /\ \A i \in 1..Len(p) : v[i] = u[k + i - 1]
  BY <1>6, <1>7
<1>9. v = q <=> \A i \in 1..Len(p) : v[i] = q[i]
  <2>0. v \in Seq(Chars) /\ q \in Seq(Chars) /\ Len(v) = Len(q) /\ Len(q) = Len(p)
    BY <1>2, <1>7, <1>8
  <2>1. ASSUME \A i \in 1..Len(p) : v[i] = q[i] PROVE v = q
    BY <2>0, <2>1
  <2> QED BY <2>1
<1>10. \A i \in 1..Len(p) : v[i] = FoldAscii[t[k + i - 1]] /\ q[i] = FoldAscii[p[i]]
  <2> SUFFICES ASSUME NEW i \in 1..Len(p) PROVE v[i] = FoldAscii[t[k + i - 1]]
    BY <1>2
  <2>1. k + i - 1 \in 1..Len(t)
    BY <1>2, <1>4, <1>6
  <2> QED BY <1>2, <1>8, <2>1
<1> QED BY <1>4, <1>5, <1>9, <1>10

\* The bytes of the first n characters of t
BytesOf(t, n) == {x \in (1..n) \X (1..4) : x[2] <= Width[t[x[1]]]}

LEMMA OneCharacterMore ==
  ASSUME NEW t \in Seq(Chars), NEW m \in Nat, NEW n, n = m + 1, n <= Len(t),
         IsFiniteSet(BytesOf(t, m))
  PROVE  IsFiniteSet(BytesOf(t, n)) /\ Cardinality(BytesOf(t, n)) = Cardinality(BytesOf(t, m)) + Width[t[n]]
<1>1. PICK w \in 1..4 : w = Width[t[n]]
  <2>1. t[n] \in Chars
    OBVIOUS
  <2> QED BY <2>1, MatcherAssumption
<1> DEFINE Here == {x \in {n} \X (1..4) : x[2] <= w}
           f == [i \in 1..w |-> <<n, i>>]
<1>2. IsFiniteSet(Here) /\ Cardinality(Here) = w
  <2>1. f \in [1..w -> Here]
    OBVIOUS
  <2>2. \A i, j \in 1..w : f[i] = f[j] => i = j
    OBVIOUS
  <2>3. \A x \in Here : \E i \in 1..w : f[i] = x
    <3> SUFFICES ASSUME NEW x \in Here PROVE \E i \in 1..w : f[i] = x
      OBVIOUS
    <3>1. x[2] \in 1..w /\ x = <<n, x[2]>>
      OBVIOUS
    <3> QED BY <3>1
  <2> HIDE DEF f, Here
  <2>4. f \in Bijection(1..w, Here)
    BY <2>1, <2>2, <2>3 DEF Bijection, Injection, Surjection, IsInjective
  <2>5. ExistsBijection(1..w, Here)
    BY <2>4 DEF ExistsBijection
  <2>6. IsFiniteSet(1..w) /\ Cardinality(1..w) = IF 1 > w THEN 0 ELSE w - 1 + 1
    <3>1. 1 \in Int /\ w \in Int
      OBVIOUS
    <3> QED BY <3>1, FS_Interval
  <2>7. Cardinality(1..w) = w
    BY <2>6
  <2> QED BY <2>5, <2>6, <2>7, FS_Bijection
<1>3. BytesOf(t, n) = BytesOf(t, m) \cup Here
  <2>1. 1..n = (1..m) \cup {n}
    OBVIOUS
  <2>2. ASSUME NEW x \in (1..n) \X (1..4), x[2] <= Width[t[x[1]]] PROVE x \in BytesOf(t, m) \cup Here
    <3>1. CASE x[1] = n
      <4>1. x \in {n} \X (1..4)
        BY <3>1
      <4> QED BY <1>1, <2>2, <3>1, <4>1
    <3>2. CASE x[1] # n
      <4>1. x \in (1..m) \X (1..4)
        BY <2>1, <3>2
      <4> QED BY <2>2, <4>1 DEF BytesOf
    <3> QED BY <3>1, <3>2
  <2>3. ASSUME NEW x \in BytesOf(t, m) PROVE x \in BytesOf(t, n)
    BY <2>1 DEF BytesOf
  <2>4. ASSUME NEW x \in Here PROVE x \in BytesOf(t, n)
    <3>1. x[1] = n /\ x \in (1..n) \X (1..4) /\ x[2] <= w
      OBVIOUS
    <3> QED BY <1>1, <3>1 DEF BytesOf
  <2>5. \A x \in BytesOf(t, n) : x \in (1..n) \X (1..4) /\ x[2] <= Width[t[x[1]]]
    BY DEF BytesOf
  <2> HIDE DEF Here
  <2> QED BY <2>2, <2>3, <2>4, <2>5
<1>4. BytesOf(t, m) \cap Here = {}
  BY DEF BytesOf
<1> HIDE DEF Here
<1>5. Cardinality(BytesOf(t, m)) \in Nat
  BY FS_CardinalityType
<1>6. Cardinality(BytesOf(t, m) \cap Here) = 0
  BY <1>4, FS_EmptySet
<1>7. /\ IsFiniteSet(BytesOf(t, m) \cup Here)
      /\ Cardinality(BytesOf(t, m) \cup Here) = Cardinality(BytesOf(t, m)) + Cardinality(Here) - Cardinality(BytesOf(t, m) \cap Here)
  BY <1>2, FS_Union
<1>8. PICK a, b, c : a = Cardinality(BytesOf(t, m)) /\ b = Cardinality(Here) /\ c = Cardinality(BytesOf(t, m) \cap Here)
  OBVIOUS
<1>9. a + b - c = a + w
  BY <1>1, <1>2, <1>5, <1>6, <1>8
<1> QED BY <1>1, <1>3, <1>7, <1>8, <1>9

\* byte_offset: the bytes in front of a place, which folding does not change
LEMMA ByteOffsetIs ==
  ASSUME NEW t \in Seq(Chars), NEW k \in 1..Len(t)
  PROVE  ByteOffset(Map(FoldAscii, t), k) = BytesBefore(t, k)
<1>0. PICK u : u = Map(FoldAscii, t)
  OBVIOUS
<1>1. Len(t) \in Nat /\ \A i \in 1..Len(t) : u[i] = FoldAscii[t[i]] /\ t[i] \in Chars
  BY <1>0, Folded
<1>2. \A i \in 1..Len(t) : Width[u[i]] = Width[t[i]] /\ Width[u[i]] \in Nat
  <2>1. \A c \in Chars : Width[FoldAscii[c]] = Width[c] /\ Width[c] \in 1..4
    BY MatcherAssumption
  <2> QED BY <1>1, <2>1
<1>3. PICK N \in Nat : N = k - 1
  <2>1. k - 1 \in Nat
    BY <1>1
  <2> QED BY <2>1
<1>4. \A i \in 1..N : i \in 1..Len(t) /\ Width[u[i]] = Width[t[i]] /\ Width[u[i]] \in Nat /\ i <= Len(t)
  BY <1>1, <1>2, <1>3
<1> DEFINE F == [q \in (1..N) \X Nat |-> q[2] + Width[u[q[1]]]]
           Body(f) == [i \in 0..N |-> IF i = 0 THEN 0 ELSE f[i - 1] + Width[u[i]]]
           sum == CHOOSE h : h = Body(h)
<1>5. ByteOffset(u, k) = sum[N]
  BY <1>3 DEF ByteOffset
<1>6. F \in [(1..N) \X Nat -> Nat] /\ \A i \in 1..N, s \in Nat : F[<<i, s>>] = s + Width[u[i]]
  <2>1. \A q \in (1..N) \X Nat : q[2] + Width[u[q[1]]] \in Nat
    BY <1>4
  <2> QED BY <2>1
<1> HIDE DEF F
<1>7. PICK f : Run(Nat, N, 0, F, f)
  BY <1>3, <1>6, LoopRuns
<1>8. \A n \in 1..N : n - 1 \in 0..N /\ n \in 0..N
  BY <1>3
<1>9. f = Body(f)
  <2>1. f \in [0..N -> Nat] /\ f[0] = 0 /\ \A n \in 1..N : f[n] = f[n - 1] + Width[u[n]]
    BY <1>6, <1>7, <1>8 DEF Run
  <2>2. f = [n \in 0..N |-> f[n]]
    BY <2>1
  <2>3. \A n \in 0..N : n = 0 \/ n \in 1..N
    BY <1>3
  <2>4. \A n \in 0..N : f[n] = Body(f)[n]
    BY <2>1, <2>3
  <2> QED BY <2>2, <2>4
<1>10. sum = Body(sum)
  BY <1>9
<1> HIDE DEF sum
<1>11. sum[0] = 0 /\ \A n \in 1..N : sum[n] = sum[n - 1] + Width[u[n]]
  <2>1. \A n \in 0..N : sum[n] = Body(sum)[n]
    BY <1>10
  <2>2. 0 \in 0..N /\ \A n \in 1..N : n \in 0..N /\ n # 0
    BY <1>3
  <2> QED BY <2>1, <2>2
<1> DEFINE Good == {n \in 0..N : IsFiniteSet(BytesOf(t, n)) /\ sum[n] = Cardinality(BytesOf(t, n))}
<1>12. N \in Good
  <2>1. 0 \in Good
    <3>1. BytesOf(t, 0) = {}
      BY DEF BytesOf
    <3>2. IsFiniteSet({}) /\ Cardinality({}) = 0
      BY FS_EmptySet
    <3>3. IsFiniteSet(BytesOf(t, 0)) /\ sum[0] = Cardinality(BytesOf(t, 0))
      BY <1>11, <3>1, <3>2
    <3>4. 0 \in 0..N
      BY <1>3
    <3> QED BY <3>3, <3>4
  <2>2. ASSUME NEW n \in 1..N, n - 1 \in Good PROVE n \in Good
    <3>1. PICK m \in Nat : m = n - 1
      <4>1. n - 1 \in Nat
        BY <1>3
      <4> QED BY <4>1
    <3>2. n = m + 1 /\ n <= Len(t) /\ IsFiniteSet(BytesOf(t, m)) /\ sum[m] = Cardinality(BytesOf(t, m))
      BY <1>3, <1>4, <2>2, <3>1
    <3>3. IsFiniteSet(BytesOf(t, n)) /\ Cardinality(BytesOf(t, n)) = Cardinality(BytesOf(t, m)) + Width[t[n]]
      BY <3>2, OneCharacterMore
    <3>4. sum[n] = sum[m] + Width[t[n]]
      BY <1>4, <1>11, <3>1
    <3> QED BY <1>8, <3>2, <3>3, <3>4
  <2>3. Good \in SUBSET (0..N)
    OBVIOUS
  <2> HIDE DEF Good
  <2>4. Good = 0..N
    BY <1>3, <2>1, <2>2, <2>3, EachTurn
  <2> QED BY <1>3, <2>4
<1>13. BytesBefore(t, k) = Cardinality(BytesOf(t, N))
  BY <1>3 DEF BytesBefore, BytesOf
<1> QED BY <1>0, <1>5, <1>12, <1>13

\* What both fallbacks do with one pattern: every place of it, by its bytes
LEMMA HitsAre ==
  ASSUME NEW t \in Seq(Chars), NEW p \in Seq(Chars), p # <<>>, NEW name
  PROVE  Hits(t, name, p) = {<<name, BytesBefore(t, k)>> : k \in {j \in DOMAIN t : Same(t, p, j)}}
<1>1. PICK u, q : u = Map(FoldAscii, t) /\ q = Map(FoldAscii, p)
  OBVIOUS
<1>2. u \in Seq(Chars) /\ q \in Seq(Chars) /\ Len(u) = Len(t) /\ DOMAIN t = 1..Len(t)
  BY <1>1, Folded
<1>3. Hits(t, name, p) = {<<name, ByteOffset(u, k)>> : k \in FindAll(u, q)}
  BY <1>1 DEF Hits
<1>4. FindAll(u, q) = {k \in 1..Len(t) : OccursAt(u, q, k)}
  BY <1>2, FindAllIs
<1>5. \A k \in 1..Len(t) : OccursAt(u, q, k) <=> Same(t, p, k)
  BY <1>1, OccursIsSame
<1>6. \A k \in 1..Len(t) : ByteOffset(u, k) = BytesBefore(t, k)
  BY <1>1, ByteOffsetIs
<1>7. FindAll(u, q) = {j \in DOMAIN t : Same(t, p, j)} /\ FindAll(u, q) \subseteq 1..Len(t)
  BY <1>2, <1>4, <1>5
<1> QED BY <1>3, <1>6, <1>7

\* A part of a sequence
LEMMA SliceIs ==
  ASSUME NEW S, NEW s \in Seq(S), NEW c \in Nat, c >= 1, NEW d \in Nat, d <= Len(s),
         NEW n, n = IF c <= d THEN d - c + 1 ELSE 0
  PROVE  n \in Nat /\ SubSeq(s, c, d) \in Seq(S) /\ Len(SubSeq(s, c, d)) = n /\ \A k \in 1..n : SubSeq(s, c, d)[k] = s[c + k - 1]
<1>1. CASE c <= d
  <2>1. n = d - c + 1
    BY <1>1
  <2> QED BY <1>1, <2>1
<1>2. CASE ~(c <= d)
  <2>1. n = 0 /\ SubSeq(s, c, d) = <<>>
    BY <1>2
  <2> QED BY <2>1
<1> QED BY <1>1, <1>2

\* Where a file is cut into lines, and what is a line
Cuts(file) == {0, Len(file) + 1} \cup {i \in DOMAIN file : file[i] \in Breaks}
Between(file, i, j) == i \in Cuts(file) /\ j \in Cuts(file) /\ i < j /\ \A k \in Cuts(file) : k <= i \/ j <= k

LEMMA LineIs ==
  ASSUME NEW file, NEW l
  PROVE  l \in LinesOf(file) <=> \E i, j : Between(file, i, j) /\ l = SubSeq(file, i + 1, j - 1)
<1> DEFINE cuts == Cuts(file)
           next == {x \in cuts \X cuts : x[1] < x[2] /\ \A i \in cuts : i <= x[1] \/ x[2] <= i}
<1>1. LinesOf(file) = {SubSeq(file, x[1] + 1, x[2] - 1) : x \in next}
  BY DEF LinesOf, Cuts
<1>2. ASSUME NEW x \in next PROVE Between(file, x[1], x[2])
  BY DEF Between
<1>3. ASSUME NEW i, NEW j, Between(file, i, j) PROVE <<i, j>> \in next
  BY <1>3 DEF Between
<1> HIDE DEF next
<1>4. ASSUME NEW i, NEW j, Between(file, i, j), l = SubSeq(file, i + 1, j - 1) PROVE l \in LinesOf(file)
  <2>1. <<i, j>> \in next /\ <<i, j>>[1] = i /\ <<i, j>>[2] = j
    BY <1>3, <1>4
  <2> QED BY <1>1, <1>4, <2>1
<1> QED BY <1>1, <1>2, <1>4

\* The characters of a file
InFile == Chars \cup {"\t", "\n"}

\* g is f, of whole lines, and the line l.
LineAdded(f, l, g) ==
  /\ f \in Seq(InFile) /\ (f # <<>> => f[Len(f)] \in Breaks)
  /\ l \in Seq(InFile) /\ (\A i \in 1..Len(l) : l[i] \notin Breaks)
  /\ g \in Seq(InFile) /\ Len(g) = Len(f) + Len(l) + 1 /\ g[Len(g)] \in Breaks
  /\ \A i \in 1..Len(f) : g[i] = f[i]
  /\ \A i \in 1..Len(l) : g[Len(f) + i] = l[i]

LEMMA LineMore ==
  ASSUME NEW f, NEW l, NEW g, LineAdded(f, l, g)
  PROVE  LinesOf(g) = LinesOf(f) \cup {l}
<1>1. f \in Seq(InFile) /\ l \in Seq(InFile) /\ g \in Seq(InFile)
  BY DEF LineAdded
<1>2. PICK a, b \in Nat : a = Len(f) /\ b = Len(f) + Len(l) + 1
  BY <1>1
<1>3. /\ Len(g) = b /\ g[b] \in Breaks /\ Len(l) \in Nat /\ b = a + Len(l) + 1
      /\ \A i \in 1..a : g[i] = f[i]
      /\ \A i \in 1..Len(l) : g[a + i] = l[i]
  BY <1>1, <1>2 DEF LineAdded
<1>4. (f # <<>> => f[a] \in Breaks) /\ \A i \in 1..Len(l) : l[i] \notin Breaks
  BY <1>2 DEF LineAdded
<1> DEFINE Old == {0} \cup {i \in 1..a : f[i] \in Breaks}
<1>5. \A k : k \in Cuts(f) <=> k \in Old \/ k = a + 1
  BY <1>1, <1>2 DEF Cuts
<1>6. \A k : k \in Cuts(g) <=> k \in Old \/ k = b \/ k = b + 1
  <2>1. \A i \in 1..b : i \in 1..a \/ i = b \/ (i - a \in 1..Len(l) /\ a + (i - a) = i)
    BY <1>2, <1>3
  <2>2. ASSUME NEW i \in 1..b PROVE g[i] \in Breaks <=> (i \in 1..a /\ f[i] \in Breaks) \/ i = b
    <3>1. CASE i \in 1..a
      BY <1>2, <1>3, <3>1
    <3>2. CASE i = b
      BY <1>2, <1>3, <3>2
    <3>3. CASE i \notin 1..a /\ i # b
      <4>1. i - a \in 1..Len(l) /\ a + (i - a) = i
        BY <2>1, <3>3
      <4>2. g[i] = l[i - a]
        BY <1>3, <4>1
      <4> QED BY <1>4, <3>3, <4>1, <4>2
    <3> QED BY <3>1, <3>2, <3>3
  <2>3. \A i \in 1..a : i \in 1..b
    BY <1>2
  <2>4. DOMAIN g = 1..b /\ b \in 1..b
    BY <1>1, <1>2, <1>3
  <2> QED BY <1>3, <2>2, <2>3, <2>4 DEF Cuts
<1>7. a \in Old /\ (\A k \in Old : k \in Nat /\ k <= a) /\ a < b
  <2>1. a # 0 => f # <<>> /\ a \in 1..a
    BY <1>1, <1>2
  <2>2. a \in Old
    BY <1>4, <2>1
  <2> QED BY <1>2, <1>3, <2>2
<1> HIDE DEF Old
<1>8. ASSUME NEW i, NEW j, j \in Old
      PROVE  /\ Between(f, i, j) <=> Between(g, i, j)
             /\ Between(f, i, j) => SubSeq(f, i + 1, j - 1) = SubSeq(g, i + 1, j - 1)
  <2>1. Between(f, i, j) <=> Between(g, i, j)
    <3>1. \A k \in Nat : k < j => k # a + 1 /\ k # b /\ k # b + 1
      BY <1>2, <1>7, <1>8
    <3>2. \A k \in {a + 1, b, b + 1} : j <= k /\ k \in Nat
      BY <1>2, <1>7, <1>8
    <3>3. ASSUME Between(f, i, j) PROVE Between(g, i, j)
      BY <1>5, <1>6, <1>7, <1>8, <3>1, <3>2, <3>3 DEF Between
    <3>4. ASSUME Between(g, i, j) PROVE Between(f, i, j)
      BY <1>5, <1>6, <1>7, <1>8, <3>1, <3>2, <3>4 DEF Between
    <3> QED BY <3>3, <3>4
  <2>2. ASSUME Between(f, i, j) PROVE SubSeq(f, i + 1, j - 1) = SubSeq(g, i + 1, j - 1)
    <3>1. i \in Old /\ i < j /\ i \in Nat /\ j \in Nat /\ j <= a
      BY <1>2, <1>5, <1>7, <1>8, <2>2 DEF Between
    <3>2. PICK c, d \in Nat : c = i + 1 /\ d = j - 1
      <4>1. i + 1 \in Nat /\ j - 1 \in Nat
        BY <3>1
      <4> QED BY <4>1
    <3>3. PICK u, v : u = SubSeq(f, c, d) /\ v = SubSeq(g, c, d)
      OBVIOUS
    <3>4. c >= 1 /\ d <= a /\ d <= b
      BY <1>2, <1>7, <3>1, <3>2
    <3>5. PICK n : n = IF c <= d THEN d - c + 1 ELSE 0
      OBVIOUS
    <3>6. n \in Nat /\ u \in Seq(InFile) /\ Len(u) = n /\ \A k \in 1..n : u[k] = f[c + k - 1]
      <4>1. f \in Seq(InFile) /\ d <= Len(f)
        BY <1>1, <1>2, <3>4
      <4>2. PICK w : w = SubSeq(f, c, d)
        OBVIOUS
      <4>3. w \in Seq(InFile) /\ Len(w) = (IF c <= d THEN d - c + 1 ELSE 0) /\ \A k \in 1..Len(w) : w[k] = f[c + k - 1]
        BY <3>2, <3>4, <4>1, <4>2, SliceIs
      <4>4. (IF c <= d THEN d - c + 1 ELSE 0) \in Nat
        BY <3>2
      <4> QED BY <3>3, <3>5, <4>2, <4>3, <4>4
    <3>7. v \in Seq(InFile) /\ Len(v) = n /\ \A k \in 1..n : v[k] = g[c + k - 1]
      <4>1. g \in Seq(InFile) /\ d <= Len(g)
        BY <1>1, <1>3, <3>4
      <4>2. PICK w : w = SubSeq(g, c, d)
        OBVIOUS
      <4>3. w \in Seq(InFile) /\ Len(w) = (IF c <= d THEN d - c + 1 ELSE 0) /\ \A k \in 1..Len(w) : w[k] = g[c + k - 1]
        BY <3>2, <3>4, <4>1, <4>2, SliceIs
      <4>4. (IF c <= d THEN d - c + 1 ELSE 0) \in Nat
        BY <3>2
      <4> QED BY <3>3, <3>5, <4>2, <4>3, <4>4
    <3>8. \A k \in 1..n : c + k - 1 \in 1..a
      BY <1>2, <3>2, <3>4, <3>5, <3>6
    <3>9. \A k \in 1..n : u[k] = v[k]
      BY <1>3, <3>6, <3>7, <3>8
    <3>10. u = v
      BY <3>6, <3>7, <3>9
    <3> QED BY <3>2, <3>3, <3>10
  <2> QED BY <2>1, <2>2
<1>9. Between(f, a, a + 1) /\ SubSeq(f, a + 1, a + 1 - 1) = <<>>
  <2>1. a + 1 - 1 = a /\ SubSeq(f, a + 1, a) = <<>>
    BY <1>1, <1>2
  <2>2. Between(f, a, a + 1)
    <3>1. a \in Cuts(f) /\ a + 1 \in Cuts(f) /\ a < a + 1
      BY <1>2, <1>5, <1>7
    <3>2. ASSUME NEW k \in Cuts(f) PROVE k <= a \/ a + 1 <= k
      <4>1. k \in Old \/ k = a + 1
        BY <1>5
      <4>2. CASE k \in Old
        <5>1. k \in Nat /\ k <= a /\ a < b
          BY <1>7, <4>2
        <5> QED BY <5>1
      <4>3. CASE k = a + 1
        BY <4>3
      <4> QED BY <4>1, <4>2, <4>3
    <3> QED BY <3>1, <3>2 DEF Between
  <2> QED BY <2>1, <2>2
<1>10. Between(g, b, b + 1) /\ SubSeq(g, b + 1, b + 1 - 1) = <<>>
  <2>1. b + 1 - 1 = b /\ SubSeq(g, b + 1, b) = <<>>
    BY <1>1, <1>2, <1>3
  <2>2. Between(g, b, b + 1)
    <3>1. b \in Cuts(g) /\ b + 1 \in Cuts(g) /\ b < b + 1
      BY <1>2, <1>6, <1>7
    <3>2. ASSUME NEW k \in Cuts(g) PROVE k <= b \/ b + 1 <= k
      <4>1. k \in Old \/ k = b \/ k = b + 1
        BY <1>6
      <4>2. CASE k \in Old
        <5>1. k \in Nat /\ k <= a /\ a < b
          BY <1>7, <4>2
        <5> QED BY <5>1
      <4>3. CASE k = b \/ k = b + 1
        BY <4>3
      <4> QED BY <4>1, <4>2, <4>3
    <3> QED BY <3>1, <3>2 DEF Between
  <2> QED BY <2>1, <2>2
<1>11. Between(g, a, b) /\ SubSeq(g, a + 1, b - 1) = l
  <2>1. PICK d \in Nat : d = b - 1
    <3>1. b - 1 \in Nat
      BY <1>2, <1>3
    <3> QED BY <3>1
  <2>2. PICK v : v = SubSeq(g, a + 1, d)
    OBVIOUS
  <2>3. d = a + Len(l) /\ d <= b
    BY <1>2, <1>3, <2>1
  <2>4. v \in Seq(InFile) /\ Len(v) = Len(l) /\ \A k \in 1..Len(l) : v[k] = g[a + 1 + k - 1]
    BY <1>1, <1>2, <1>3, <2>2, <2>3
  <2>5. \A k \in 1..Len(l) : a + 1 + k - 1 = a + k
    BY <1>2, <1>3
  <2>6. \A k \in 1..Len(l) : v[k] = l[k]
    BY <1>3, <2>4, <2>5
  <2>7. v = l
    <3>1. v \in Seq(InFile) /\ Len(v) = Len(l)
      BY <2>4
    <3> QED BY <1>1, <2>6, <3>1
  <2>8. Between(g, a, b)
    <3>1. a \in Cuts(g) /\ b \in Cuts(g) /\ a < b
      BY <1>2, <1>6, <1>7
    <3>2. ASSUME NEW k \in Cuts(g) PROVE k <= a \/ b <= k
      <4>1. k \in Old \/ k = b \/ k = b + 1
        BY <1>6
      <4>2. CASE k \in Old
        <5>1. k \in Nat /\ k <= a /\ a < b
          BY <1>7, <4>2
        <5> QED BY <5>1
      <4>3. CASE k = b \/ k = b + 1
        BY <4>3
      <4> QED BY <4>1, <4>2, <4>3
    <3> QED BY <3>1, <3>2 DEF Between
  <2> QED BY <2>1, <2>2, <2>7, <2>8
<1>12. ASSUME NEW x \in LinesOf(f) PROVE x \in LinesOf(g)
  <2>1. PICK i, j : Between(f, i, j) /\ x = SubSeq(f, i + 1, j - 1)
    BY LineIs
  <2>2. CASE j \in Old
    <3>1. Between(g, i, j) /\ x = SubSeq(g, i + 1, j - 1)
      BY <1>8, <2>1, <2>2
    <3> QED BY <3>1, LineIs
  <2>3. CASE j = a + 1
    <3>1. i = a
      BY <1>2, <1>5, <1>7, <2>1, <2>3 DEF Between
    <3>2. x = <<>>
      BY <1>9, <2>1, <2>3, <3>1
    <3> QED BY <1>10, <3>2, LineIs
  <2> QED BY <1>5, <2>1, <2>2, <2>3 DEF Between
<1>13. ASSUME NEW x \in LinesOf(g) PROVE x \in LinesOf(f) \cup {l}
  <2>1. PICK i, j : Between(g, i, j) /\ x = SubSeq(g, i + 1, j - 1)
    BY LineIs
  <2>2. CASE j \in Old
    <3>1. Between(f, i, j) /\ x = SubSeq(f, i + 1, j - 1)
      BY <1>8, <2>1, <2>2
    <3>2. x \in LinesOf(f)
      BY <3>1, LineIs
    <3> QED BY <3>2
  <2>3. CASE j = b
    <3>0. i \in Cuts(g) /\ a \in Cuts(g) /\ i < b /\ (a <= i \/ b <= a)
      BY <1>6, <1>7, <2>1, <2>3 DEF Between
    <3>1. i \in Old /\ (a <= i \/ b <= a)
      <4>1. ~(b < b) /\ ~(b + 1 < b)
        BY <1>2
      <4> QED BY <1>6, <3>0, <4>1
    <3>2. i = a
      BY <1>2, <1>7, <3>1
    <3> QED BY <1>11, <2>1, <2>3, <3>2
  <2>4. CASE j = b + 1
    <3>1. i = b
      BY <1>2, <1>6, <1>7, <2>1, <2>4 DEF Between
    <3>2. x = <<>>
      BY <1>10, <2>1, <2>4, <3>1
    <3>3. x \in LinesOf(f)
      BY <1>9, <3>2, LineIs
    <3> QED BY <3>3
  <2> QED BY <1>6, <2>1, <2>2, <2>3, <2>4 DEF Between
<1>14. l \in LinesOf(g)
  BY <1>11, LineIs
<1> QED BY <1>12, <1>13, <1>14

\* The line of a pattern, without its end
Signature(i, p) == <<Made[i], "\t">> \o p

LEMMA LineForIs ==
  ASSUME NEW i \in 1..Len(Made), NEW p \in Seq(Chars), Plain(p)
  PROVE  /\ Signature(i, p) \in Seq(InFile) /\ Len(Signature(i, p)) = Len(p) + 2 /\ Len(p) \in Nat \ {0}
         /\ Signature(i, p)[1] = Made[i] /\ Made[i] \in Chars /\ Made[i] \notin Blanks \cup Breaks \cup {"#"}
         /\ Signature(i, p)[2] = "\t" /\ "\t" \in Blanks
         /\ \A j \in 1..Len(p) : Signature(i, p)[j + 2] = p[j]
         /\ Signature(i, p)[Len(p) + 2] \notin Blanks
         /\ \A j \in 1..Len(Signature(i, p)) : Signature(i, p)[j] \notin Breaks
         /\ LineFor(i, p) = Signature(i, p) \o <<"\n">>
<1>1. PICK l, c : l = Signature(i, p) /\ c = Made[i]
  OBVIOUS
<1>2. Made \in Seq(Chars) /\ DOMAIN Made = 1..Len(Made) /\ Made[i] \notin Blanks \cup Breaks \cup {"#"}
  <2>1. Made \in Seq(Chars)
    BY MatcherAssumption
  <2>2. DOMAIN Made = 1..Len(Made)
    BY <2>1
  <2> QED BY <2>1, <2>2, MatcherAssumption
<1>3. c \in Chars /\ c \notin Blanks \cup Breaks \cup {"#"}
  BY <1>1, <1>2
<1>4. "\t" \in InFile /\ "\n" \in InFile /\ "\t" \in Blanks /\ "\t" \notin Breaks /\ c \in InFile
  BY <1>3 DEF InFile, Blanks, Breaks
<1>5. p # <<>> /\ Last(p) \notin Blanks /\ DOMAIN p = 1..Len(p) /\ Len(p) \in Nat \ {0} /\ \A j \in 1..Len(p) : p[j] \notin Breaks
  <2>1. DOMAIN p = 1..Len(p)
    OBVIOUS
  <2>2. p # <<>> /\ Last(p) \notin Blanks /\ \A j \in DOMAIN p : p[j] \notin Breaks
    BY DEF Plain
  <2>3. Len(p) \in Nat \ {0}
    BY <2>2
  <2> QED BY <2>1, <2>2, <2>3
<1>6. p \in Seq(InFile)
  BY DEF InFile
<1>7. PICK h : h = <<c, "\t">>
  OBVIOUS
<1>8. h \in Seq(InFile) /\ Len(h) = 2 /\ h[1] = c /\ h[2] = "\t"
  BY <1>4, <1>7
<1>9. l = h \o p
  BY <1>1, <1>7 DEF Signature
<1>10. /\ l \in Seq(InFile) /\ Len(l) = Len(p) + 2 /\ l[1] = c /\ l[2] = "\t"
       /\ \A j \in 1..Len(p) : l[j + 2] = p[j]
  <2>1. l \in Seq(InFile) /\ Len(l) = 2 + Len(p) /\ (\A j \in 1..2 : l[j] = h[j]) /\ \A j \in 1..Len(p) : l[2 + j] = p[j]
    <3>1. h \in Seq(InFile)
      BY <1>8
    <3>2. /\ l \in Seq(InFile) /\ Len(l) = Len(h) + Len(p)
          /\ \A j \in 1..Len(h) : l[j] = h[j]
          /\ \A j \in 1..Len(p) : l[Len(h) + j] = p[j]
      BY <1>6, <1>9, <3>1
    <3>3. Len(h) = 2
      BY <1>8
    <3> QED BY <3>2, <3>3
  <2>2. \A j \in 1..Len(p) : 2 + j = j + 2
    OBVIOUS
  <2> QED BY <1>5, <1>8, <2>1, <2>2
<1>11. l[Len(p) + 2] \notin Blanks
  <2>1. Len(p) \in 1..Len(p) /\ p[Len(p)] \notin Blanks
    BY <1>5 DEF Last
  <2> QED BY <1>10, <2>1
<1>12. ASSUME NEW j \in 1..Len(l) PROVE l[j] \notin Breaks
  <2>1. CASE j = 1
    BY <1>3, <1>10, <2>1
  <2>2. CASE j = 2
    BY <1>4, <1>10, <2>2
  <2>3. CASE j # 1 /\ j # 2
    <3>1. PICK k \in 1..Len(p) : k + 2 = j
      <4>1. j - 2 \in 1..Len(p) /\ (j - 2) + 2 = j
        BY <1>5, <1>10, <2>3
      <4> QED BY <4>1
    <3> QED BY <1>5, <1>10, <3>1
  <2> QED BY <2>1, <2>2, <2>3
<1>13. LineFor(i, p) = l \o <<"\n">>
  BY <1>1 DEF LineFor, Signature
<1> QED BY <1>1, <1>3, <1>4, <1>5, <1>10, <1>11, <1>12, <1>13

\* An empty file is one empty line.
LEMMA NoLines == LinesOf(<<>>) = {<<>>}
<1>0. PICK f : f = <<>>
  OBVIOUS
<1>1. \A k : k \in Cuts(f) <=> k = 0 \/ k = 1
  BY <1>0 DEF Cuts
<1>2. Between(f, 0, 1)
  BY <1>1 DEF Between
<1>3. SubSeq(f, 0 + 1, 1 - 1) = <<>>
  BY <1>0
<1>4. \A i, j : Between(f, i, j) => i = 0 /\ j = 1
  BY <1>1 DEF Between
<1>5. ASSUME NEW l \in LinesOf(f) PROVE l = <<>>
  <2>1. PICK i, j : Between(f, i, j) /\ l = SubSeq(f, i + 1, j - 1)
    BY LineIs
  <2> QED BY <1>3, <1>4, <2>1
<1>6. <<>> \in LinesOf(f)
  <2>1. PICK l : l = SubSeq(f, 0 + 1, 1 - 1)
    OBVIOUS
  <2>2. l \in LinesOf(f)
    BY <1>2, <2>1, LineIs
  <2> QED BY <1>3, <2>1, <2>2
<1> QED BY <1>0, <1>5, <1>6

\* One pattern more in the file
LEMMA PatternMore ==
  ASSUME NEW f \in Seq(InFile), f # <<>> => f[Len(f)] \in Breaks,
         NEW i \in 1..Len(Made), NEW p \in Seq(Chars), Plain(p)
  PROVE  LET g == f \o LineFor(i, p)
         IN  g \in Seq(InFile) /\ g[Len(g)] \in Breaks /\ LinesOf(g) = LinesOf(f) \cup {Signature(i, p)}
<1>1. PICK l, m, g : l = Signature(i, p) /\ m = LineFor(i, p) /\ g = f \o m
  OBVIOUS
<1>2. l \in Seq(InFile) /\ (\A j \in 1..Len(l) : l[j] \notin Breaks) /\ m = l \o <<"\n">>
  BY <1>1, LineForIs
<1>3. "\n" \in InFile /\ "\n" \in Breaks
  BY DEF InFile, Breaks
<1>4. /\ m \in Seq(InFile) /\ Len(m) = Len(l) + 1 /\ Len(l) \in Nat /\ m[Len(l) + 1] = "\n"
      /\ \A j \in 1..Len(l) : m[j] = l[j]
  BY <1>2, <1>3
<1>5. /\ g \in Seq(InFile) /\ Len(g) = Len(f) + Len(m) /\ Len(f) \in Nat
      /\ \A j \in 1..Len(f) : g[j] = f[j]
      /\ \A j \in 1..Len(m) : g[Len(f) + j] = m[j]
  <2>1. m \in Seq(InFile)
    BY <1>4
  <2> QED BY <1>1, <2>1
<1>6. Len(g) = Len(f) + Len(l) + 1 /\ Len(l) + 1 \in 1..Len(m) /\ Len(f) + (Len(l) + 1) = Len(g)
  BY <1>4, <1>5
<1>7. g[Len(g)] = m[Len(l) + 1]
  BY <1>5, <1>6
<1>8. \A j \in 1..Len(l) : g[Len(f) + j] = l[j]
  <2>1. \A j \in 1..Len(l) : j \in 1..Len(m)
    BY <1>4
  <2> QED BY <1>4, <1>5, <2>1
<1>9. g[Len(g)] \in Breaks
  BY <1>3, <1>4, <1>7
<1>10. LineAdded(f, l, g)
  <2>1. g \in Seq(InFile) /\ Len(g) = Len(f) + Len(l) + 1 /\ \A j \in 1..Len(f) : g[j] = f[j]
    BY <1>5, <1>6
  <2> QED BY <1>2, <1>8, <1>9, <2>1 DEF LineAdded
<1>11. LinesOf(g) = LinesOf(f) \cup {l}
  BY <1>10, LineMore
<1> QED BY <1>1, <1>5, <1>9, <1>11

LEMMA MinMaxAre ==
  ASSUME NEW I \in SUBSET Nat, NEW m \in I
  PROVE  /\ (\A k \in I : m <= k) => Min(I) = m
         /\ (\A k \in I : k <= m) => Max(I) = m
<1>1. ASSUME \A k \in I : m <= k PROVE Min(I) = m
  <2>1. Min(I) \in I /\ \A k \in I : Min(I) =< k
    BY <1>1 DEF Min
  <2>2. Min(I) <= m /\ m <= Min(I) /\ m \in Nat /\ Min(I) \in Nat
    BY <1>1, <2>1
  <2> QED BY <2>2
<1>2. ASSUME \A k \in I : k <= m PROVE Max(I) = m
  <2>0. \A k \in I : m >= k
    BY <1>2
  <2>1. Max(I) \in I /\ \A k \in I : Max(I) >= k
    BY <2>0 DEF Max
  <2>2. Max(I) <= m /\ m <= Max(I) /\ m \in Nat /\ Max(I) \in Nat
    BY <1>2, <2>1
  <2> QED BY <2>2
<1> QED BY <1>1, <1>2

\* What _load_signatures reads in the line of a pattern: nothing is stripped, and
\* the first tab is the one behind the name.
LEMMA SignatureIsRead ==
  ASSUME NEW i \in 1..Len(Made), NEW p \in Seq(Chars), Plain(p)
  PROVE  /\ Strip(Signature(i, p)) = Signature(i, p) /\ Signature(i, p) # <<>> /\ Signature(i, p)[1] # "#"
         /\ PairOf(Signature(i, p)) = <<<<Made[i]>>, p>>
<1>0. PICK l, N : l = Signature(i, p) /\ N = Len(p) + 2
  OBVIOUS
<1>1. /\ l \in Seq(InFile) /\ Len(l) = N /\ N \in Nat /\ N >= 3 /\ N = Len(p) + 2 /\ Len(p) \in Nat
      /\ l[1] = Made[i] /\ Made[i] \notin Blanks /\ Made[i] # "#" /\ Made[i] \in Chars
      /\ l[2] = "\t" /\ "\t" \in Blanks
      /\ \A j \in 1..Len(p) : l[j + 2] = p[j]
      /\ l[N] \notin Blanks
  <2>1. /\ l \in Seq(InFile) /\ Len(l) = N /\ Len(p) \in Nat \ {0}
        /\ l[1] = Made[i] /\ Made[i] \notin Blanks \cup Breaks \cup {"#"} /\ Made[i] \in Chars
        /\ l[2] = "\t" /\ "\t" \in Blanks
        /\ \A j \in 1..Len(p) : l[j + 2] = p[j]
        /\ l[N] \notin Blanks
    BY <1>0, LineForIs
  <2>2. N \in Nat /\ N >= 3
    BY <1>0, <2>1
  <2> QED BY <1>0, <2>1, <2>2
<1> DEFINE I == {j \in 1..Len(l) : l[j] \notin Blanks}
           T == {j \in 1..Len(l) : l[j] = "\t"}
<1>2. I \in SUBSET Nat /\ 1 \in I /\ N \in I /\ \A k \in I : 1 <= k /\ k <= N
  BY <1>1
<1>3. Min(I) = 1 /\ Max(I) = N
  <2> HIDE DEF I
  <2> QED BY <1>2, MinMaxAre
<1>4. Strip(l) = SubSeq(l, 1, N)
  <2>0. PICK a, b : a = (IF I # {} THEN Min(I) ELSE 0) /\ b = (IF I # {} THEN Max(I) ELSE 0)
    OBVIOUS
  <2>1. Strip(l) = IF a = 0 THEN <<>> ELSE SubSeq(l, a, b)
    BY <2>0 DEF Strip, SelectInSeq, SelectLastInSeq
  <2> HIDE DEF I
  <2>2. a = 1 /\ b = N
    BY <1>2, <1>3, <2>0
  <2> QED BY <2>1, <2>2
<1>5. Strip(l) = l
  BY <1>1, <1>4
<1>6. T \in SUBSET Nat /\ 2 \in T /\ \A k \in T : 2 <= k
  <2>1. 1 \notin T
    BY <1>1
  <2>2. T \in SUBSET Nat /\ 2 \in T /\ \A k \in T : 1 <= k
    BY <1>1
  <2> HIDE DEF T
  <2>3. ASSUME NEW k \in T PROVE 2 <= k
    <3>1. k # 1 /\ k \in Nat /\ 1 <= k
      BY <2>1, <2>2
    <3> QED BY <3>1
  <2> QED BY <2>2, <2>3
<1>7. Min(T) = 2
  <2> HIDE DEF T
  <2> QED BY <1>6, MinMaxAre
<1>8. PairOf(l) = <<SubSeq(l, 1, 1), SubSeq(l, 3, N)>>
  <2>1. PICK tab : tab = IF T # {} THEN Min(T) ELSE 0
    OBVIOUS
  <2>2. PairOf(l) = IF tab > 0 THEN <<SubSeq(l, 1, tab - 1), SubSeq(l, tab + 1, Len(l))>> ELSE <<l, l>>
    BY <2>1 DEF PairOf, SelectInSeq
  <2> HIDE DEF T
  <2>3. tab = 2
    BY <1>6, <1>7, <2>1
  <2> QED BY <1>1, <2>2, <2>3
<1>9. SubSeq(l, 1, 1) = <<Made[i]>>
  <2>1. PICK u : u = SubSeq(l, 1, 1)
    OBVIOUS
  <2>2. u \in Seq(InFile) /\ Len(u) = 1 /\ u[1] = l[1]
    BY <1>1, <2>1
  <2>3. u = <<Made[i]>>
    BY <1>1, <2>2
  <2> QED BY <2>1, <2>3
<1>10. SubSeq(l, 3, N) = p
  <2>1. PICK u : u = SubSeq(l, 3, N)
    OBVIOUS
  <2>2. PICK n : n = IF 3 <= N THEN N - 3 + 1 ELSE 0
    OBVIOUS
  <2>3. n = Len(p) /\ N <= Len(l)
    BY <1>1, <2>2
  <2>4. u \in Seq(InFile) /\ Len(u) = n /\ \A k \in 1..n : u[k] = l[3 + k - 1]
    BY <1>1, <2>1, <2>2, <2>3, SliceIs
  <2>5. \A k \in 1..Len(p) : 3 + k - 1 = k + 2
    BY <1>1
  <2>6. \A k \in 1..Len(p) : u[k] = p[k]
    BY <1>1, <2>3, <2>4, <2>5
  <2>7. p \in Seq(InFile) /\ u \in Seq(InFile) /\ Len(u) = Len(p)
    BY <2>3, <2>4 DEF InFile
  <2>8. u = p
    BY <2>6, <2>7
  <2> QED BY <2>1, <2>8
<1>11. l # <<>> /\ l[1] # "#"
  BY <1>1
<1> QED BY <1>0, <1>5, <1>8, <1>9, <1>10, <1>11

LEMMA NothingStripped == Strip(<<>>) = <<>>
<1>1. {i \in 1..Len(<<>>) : <<>>[i] \notin Blanks} = {}
  OBVIOUS
<1> QED BY <1>1 DEF Strip, SelectInSeq

\* The lines of the file that _c_match writes
LEMMA FileIs ==
  ASSUME NEW ps \in Seq(Seq(Chars)), Len(ps) <= Len(Made), \A n \in 1..Len(ps) : Plain(ps[n])
  PROVE  \A l : l \in LinesOf(FileOf(ps)) <=> l = <<>> \/ \E n \in 1..Len(ps) : l = Signature(n, ps[n])
<1>1. PICK N \in Nat : N = Len(ps)
  OBVIOUS
<1>2. \A n \in 1..N : n \in 1..Len(Made) /\ ps[n] \in Seq(Chars) /\ Plain(ps[n])
  <2>1. Len(Made) \in Nat
    BY MatcherAssumption
  <2> QED BY <1>1, <2>1
<1> DEFINE S == {f \in Seq(InFile) : f # <<>> => f[Len(f)] \in Breaks}
           F == [q \in (1..N) \X S |-> q[2] \o LineFor(q[1], ps[q[1]])]
           Body(f) == [n \in 0..N |-> IF n = 0 THEN <<>> ELSE f[n - 1] \o LineFor(n, ps[n])]
           upTo == CHOOSE h : h = Body(h)
<1>3. <<>> \in S
  <2>1. <<>> \in Seq(InFile)
    OBVIOUS
  <2> QED BY <2>1
<1>4. ASSUME NEW n \in 1..N, NEW f \in S
      PROVE  f \o LineFor(n, ps[n]) \in S /\ LinesOf(f \o LineFor(n, ps[n])) = LinesOf(f) \cup {Signature(n, ps[n])}
  <2>1. PICK g : g = f \o LineFor(n, ps[n])
    OBVIOUS
  <2>2. g \in Seq(InFile) /\ g[Len(g)] \in Breaks /\ LinesOf(g) = LinesOf(f) \cup {Signature(n, ps[n])}
    BY <1>2, <2>1, PatternMore
  <2> QED BY <2>1, <2>2
<1>5. FileOf(ps) = upTo[N]
  BY <1>1 DEF FileOf
<1> HIDE DEF S
<1>6. F \in [(1..N) \X S -> S] /\ \A n \in 1..N, f \in S : F[<<n, f>>] = f \o LineFor(n, ps[n])
  <2>1. \A q \in (1..N) \X S : q[2] \o LineFor(q[1], ps[q[1]]) \in S
    BY <1>4
  <2> QED BY <2>1
<1> HIDE DEF F
<1>7. PICK f : Run(S, N, <<>>, F, f)
  BY <1>1, <1>3, <1>6, LoopRuns
<1>8. \A n \in 1..N : n - 1 \in 0..N /\ n \in 0..N
  BY <1>1
<1>9. f = Body(f)
  <2>1. f \in [0..N -> S] /\ f[0] = <<>> /\ \A n \in 1..N : f[n] = f[n - 1] \o LineFor(n, ps[n])
    BY <1>6, <1>7, <1>8 DEF Run
  <2>2. f = [n \in 0..N |-> f[n]]
    BY <2>1
  <2>3. \A n \in 0..N : n = 0 \/ n \in 1..N
    BY <1>1
  <2>4. \A n \in 0..N : f[n] = Body(f)[n]
    BY <2>1, <2>3
  <2> QED BY <2>2, <2>4
<1>10. upTo = Body(upTo)
  BY <1>9
<1> HIDE DEF upTo
<1>11. upTo = [n \in 0..N |-> upTo[n]] /\ upTo[0] = <<>> /\ \A n \in 1..N : upTo[n] = upTo[n - 1] \o LineFor(n, ps[n])
  <2>1. \A n \in 0..N : upTo[n] = Body(upTo)[n]
    BY <1>10
  <2>2. 0 \in 0..N /\ \A n \in 1..N : n \in 0..N /\ n # 0
    BY <1>1
  <2> QED BY <1>10, <2>1, <2>2
<1>12. upTo \in [0..N -> S]
  <2>1. \A n \in 1..N : upTo[n - 1] \in S => upTo[n] = F[<<n, upTo[n - 1]>>]
    BY <1>6, <1>11
  <2>2. Run(S, N, <<>>, F, upTo)
    BY <1>1, <1>3, <1>6, <1>11, <2>1, RunOf
  <2> QED BY <2>2 DEF Run
<1> DEFINE So(n) == {<<>>} \cup {Signature(i, ps[i]) : i \in 1..n}
           Good == {n \in 0..N : LinesOf(upTo[n]) = So(n)}
<1>13. N \in Good
  <2>1. 0 \in Good
    <3>1. So(0) = {<<>>}
      OBVIOUS
    <3> HIDE DEF So
    <3>2. LinesOf(upTo[0]) = {<<>>}
      BY <1>11, NoLines
    <3>3. 0 \in 0..N
      BY <1>1
    <3> QED BY <3>1, <3>2, <3>3
  <2>2. ASSUME NEW n \in 1..N, n - 1 \in Good PROVE n \in Good
    <3>1. So(n) = So(n - 1) \cup {Signature(n, ps[n])}
      <4>1. \A i : i \in 1..n <=> i \in 1..(n - 1) \/ i = n
        BY <1>1
      <4> QED BY <4>1
    <3>2. PICK g \in S : g = upTo[n - 1]
      BY <1>8, <1>12
    <3> HIDE DEF So
    <3>3. LinesOf(g) = So(n - 1)
      BY <2>2, <3>2
    <3>4. LinesOf(upTo[n]) = LinesOf(g) \cup {Signature(n, ps[n])}
      BY <1>4, <1>11, <3>2
    <3> QED BY <1>8, <3>1, <3>3, <3>4
  <2>3. Good \in SUBSET (0..N)
    OBVIOUS
  <2> HIDE DEF Good
  <2>4. Good = 0..N
    BY <1>1, <2>1, <2>2, <2>3, EachTurn
  <2> QED BY <1>1, <2>4
<1>14. LinesOf(FileOf(ps)) = So(N)
  BY <1>5, <1>13
<1> QED BY <1>1, <1>14

\* _load_signatures of it: the names that were made up and the patterns
LEMMA SignaturesAre ==
  ASSUME NEW ps \in Seq(Seq(Chars)), Len(ps) <= Len(Made), \A n \in 1..Len(ps) : Plain(ps[n])
  PROVE  \A pair : pair \in LoadSignatures(FileOf(ps)) <=> \E n \in 1..Len(ps) : pair = <<<<Made[n]>>, ps[n]>>
<1>1. PICK N \in Nat : N = Len(ps)
  OBVIOUS
<1>2. \A n \in 1..N : n \in 1..Len(Made) /\ ps[n] \in Seq(Chars) /\ Plain(ps[n])
  <2>1. Len(Made) \in Nat
    BY MatcherAssumption
  <2> QED BY <1>1, <2>1
<1>3. ASSUME NEW n \in 1..N
      PROVE  LET l == Signature(n, ps[n]) IN Strip(l) = l /\ l # <<>> /\ l[1] # "#" /\ PairOf(l) = <<<<Made[n]>>, ps[n]>>
  <2>1. n \in 1..Len(Made) /\ ps[n] \in Seq(Chars) /\ Plain(ps[n])
    BY <1>2
  <2> QED BY <2>1, SignatureIsRead
<1>4. PICK file : file = FileOf(ps)
  OBVIOUS
<1>5. \A l : l \in LinesOf(file) <=> l = <<>> \/ \E n \in 1..N : l = Signature(n, ps[n])
  BY <1>1, <1>4, FileIs
<1>6. PICK kept : kept = {x \in {Strip(y) : y \in LinesOf(file)} : x # <<>> /\ x[1] # "#"}
  OBVIOUS
<1>7. \A x : x \in kept <=> \E n \in 1..N : x = Signature(n, ps[n])
  <2>1. ASSUME NEW n \in 1..N PROVE Signature(n, ps[n]) \in kept
    BY <1>3, <1>5, <1>6
  <2>2. ASSUME NEW x \in kept PROVE \E n \in 1..N : x = Signature(n, ps[n])
    <3>1. PICK y \in LinesOf(file) : x = Strip(y) /\ x # <<>>
      BY <1>6
    <3>2. y # <<>>
      BY <3>1, NothingStripped
    <3>3. PICK n \in 1..N : y = Signature(n, ps[n])
      BY <1>5, <3>2
    <3> QED BY <1>3, <3>1, <3>3
  <2> QED BY <2>1, <2>2
<1>8. LoadSignatures(file) = {PairOf(l) : l \in kept}
  BY <1>6 DEF LoadSignatures
<1>9. \A pair : pair \in LoadSignatures(file) <=> \E n \in 1..N : pair = <<<<Made[n]>>, ps[n]>>
  <2>1. ASSUME NEW n \in 1..N PROVE <<<<Made[n]>>, ps[n]>> \in LoadSignatures(file)
    BY <1>3, <1>7, <1>8
  <2>2. ASSUME NEW pair \in LoadSignatures(file) PROVE \E n \in 1..N : pair = <<<<Made[n]>>, ps[n]>>
    BY <1>3, <1>7, <1>8
  <2> QED BY <2>1, <2>2
<1> QED BY <1>1, <1>4, <1>9

\* The name of a hit leads back to its pattern.
LEMMA NameIs ==
  ASSUME NEW n \in 1..Len(Made), NEW hit, hit[1] = <<Made[n]>>
  PROVE  LET I == {i \in 1..Len(Made) : <<Made[i]>> = hit[1]} IN (IF I # {} THEN Min(I) ELSE 0) = n
<1>1. Made \in Seq(Chars) /\ IsInjective(Made) /\ DOMAIN Made = 1..Len(Made) /\ Len(Made) \in Nat
  BY MatcherAssumption
<1> DEFINE I == {i \in 1..Len(Made) : <<Made[i]>> = hit[1]}
<1>2. ASSUME NEW i \in I PROVE i = n
  <2>1. i \in 1..Len(Made) /\ <<Made[i]>> = <<Made[n]>>
    OBVIOUS
  <2>2. Made[i] = Made[n]
    BY <2>1
  <2> QED BY <1>1, <2>1, <2>2 DEF IsInjective
<1>3. n \in I /\ I \in SUBSET Nat
  BY <1>1
<1> HIDE DEF I
<1>4. Min(I) = n
  <2>1. \A k \in I : n <= k
    BY <1>2, <1>3
  <2> QED BY <1>3, <2>1, MinMaxAre
<1>5. (IF I # {} THEN Min(I) ELSE 0) = n
  BY <1>3, <1>4
<1> QED BY <1>5 DEF I

\* h reports the place k of p.
Reports(h, t, p, k) == p # <<>> /\ k \in DOMAIN t /\ Same(t, p, k) /\ h = <<p, BytesBefore(t, k)>>

LEMMA OccurrencesAre ==
  ASSUME NEW t, NEW A
  PROVE  \A h : h \in Occurrences(t, A) <=> \E p \in A, k \in DOMAIN t : Reports(h, t, p, k)
<1> DEFINE Of(p) == {<<p, BytesBefore(t, k)>> : k \in {j \in DOMAIN t : Same(t, p, j)}}
<1>1. Occurrences(t, A) = UNION {Of(p) : p \in A \ {<<>>}}
  BY DEF Occurrences
<1>2. \A p, h : h \in Of(p) <=> \E k \in DOMAIN t : Same(t, p, k) /\ h = <<p, BytesBefore(t, k)>>
  OBVIOUS
<1> HIDE DEF Of
<1> QED BY <1>1, <1>2 DEF Reports

\* The search in Python
LEMMA PythonMatchIs ==
  ASSUME NEW t \in Seq(Chars), NEW ps \in Seq(Seq(Chars))
  PROVE  \A h : h \in PythonMatch(t, ps) <=> \E p \in Range(ps), k \in DOMAIN t : Reports(h, t, p, k)
<1>1. \A p \in Range(ps) : p \in Seq(Chars)
  <2>1. \A i \in DOMAIN ps : ps[i] \in Seq(Chars)
    OBVIOUS
  <2> QED BY <2>1 DEF Range
<1>2. ASSUME NEW p \in Range(ps), NEW h PROVE h \in Hits(t, p, p) <=> \E k \in DOMAIN t : Reports(h, t, p, k)
  <2>1. CASE p = <<>>
    <3>1. Hits(t, p, p) = {}
      BY <2>1 DEF Hits
    <3> QED BY <2>1, <3>1 DEF Reports
  <2>2. CASE p # <<>>
    <3>1. Hits(t, p, p) = {<<p, BytesBefore(t, k)>> : k \in {j \in DOMAIN t : Same(t, p, j)}}
      BY <1>1, <2>2, HitsAre
    <3> QED BY <2>2, <3>1 DEF Reports
  <2> QED BY <2>1, <2>2
<1>3. PythonMatch(t, ps) = UNION {Hits(t, p, p) : p \in Range(ps)}
  BY DEF PythonMatch
<1> QED BY <1>2, <1>3

\* The way through the signature file
LEMMA FileMatchIs ==
  ASSUME NEW t \in Seq(Chars), NEW ps \in Seq(Seq(Chars)), Len(ps) <= Len(Made), \A n \in 1..Len(ps) : Plain(ps[n])
  PROVE  \A h : h \in FileMatch(t, ps) <=> \E p \in Range(ps), k \in DOMAIN t : Reports(h, t, p, k)
<1>1. PICK N \in Nat : N = Len(ps)
  OBVIOUS
<1>2. DOMAIN ps = 1..N /\ \A n \in 1..N : n \in 1..Len(Made) /\ ps[n] \in Seq(Chars) /\ ps[n] # <<>>
  <2>1. Len(Made) \in Nat
    BY MatcherAssumption
  <2>2. \A n \in 1..N : ps[n] # <<>>
    BY <1>1 DEF Plain
  <2> QED BY <1>1, <2>1, <2>2
<1>3. \A pair : pair \in LoadSignatures(FileOf(ps)) <=> \E n \in 1..N : pair = <<<<Made[n]>>, ps[n]>>
  BY <1>1, SignaturesAre
<1> DEFINE Back(hit) == LET i == SelectInSeq(Made, LAMBDA n : <<n>> = hit[1]) IN <<IF i \in DOMAIN ps THEN ps[i] ELSE hit[1], hit[2]>>
           all == UNION {Hits(t, pair[1], pair[2]) : pair \in LoadSignatures(FileOf(ps))}
<1>4. FileMatch(t, ps) = {Back(hit) : hit \in all}
  BY DEF FileMatch
<1>5. \A hit : hit \in all <=> \E n \in 1..N : hit \in Hits(t, <<Made[n]>>, ps[n])
  <2>1. ASSUME NEW n \in 1..N, NEW hit \in Hits(t, <<Made[n]>>, ps[n]) PROVE hit \in all
    <3>1. PICK pair : pair = <<<<Made[n]>>, ps[n]>>
      OBVIOUS
    <3>2. pair[1] = <<Made[n]>> /\ pair[2] = ps[n] /\ pair \in LoadSignatures(FileOf(ps))
      BY <1>3, <3>1
    <3> QED BY <3>2
  <2>2. ASSUME NEW hit \in all PROVE \E n \in 1..N : hit \in Hits(t, <<Made[n]>>, ps[n])
    <3>1. PICK pair \in LoadSignatures(FileOf(ps)) : hit \in Hits(t, pair[1], pair[2])
      OBVIOUS
    <3>2. PICK n \in 1..N : pair = <<<<Made[n]>>, ps[n]>>
      BY <1>3
    <3> QED BY <3>1, <3>2
  <2> QED BY <2>1, <2>2
<1> HIDE DEF all
<1>6. ASSUME NEW n \in 1..N, NEW hit
      PROVE  hit \in Hits(t, <<Made[n]>>, ps[n]) <=>
               \E k \in DOMAIN t : Same(t, ps[n], k) /\ hit = <<<<Made[n]>>, BytesBefore(t, k)>>
  <2>1. PICK name : name = <<Made[n]>>
    OBVIOUS
  <2>2. Hits(t, name, ps[n]) = {<<name, BytesBefore(t, k)>> : k \in {j \in DOMAIN t : Same(t, ps[n], j)}}
    BY <1>2, HitsAre
  <2> QED BY <2>1, <2>2
<1>7. ASSUME NEW n \in 1..N, NEW b, NEW hit, hit = <<<<Made[n]>>, b>> PROVE Back(hit) = <<ps[n], b>>
  <2>1. n \in 1..Len(Made) /\ hit[1] = <<Made[n]>> /\ hit[2] = b
    BY <1>2, <1>7
  <2>2. PICK i : i = SelectInSeq(Made, LAMBDA c : <<c>> = hit[1])
    OBVIOUS
  <2>3. i = n
    <3> DEFINE I == {j \in 1..Len(Made) : <<Made[j]>> = hit[1]}
    <3>1. (IF I # {} THEN Min(I) ELSE 0) = n
      BY <2>1, NameIs
    <3>2. i = IF I # {} THEN Min(I) ELSE 0
      BY <2>2 DEF SelectInSeq
    <3> HIDE DEF I
    <3> QED BY <3>1, <3>2
  <2>4. Back(hit) = <<IF i \in DOMAIN ps THEN ps[i] ELSE hit[1], hit[2]>>
    BY <2>2
  <2> QED BY <1>2, <2>1, <2>3, <2>4
<1> HIDE DEF Back
<1>8. ASSUME NEW h \in FileMatch(t, ps) PROVE \E p \in Range(ps), k \in DOMAIN t : Reports(h, t, p, k)
  <2>1. PICK hit \in all : h = Back(hit)
    BY <1>4
  <2>2. PICK n \in 1..N : hit \in Hits(t, <<Made[n]>>, ps[n])
    BY <1>5
  <2>3. PICK k \in DOMAIN t : Same(t, ps[n], k) /\ hit = <<<<Made[n]>>, BytesBefore(t, k)>>
    BY <1>6, <2>2
  <2>4. h = <<ps[n], BytesBefore(t, k)>>
    BY <1>7, <2>1, <2>3
  <2>5. ps[n] \in Range(ps)
    BY <1>2 DEF Range
  <2> QED BY <1>2, <2>3, <2>4, <2>5 DEF Reports
<1>9. ASSUME NEW h, NEW p \in Range(ps), NEW k \in DOMAIN t, Reports(h, t, p, k) PROVE h \in FileMatch(t, ps)
  <2>1. PICK n \in 1..N : ps[n] = p
    BY <1>2 DEF Range
  <2>2. PICK b, hit : b = BytesBefore(t, k) /\ hit = <<<<Made[n]>>, b>>
    OBVIOUS
  <2>3. hit \in all
    BY <1>5, <1>6, <1>9, <2>1, <2>2 DEF Reports
  <2>4. h = <<ps[n], b>>
    BY <1>9, <2>1, <2>2 DEF Reports
  <2>5. Back(hit) = h
    BY <1>7, <2>2, <2>4
  <2> QED BY <1>4, <2>3, <2>5
<1> QED BY <1>8, <1>9

\* For every set of patterns and every text: the search in Python reports every
\* place of every pattern, and the way through the signature file reports the
\* same if every pattern survives the file (_python_match, _c_match,
\* _load_signatures).
THEOREM MatchersReportTheSame == MatcherSpec => []MatchersAgree
<1>1. ASSUME MatcherInv PROVE MatchersAgree
  <2>1. added \subseteq Patterns /\ outputs \in [DOMAIN outputs -> SUBSET added] /\ Cardinality(added) <= MaxPatterns
        /\ \A p \in added : Lower[p] \in DOMAIN outputs /\ p \in outputs[Lower[p]]
    BY <1>1 DEF MatcherInv, Registry
  <2>2. AllPatterns = added
    <3>1. \A p : p \in AllPatterns <=> \E x \in DOMAIN outputs : p \in outputs[x]
      BY DEF AllPatterns, Range
    <3> QED BY <2>1, <3>1
  <2>3. PICK A, ps : A = AllPatterns /\ ps = SetToSeq(A)
    OBVIOUS
  <2>4. A \in SUBSET Patterns /\ Cardinality(A) <= MaxPatterns
    BY <2>1, <2>2, <2>3
  <2>5. IsFiniteSet(A) /\ Cardinality(A) \in Nat
    BY <2>4, MatcherAssumption, FS_Subset, FS_CardinalityType
  <2>6. ps \in Seq(A) /\ Len(ps) = Cardinality(A) /\ Range(ps) = A
    BY <2>3, <2>5, SetAsSequence
  <2>7. ps \in Seq(Seq(Chars)) /\ \A n \in 1..Len(ps) : ps[n] \in A
    <3>1. A \subseteq Seq(Chars)
      BY <2>4, MatcherAssumption
    <3> QED BY <2>6, <3>1
  <2>8. Len(ps) <= Len(Made)
    <3>1. Len(Made) \in Nat /\ MaxPatterns \in 0..Len(Made)
      BY MatcherAssumption
    <3> QED BY <2>4, <2>5, <2>6, <3>1
  <2>9. ASSUME NEW t \in Texts
        PROVE  /\ PythonMatch(t, ps) = Occurrences(t, A)
               /\ (\A p \in A : Plain(p)) => FileMatch(t, ps) = Occurrences(t, A)
    <3>1. t \in Seq(Chars)
      BY MatcherAssumption
    <3>2. \A h : h \in Occurrences(t, A) <=> \E p \in A, k \in DOMAIN t : Reports(h, t, p, k)
      BY OccurrencesAre
    <3>3. \A h : h \in PythonMatch(t, ps) <=> h \in Occurrences(t, A)
      BY <2>6, <2>7, <3>1, <3>2, PythonMatchIs
    <3>4. ASSUME \A p \in A : Plain(p) PROVE \A h : h \in FileMatch(t, ps) <=> h \in Occurrences(t, A)
      <4>1. \A n \in 1..Len(ps) : Plain(ps[n])
        BY <2>7, <3>4
      <4> QED BY <2>6, <2>7, <2>8, <3>1, <3>2, <4>1, FileMatchIs
    <3>5. PythonMatch(t, ps) = Occurrences(t, A)
      BY <3>3
    <3>6. ASSUME \A p \in A : Plain(p) PROVE FileMatch(t, ps) = Occurrences(t, A)
      BY <3>4, <3>6
    <3> QED BY <3>5, <3>6
  <2> QED BY <2>3, <2>9 DEF MatchersAgree
<1>2. QED BY <1>1, MatcherStarts, MatcherStep, PTL DEF MatcherSpec
=============================================================================
