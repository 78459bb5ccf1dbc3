------------------------------- MODULE Assets -------------------------------
(***************************************************************************)
(* modules/discovery/assets.py: discover_assets, the walk over the names   *)
(* of an engagement, with the redirects it follows and the documents it    *)
(* fetches.                                                                *)
(*                                                                         *)
(* The world answers as it likes at every step: a name resolves to other   *)
(* addresses than a moment ago, a server is there or not, redirects to any *)
(* place, and the certificate log names anything.  What a response says    *)
(* besides its redirect is left out.                                       *)
(***************************************************************************)
EXTENDS Integers, Sequences, SequencesExt, FiniteSets

CONSTANTS Names, Addresses, PortNumbers,
          InScope,      \* the names and addresses that is_target_allowed() accepts
          ScopePorts,   \* the scope's ports; empty: any port
          Seeds,        \* the sequences of names the walk may start from
          Unencodable,  \* the names that getaddrinfo() cannot encode: an empty label, or one too long
          WebPorts,     \* WEB_PORTS
          GivenPorts,   \* what the argument web_ports may be, without repetitions
          DefaultPort,  \* the port of a Location that names none (80, 443)
          Ct, Deep,     \* the arguments ct and deep
          Depth, MaxHosts, MaxRequests

ASSUME AssetsAssumption ==
  /\ IsFiniteSet(Addresses) /\ InScope \subseteq Names \cup Addresses
  /\ ScopePorts \subseteq PortNumbers /\ DefaultPort \in PortNumbers
  /\ Unencodable \subseteq Names
  /\ \A s \in {WebPorts} \cup GivenPorts : IsInjective(s) /\ ToSet(s) \subseteq PortNumbers
  /\ Depth \in Nat /\ MaxHosts \in Nat \ {0} /\ MaxRequests \in Nat

VARIABLES
  pc,
  plan,       \* the ports to try
  queue,      \* names with their level, not yet looked at
  seen,       \* names looked at
  requests,   \* the walk's own count of its requests
  hosts, blocked,   \* the two lists of the result, of names
  name, level,      \* the name in hand
  ips, port,  \* its addresses that are not done with, and the place in the plan of the next port
  at,         \* host, address and port of the last request
  reply,      \* what it answered
  hop,        \* redirects followed
  used,       \* requests not yet added to the count
  \* History, read by no operation:
  sent        \* requests really made

target == <<ips, port>>
vars == <<pc, plan, queue, seen, requests, hosts, blocked, name, level, target, at, reply, hop, used, sent>>
walk == <<plan, queue, seen, name, level>>
result == <<hosts, blocked>>

MaxRedirects == 2
Authorized(x) == x \in InScope
PortAllowed(p) == ScopePorts = {} \/ p \in ScopePorts

\* The ports the caller gives, as they are, or the web ports that the scope allows.
Plans == GivenPorts \cup {SelectSeq(WebPorts, PortAllowed)}

\* What a request may bring: no connection, a page, a redirect to a name (or,
\* if relative, to the present one) and a port (or none), or a Location that
\* cannot be parsed, at once or when its port is looked at.
Here == "here"
NoPort == 0
Redirect(h, p) == [kind |-> "redirect", host |-> h, port |-> p]
Reply(k) == [kind |-> k, host |-> Here, port |-> NoPort]
Replies ==
  {Reply("closed"), Reply("page"), Reply("unparseable"), Reply("badport")}
    \cup {Redirect(Here, NoPort)} \cup {Redirect(h, p) : h \in Names, p \in PortNumbers \cup {NoPort}}

\* probe_http, which never raises
Probe(h, ip, p, answers) ==
  /\ at' = [host |-> h, ip |-> ip, port |-> p]
  /\ reply' \in answers
  /\ sent' = sent + 1

Budget == requests < MaxRequests

-----------------------------------------------------------------------------
\* discover_assets is called, with seeds and perhaps with ports.
Call ==
  /\ pc = "idle" /\ pc' = "pop"
  /\ plan' \in Plans
  /\ \E s \in Seeds : queue' = [i \in DOMAIN s |-> <<s[i], 0>>]
  /\ UNCHANGED <<seen, name, level, result, requests, target, at, reply, hop, used, sent>>

-----------------------------------------------------------------------------
(***************************************************************************)
(* The loop over the names                                                 *)
(***************************************************************************)
Known(n) == n \in seen

\* Faulty variant: a name outside the scope is dropped without a record.
Faulty_Refused(n) == {}

Refused(n) == IF ~Known(n) /\ ~Authorized(n) THEN {n} ELSE {}

\* A name seen before, or outside the scope, is not looked up.
Pop ==
  /\ pc = "pop" /\ queue # <<>> /\ Cardinality(seen) < MaxHosts /\ Budget
  /\ LET n == Head(queue)[1]
     IN  /\ queue' = Tail(queue)
         /\ seen' = IF Known(n) THEN seen ELSE seen \cup {n}
         /\ name' = n /\ level' = Head(queue)[2]
         /\ blocked' = blocked \cup Refused(n)
         /\ pc' = IF ~Known(n) /\ Authorized(n) THEN "resolve" ELSE "pop"
  /\ UNCHANGED <<plan, requests, hosts, target, at, reply, hop, used, sent>>

Allowed(addresses) == {a \in addresses : Authorized(a)}

Resolve ==
  /\ pc = "resolve" /\ name \notin Unencodable
  /\ \E addresses \in SUBSET Addresses :
       LET allowed == Allowed(addresses)
       IN  IF allowed = {}
           THEN /\ blocked' = blocked \cup {name}
                /\ pc' = IF addresses # {} THEN "pop" ELSE "expand"
                /\ UNCHANGED <<hosts, target>>
           ELSE /\ hosts' = hosts \cup {name}
                /\ ips' \in SetToSeqs(allowed) /\ port' = 1
                /\ pc' = "ports"
                /\ UNCHANGED blocked
  /\ UNCHANGED <<walk, requests, at, reply, hop, used, sent>>

\* resolve_host catches an OSError, and a UnicodeError is none.
ResolveRaises ==
  /\ pc = "resolve" /\ name \in Unencodable
  /\ pc' = "raised"
  /\ UNCHANGED <<walk, result, requests, target, at, reply, hop, used, sent>>

\* The two loops: on every address, every port of the plan.
NextTarget ==
  IF port < Len(plan) THEN port' = port + 1 /\ UNCHANGED ips
  ELSE port' = 1 /\ ips' = Tail(ips)

Probes == ips # <<>> /\ plan # <<>> /\ Budget

\* The first request to the next target; what is closed is done with.
Candidate ==
  /\ pc = "ports" /\ Probes
  /\ Probe(name, Head(ips), plan[port], Replies)
  /\ requests' = requests + 1
  /\ NextTarget
  /\ pc' = IF reply'.kind = "closed" THEN "ports" ELSE "baseline"
  /\ UNCHANGED <<walk, result, hop, used>>

\* The response of the address itself, to tell a virtual host; the redirect to
\* follow is still the candidate's.
Baseline ==
  /\ pc = "baseline"
  /\ IF Budget THEN sent' = sent + 1 /\ requests' = requests + 1
               ELSE UNCHANGED <<sent, requests>>
  /\ hop' = 0 /\ used' = 0
  /\ pc' = "redirect"
  /\ UNCHANGED <<walk, result, target, at, reply>>

-----------------------------------------------------------------------------
(***************************************************************************)
(* _follow_redirects and _probe_documents: their requests are added to the *)
(* count when they return                                                  *)
(***************************************************************************)
Follows == hop < MaxRedirects /\ reply.kind \in {"redirect", "unparseable", "badport"} /\ Budget

\* _redirect_target
NextHost == IF reply.host = Here THEN at.host ELSE reply.host
NextPort == IF reply.port = NoPort THEN DefaultPort ELSE reply.port
\* The name of the hop is resolved first of all, and it cannot be encoded.
HopUnencodable == reply.kind = "redirect" /\ NextHost # at.host /\ NextHost \in Unencodable

\* Faulty variant: the addresses of the next hop are taken as they come.
Faulty_HopAllowed(addresses) == addresses

HopAllowed(addresses) == {a \in addresses : Authorized(a)}

EndRedirects ==
  /\ pc' = "documents" /\ requests' = requests + used /\ used' = 0 /\ hop' = 0

\* A hop whose name and address are in the scope is taken.
FollowHop ==
  /\ pc = "redirect" /\ Follows /\ reply.kind = "redirect" /\ ~HopUnencodable
  /\ \E addresses \in IF NextHost = at.host THEN {{at.ip}} ELSE SUBSET Addresses :
       \E ip \in HopAllowed(addresses) :
         /\ Authorized(NextHost)
         /\ Probe(NextHost, ip, NextPort, Replies)
  /\ IF reply'.kind = "closed" \/ hop + 1 = MaxRedirects
     THEN pc' = "documents" /\ requests' = requests + used + 1 /\ used' = 0 /\ hop' = 0
     ELSE used' = used + 1 /\ hop' = hop + 1 /\ UNCHANGED <<pc, requests>>
  /\ UNCHANGED <<walk, result, target>>

\* One that is not is recorded; so is a Location that cannot be parsed.
BlockHop ==
  /\ pc = "redirect" /\ Follows /\ ~HopUnencodable
  /\ \/ reply.kind = "unparseable"
     \/ reply.kind = "redirect" /\ ~(Authorized(NextHost) /\ NextHost = at.host)
  /\ blocked' = blocked \cup {name}
  /\ EndRedirects
  /\ UNCHANGED <<walk, hosts, target, at, reply, sent>>

\* The port of a Location is looked at outside the try block, and nothing catches
\* what resolve_host raises.
HopRaises ==
  /\ pc = "redirect" /\ Follows /\ (reply.kind = "badport" \/ HopUnencodable)
  /\ pc' = "raised"
  /\ UNCHANGED <<walk, result, requests, target, at, reply, hop, used, sent>>

NoHop ==
  /\ pc = "redirect" /\ ~Follows
  /\ EndRedirects
  /\ UNCHANGED <<walk, result, target, at, reply, sent>>

\* Faulty variant: a document is fetched whatever was spent.
Faulty_FetchesDocument == Deep /\ used < 2

\* The two well-known documents, of the target the candidate was.
FetchesDocument == Deep /\ Budget /\ used < 2

Document ==
  /\ pc = "documents" /\ FetchesDocument
  /\ sent' = sent + 1 /\ used' = used + 1
  /\ UNCHANGED <<pc, walk, result, requests, target, at, reply, hop>>

EndDocuments ==
  /\ pc = "documents" /\ ~FetchesDocument
  /\ requests' = requests + used /\ used' = 0
  /\ pc' = "ports"
  /\ UNCHANGED <<walk, result, target, at, reply, hop, sent>>

-----------------------------------------------------------------------------
(***************************************************************************)
(* The names of the certificate log, and the end                           *)
(***************************************************************************)
EndPorts ==
  /\ pc = "ports" /\ ~Probes
  /\ pc' = "expand" /\ ips' = <<>> /\ port' = 1
  /\ at' = [host |-> Here, ip |-> Here, port |-> NoPort] /\ reply' = Reply("closed")
  /\ UNCHANGED <<walk, result, requests, hop, used, sent>>

Expands == Ct /\ level < Depth /\ Cardinality(seen) + Len(queue) < MaxHosts

\* fetch_ct_names: any names with proper labels, or none when the log cannot be
\* read.
Expand ==
  /\ pc = "expand"
  /\ \/ /\ Expands
        /\ \E children \in SUBSET (Names \ Unencodable) :
             LET new == children \ seen
             IN  /\ \E s \in SetToSeqs({c \in new : Authorized(c)}) :
                      queue' = queue \o [i \in DOMAIN s |-> <<s[i], level + 1>>]
                 /\ blocked' = blocked \cup {c \in new : ~Authorized(c)}
     \/ ~Expands /\ UNCHANGED <<queue, blocked>>
  /\ pc' = "pop"
  /\ UNCHANGED <<plan, seen, name, level, requests, hosts, target, at, reply, hop, used, sent>>

Return ==
  /\ pc = "pop" /\ ~(queue # <<>> /\ Cardinality(seen) < MaxHosts /\ Budget)
  /\ pc' = "returned"
  /\ UNCHANGED <<walk, result, requests, target, at, reply, hop, used, sent>>

Init ==
  /\ pc = "idle" /\ plan = <<>> /\ queue = <<>>
  /\ seen = {} /\ requests = 0 /\ hosts = {} /\ blocked = {}
  /\ name = Here /\ level = 0 /\ ips = <<>> /\ port = 1
  /\ at = [host |-> Here, ip |-> Here, port |-> NoPort] /\ reply = Reply("closed")
  /\ hop = 0 /\ used = 0 /\ sent = 0

WalkStep ==
  \/ Pop \/ Resolve \/ ResolveRaises \/ Candidate \/ Baseline
  \/ FollowHop \/ BlockHop \/ HopRaises \/ NoHop
  \/ Document \/ EndDocuments \/ EndPorts \/ Expand \/ Return

Next == Call \/ WalkStep

\* Every wait of the walk is a socket's with a time-out.
Fairness == WF_vars(WalkStep)

Spec == Init /\ [][Next]_vars /\ Fairness

-----------------------------------------------------------------------------
(***************************************************************************)
(* Properties                                                              *)
(***************************************************************************)
\* Whatever names resolve to, wherever servers redirect, no request goes to a
\* host or an address that the scope does not allow ("a name is not permission
\* to reach its IPs").
RequestsStayInScope == at.ip # Here => Authorized(at.host) /\ Authorized(at.ip)

\* The requests really sent are never more than one above the bound: the
\* redirects and the documents of one target are checked against a count that
\* is not kept up to date while they are fetched.
RequestsBounded == sent <= MaxRequests + 1 /\ (pc \in {"pop", "returned"} => sent = requests)

\* The walk is over, with every name it looked at in one list of the result or
\* the other, or with nothing.
Over ==
  \/ pc = "returned" /\ seen \subseteq hosts \cup blocked
  \/ pc = "raised" /\ (reply.kind = "badport" \/ {name, NextHost} \cap Unencodable # {})

\* A walk ends, with every name it looked at in one list of the result or the
\* other; only a Location with a bad port, or a name that cannot be encoded, of a
\* redirect or from the queue, makes it end with nothing.
WalkEnds == pc = "pop" ~> Over

\* "Failure to resolve, to connect, or to parse is recorded as evidence, never
\* raised into the campaign."
NeverRaised == pc # "raised"
=============================================================================
