------------------------------ MODULE Routing -------------------------------
(***************************************************************************)
(* The pure decisions: how a path is classified (internal/probe), which    *)
(* route a transfer takes (internal/scheduler), which relays may be used   *)
(* (internal/relay), when a running transfer pauses (internal/probe), and  *)
(* who may reach whom (internal/policy).  They keep no state.              *)
(*                                                                         *)
(* The text of a ping and the status of a peer are the phrases and fields  *)
(* the code looks for.  Quotas are multiplied and divided as float64, whose *)
(* rounding is part of what is decided.                                    *)
(***************************************************************************)
EXTENDS Integers, Sequences, TLAPS

Class == {"DIRECT", "PEER_RELAY", "DERP", "UNREACHABLE", "UNKNOWN"}

-----------------------------------------------------------------------------
(* Classification                                                          *)

\* The tests of ParsePingOutput, in the order in which they are made.
PingTests ==
    << [class |-> "UNREACHABLE", any |-> {"no response", "timed out", "unreachable"}],
       [class |-> "PEER_RELAY", any |-> {"peer-relay", "peer relay"}],
       [class |-> "DERP", any |-> {"derp(", " via derp", "relay("}],
       [class |-> "DIRECT", any |-> {"pong"}] >>

PingClass(phrases) ==
    LET hits == {i \in DOMAIN PingTests : phrases \cap PingTests[i].any # {}}
    IN  IF hits = {} THEN "UNKNOWN"
        ELSE PingTests[CHOOSE i \in hits : \A k \in hits : i <= k].class

\* peerRelay, relay: "none", "derp" (a region), or "peer" (a name with peer in it).
PeerClass(p) ==
    IF p.peerRelay # "none" \/ p.relay = "peer" THEN "PEER_RELAY"
    ELSE IF p.relay = "none" THEN "DIRECT" ELSE "DERP"

\* Go visits a map in any order: any matching peer may be the one reported.
StatusClasses(matching) ==
    IF matching = {} THEN {"UNKNOWN"} ELSE {PeerClass(p) : p \in matching}

-----------------------------------------------------------------------------
(* Relays                                                                  *)

TwoTo48 == 281474976710656
TwoTo52 == 4503599627370496
TwoTo54 == 18014398509481984

\* float64 holds 0.95 and 0.80 as these multiples of 2^-53.
Critical == 8556839292003942
Warn == 7205759403792794

Relay == [healthy: BOOLEAN, used: Nat, quota: Int]

\* A count below 2^52 is held exactly, and is an even multiple of the distance
\* to the next float64.  2^48 bytes are 256 TiB.
InRange(r) == r.used < TwoTo52 /\ r.quota < TwoTo48

BitPowers == {1, 2, 4, 8, 16, 32, 64, 128}
BytePowers == {1, 256, 65536, 16777216, 4294967296, 1099511627776, TwoTo48}
PowersOfTwo == {a * b : a \in BitPowers, b \in BytePowers}

\* The next float64 is Gap(n) * 2^-53 above n, if n is positive.
Gap(n) == CHOOSE p \in PowersOfTwo : n < p /\ p <= 2 * n + 1

\* used < quota * 0.95: the product is rounded to nearest, and lies above used
\* if it is more than half of the gap away.  A quota that is not positive is
\* none.
Usable(r) ==
    /\ r.healthy
    /\ r.quota <= 0 \/ 2 * Critical * r.quota > TwoTo54 * r.used + Gap(r.used)

\* used / quota >= ratio: the quotient is rounded to nearest, a tie to the even
\* one of its neighbours, as both ratios are.
Reached(r, ratio) == TwoTo54 * r.used >= (2 * ratio - 1) * r.quota

Status(r) ==
    IF ~r.healthy THEN "DOWN"
    ELSE IF r.quota <= 0 THEN "OK"
    ELSE IF Reached(r, Critical) THEN "CRITICAL_QUOTA"
    ELSE IF Reached(r, Warn) THEN "WARN_QUOTA"
    ELSE "OK"

AllowNewBigJob(r) == Status(r) \in {"OK", "WARN_QUOTA"}

-----------------------------------------------------------------------------
(* Decide                                                                  *)

\* What is to be decided: a class, the size and the limit for DERP, the relays
\* in their order, and whether object storage is there.
Job == [class: Class, size: Int, limit: Int, relays: Seq(Relay), s3: BOOLEAN]

Via(route, i) == [route |-> route, relay |-> i]

UsableAt(j) == {i \in DOMAIN j.relays : Usable(j.relays[i])}

FirstUsable(j, i) == i \in UsableAt(j) /\ \A k \in UsableAt(j) : i <= k

\* The first usable relay, or object storage, or nothing.
Relayed(j, otherwise, d) ==
    \/ \E i \in UsableAt(j) : FirstUsable(j, i) /\ d = Via("PEER_RELAY", i)
    \/ UsableAt(j) = {} /\ j.s3 /\ d = Via("OBJECT_STORAGE", 0)
    \/ UsableAt(j) = {} /\ ~j.s3 /\ d = Via(otherwise, 0)

\* d is the decision on j.
Decides(j, d) ==
    \/ j.class = "DIRECT" /\ d = Via("DIRECT", 0)
    \/ j.class = "PEER_RELAY" /\ Relayed(j, "WAITING_FOR_ROUTE", d)
    \/ j.class = "DERP" /\ j.size <= j.limit /\ d = Via("DERP_SMALL", 0)
    \/ j.class = "DERP" /\ j.size > j.limit /\ Relayed(j, "REFUSED_DERP_LARGE", d)
    \/ /\ j.class \in {"UNREACHABLE", "UNKNOWN"}
       /\ d = Via(IF j.s3 THEN "OBJECT_STORAGE" ELSE "WAITING_FOR_ROUTE", 0)

\* DebounceRoute: n is the number of consecutive observations of DERP.
Pauses(prev, cur, n, remaining, limit) ==
    /\ cur = "DERP" /\ remaining > limit
    /\ n >= (IF prev = "DIRECT" THEN 2 ELSE 3)

-----------------------------------------------------------------------------
(* Render                                                                  *)

Project(slug) == [kind |-> "project", name |-> slug]
Admin == [kind |-> "admin-device", name |-> "admin-device"]

\* The grants, deny-by-default, for sets of project slugs and of relay tags.
Render(slugs, relays) ==
    {[src |-> Project(s), dst |-> {Project(s)}, port |-> "any"] : s \in slugs}
    \cup {[src |-> Admin, dst |-> {Project(s) : s \in slugs}, port |-> "ssh"]}
    \cup {[src |-> Project(s), dst |-> {t}, port |-> "relay"] : s \in slugs, t \in relays}

Reaches(grants, from, to, port) ==
    \E g \in grants : g.src = from /\ to \in g.dst /\ g.port = port

-----------------------------------------------------------------------------
(* Theorems                                                                *)

LEMMA GapIs ==
  ASSUME NEW n \in Nat, n < TwoTo52
  PROVE  Gap(n) \in Int /\ n < Gap(n) /\ Gap(n) <= 2 * n + 1
<1>1. \E p \in PowersOfTwo : n < p /\ p <= 2 * n + 1
  <2>1. PICK b \in BytePowers : b <= 2 * n + 1 /\ n < 128 * b
    BY SMT DEF BytePowers, TwoTo48, TwoTo52
  <2>2. PICK a \in BitPowers : n < a * b /\ a * b <= 2 * n + 1
    <3>1. b \in Int
      BY SMT DEF BytePowers, TwoTo48
    <3>2. \/ n < b \/ (b <= n /\ n < 2 * b) \/ (2 * b <= n /\ n < 4 * b)
          \/ (4 * b <= n /\ n < 8 * b) \/ (8 * b <= n /\ n < 16 * b)
          \/ (16 * b <= n /\ n < 32 * b) \/ (32 * b <= n /\ n < 64 * b) \/ 64 * b <= n
      BY <3>1, SMT
    <3> QED BY <2>1, <3>1, <3>2, SMT DEF BitPowers
  <2>3. a * b \in PowersOfTwo
    BY DEF PowersOfTwo
  <2> QED BY <2>2, <2>3
<1>2. PowersOfTwo \subseteq Int
  BY SMT DEF PowersOfTwo, BitPowers, BytePowers, TwoTo48
<1> QED BY <1>1, <1>2 DEF Gap

\* The scheduler multiplies the quota (scheduler.go:33), the relay package
\* divides by it (relay.go:25-27), and each rounds: they still agree, at every
\* count, on which relay may take a new transfer, for quotas below 2^48 bytes.
\* Above, there are counts at which the roundings part.
THEOREM UsableIsAllowed ==
  \A r \in Relay : InRange(r) => (Usable(r) <=> AllowNewBigJob(r))
<1> SUFFICES ASSUME NEW r \in Relay, InRange(r)
             PROVE  Usable(r) <=> AllowNewBigJob(r)
  OBVIOUS
<1>1. r.healthy \in BOOLEAN /\ r.quota \in Int /\ r.used \in Nat
      /\ r.used < TwoTo52 /\ r.quota < TwoTo48
  BY DEF Relay, InRange
<1>2. AllowNewBigJob(r) <=> r.healthy /\ (r.quota <= 0 \/ ~Reached(r, Critical))
  BY DEF AllowNewBigJob, Status
<1>3. ASSUME r.quota > 0
      PROVE  Reached(r, Critical) <=> ~(2 * Critical * r.quota > TwoTo54 * r.used + Gap(r.used))
  <2>1. /\ r.used \in Nat /\ Gap(r.used) \in Int
        /\ r.used < Gap(r.used) /\ Gap(r.used) <= 2 * r.used + 1
    BY <1>1, GapIs
  <2> DEFINE n == r.used
  <2> DEFINE q == r.quota
  <2> DEFINE g == Gap(r.used)
  <2>2. n \in Nat /\ q \in Int /\ g \in Int /\ 0 < q /\ q < TwoTo48 /\ n < g /\ g <= 2 * n + 1
    BY <1>1, <1>3, <2>1
  <2> HIDE DEF n, q, g
  <2>3. CASE 20 * n >= 19 * q
    BY <2>2, <2>3, SMT DEF Reached, Critical, TwoTo54, TwoTo48, n, q, g
  <2>4. CASE 20 * n < 19 * q
    BY <2>2, <2>4, SMT DEF Reached, Critical, TwoTo54, TwoTo48, n, q, g
  <2> QED BY <2>2, <2>3, <2>4
<1> QED BY <1>1, <1>2, <1>3 DEF Usable

\* A file above the limit never goes over DERP (docs/TEST-PLAN.md:13), and a
\* relay that is chosen is one that the relay package allows.
THEOREM LargeFilesKeepOffDERP ==
  \A j \in Job : \A d : Decides(j, d) =>
    /\ j.size > j.limit => d.route # "DERP_SMALL"
    /\ d.route = "PEER_RELAY" =>
          /\ d.relay \in DOMAIN j.relays
          /\ InRange(j.relays[d.relay]) => AllowNewBigJob(j.relays[d.relay])
<1> SUFFICES ASSUME NEW j \in Job, NEW d, Decides(j, d)
             PROVE  /\ j.size > j.limit => d.route # "DERP_SMALL"
                    /\ d.route = "PEER_RELAY" =>
                          /\ d.relay \in DOMAIN j.relays
                          /\ InRange(j.relays[d.relay])
                                => AllowNewBigJob(j.relays[d.relay])
  OBVIOUS
<1>0. j.size \in Int /\ j.limit \in Int /\ \A i \in DOMAIN j.relays : j.relays[i] \in Relay
  BY DEF Job
<1>1. j.size > j.limit => d.route # "DERP_SMALL"
  BY <1>0 DEF Decides, Relayed, Via
<1>2. ASSUME d.route = "PEER_RELAY" PROVE d.relay \in UsableAt(j)
  BY <1>2 DEF Decides, Relayed, Via
<1>3. UsableAt(j) \subseteq DOMAIN j.relays /\ \A i \in UsableAt(j) : Usable(j.relays[i])
  BY DEF UsableAt
<1> QED BY <1>0, <1>1, <1>2, <1>3, UsableIsAllowed

\* A transfer that pauses because its path flaps is not scheduled back on DERP:
\* the scheduler refuses what DebounceRoute has paused.
THEOREM PausedIsNotResumedOverDERP ==
  \A j \in Job, n \in Int : \A d, prev :
    Pauses(prev, j.class, n, j.size, j.limit) /\ Decides(j, d) => d.route # "DERP_SMALL"
  BY LargeFilesKeepOffDERP DEF Pauses

\* Deny-by-default: whatever the tags of relays are, a project reaches what is
\* not its own only as a relay, so another project only if a relay carries its
\* tag, which Render does not rule out; and administrators reach projects, and
\* nothing else, by SSH.
THEOREM ProjectsIsolated ==
  ASSUME NEW slugs, NEW relays, NEW s, NEW to, NEW port
  PROVE  /\ Reaches(Render(slugs, relays), Project(s), to, port)
               => to = Project(s) \/ (to \in relays /\ port = "relay")
         /\ Reaches(Render(slugs, relays), Admin, to, port)
               => (\E x \in slugs : to = Project(x)) /\ port = "ssh"
<1>1. \A x, y : Project(x) = Project(y) => x = y
  BY DEF Project
<1>2. \A x : Project(x) # Admin
  BY DEF Project, Admin
<1>3. \A g \in Render(slugs, relays) :
        \/ \E x \in slugs : g.src = Project(x) /\ g.dst = {Project(x)}
        \/ g.src = Admin /\ g.dst = {Project(x) : x \in slugs} /\ g.port = "ssh"
        \/ \E x \in slugs, t \in relays : g.src = Project(x) /\ g.dst = {t} /\ g.port = "relay"
  BY DEF Render
<1> QED BY <1>1, <1>2, <1>3 DEF Reaches
=============================================================================
