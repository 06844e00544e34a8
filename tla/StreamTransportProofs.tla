------------------------ MODULE StreamTransportProofs ------------------------
(***************************************************************************)
(* The limits on streams hold for any number of requests and sessions and  *)
(* for every value of the limits.  A claim on capacity -- an open under    *)
(* way or a stream not yet gone -- is made only by OpenStarts, which the   *)
(* load it reads bounds; every other step keeps or drops claims, and a     *)
(* session that comes back has none.                                       *)
(***************************************************************************)
EXTENDS StreamTransport, FiniteSetTheorems, TLAPS

\* A request that occupies capacity of its session.
Claiming(q) == q.step \in {"opening", "stopped"} \/ q.stream

\* A callback is armed only while somebody will stop it, and an open that is
\* cancelled closes a session that exists.
Guarded(q) ==
    /\ q.closer = "armed" => q.step \in {"waiting", "clearing", "body"}
    /\ q.step = "opening" => q.sess \in Sessions

StreamInv == TypeOK /\ StreamsBounded /\ \A r \in Requests : Guarded(req[r])

\* The claims of a set of sessions, request by request.
LEMMA ClaimsAre ==
    ASSUME NEW S PROVE Claims(S) = {r \in Requests : req[r].sess \in S /\ Claiming(req[r])}
  BY DEF Claims, Pending, Streams, Claiming

LEMMA ClaimsFinite ==
    ASSUME NEW S
    PROVE /\ IsFiniteSet(Pending(S)) /\ IsFiniteSet(Streams(S)) /\ IsFiniteSet(Claims(S))
          /\ Cardinality(Claims(S)) \in Nat
  <1>1. Pending(S) \subseteq Requests /\ Streams(S) \subseteq Requests /\ Claims(S) \subseteq Requests
    BY DEF Claims, Pending, Streams
  <1> QED BY <1>1, TransportAssumption, FS_Subset, FS_CardinalityType DEF TransportAssumption

\* The load that openStream reads is at least the number of claims.
LEMMA LoadCoversClaims ==
    ASSUME NEW S PROVE Load(S) \in Nat /\ Cardinality(Claims(S)) <= Load(S)
  <1>1. /\ Cardinality(Pending(S)) \in Nat /\ Cardinality(Streams(S)) \in Nat
        /\ Cardinality(Pending(S) \cap Streams(S)) \in Nat
    <2>1. IsFiniteSet(Pending(S) \cap Streams(S))
      BY ClaimsFinite, FS_Intersection
    <2> QED BY <2>1, ClaimsFinite, FS_CardinalityType
  <1>2. Cardinality(Claims(S)) = Cardinality(Pending(S)) + Cardinality(Streams(S))
                                   - Cardinality(Pending(S) \cap Streams(S))
    BY ClaimsFinite, FS_Union DEF Claims
  <1> QED BY <1>1, <1>2 DEF Load

\* Fewer claims keep a bound, one claim more keeps a bound not yet reached.
LEMMA BoundKept ==
    ASSUME NEW A, NEW B, IsFiniteSet(B), A \subseteq B, NEW n \in Nat, Cardinality(B) <= n
    PROVE Cardinality(A) <= n
  BY FS_Subset, FS_CardinalityType

LEMMA BoundKeptByOne ==
    ASSUME NEW A, NEW B, NEW x, IsFiniteSet(B), A \subseteq B \cup {x},
           NEW n \in Nat, Cardinality(B) < n
    PROVE Cardinality(A) <= n
  <1>1. /\ IsFiniteSet(B \cup {x}) /\ Cardinality(B) \in Nat
        /\ Cardinality(B \cup {x}) \in {Cardinality(B), Cardinality(B) + 1}
    BY FS_AddElement, FS_CardinalityType
  <1>2. Cardinality(B \cup {x}) <= n
    BY <1>1
  <1> QED BY <1>1, <1>2, BoundKept

\* Steps after which no request claims more, and no session with claims is new.
LEMMA ClaimsKept ==
    ASSUME StreamsBounded, live' \subseteq Sessions,
           \A r \in Requests : Claiming(req'[r]) => Claiming(req[r]) /\ req'[r].sess = req[r].sess,
           \A s \in live' : s \in live \/ Claims({s}) = {}
    PROVE  StreamsBounded'
<1>0. PerSession \in Nat /\ Total \in Nat
  BY TransportAssumption DEF TransportAssumption
<1>a. \A S : Claims(S)' = {r \in Requests : req'[r].sess \in S /\ Claiming(req'[r])}
  BY DEF Claims, Pending, Streams, Claiming
<1>1. \A S : {r \in Requests : req'[r].sess \in S /\ Claiming(req'[r])} \subseteq Claims(S)
  BY ClaimsAre
<1>2. Claims(live') \subseteq Claims(live)
  BY ClaimsAre
<1>3. ASSUME NEW s \in live' PROVE Cardinality(Claims({s})) <= PerSession
  <2>1. CASE s \in live
    BY <2>1 DEF StreamsBounded
  <2>2. CASE Claims({s}) = {}
    BY <2>2, <1>0, FS_EmptySet
  <2> QED BY <1>3, <2>1, <2>2
<1>4. Cardinality(Claims(live')) <= Total
  BY <1>2, <1>0, ClaimsFinite, BoundKept DEF StreamsBounded
<1>5. ASSUME NEW s \in live'
      PROVE Cardinality({r \in Requests : req'[r].sess \in {s} /\ Claiming(req'[r])}) <= PerSession
  BY <1>0, <1>1, <1>3, ClaimsFinite, BoundKept
<1>6. Cardinality({r \in Requests : req'[r].sess \in live' /\ Claiming(req'[r])}) <= Total
  BY <1>0, <1>1, <1>4, ClaimsFinite, BoundKept
<1> QED BY <1>5, <1>6 DEF StreamsBounded, Claims, Pending, Streams, Claiming

-----------------------------------------------------------------------------
(* The steps.  All but those of sessions change a single request.          *)

LEMMA OneRequest ==
    ASSUME StreamInv, NEW r \in Requests, NEW q \in Request, Guarded(q), Set(r, q),
           Claiming(q) => Claiming(req[r]) /\ q.sess = req[r].sess,
           live' = live, doomed' \subseteq Sessions
    PROVE  StreamInv'
<1>1. /\ req' \in [Requests -> Request]
      /\ \A t \in Requests : req'[t] = IF t = r THEN q ELSE req[t]
  BY DEF StreamInv, TypeOK, Set
<1>2. TypeOK' /\ \A t \in Requests : Guarded(req[t])'
  BY <1>1 DEF StreamInv, TypeOK, Guarded
<1>3. StreamsBounded'
  BY <1>1, ClaimsKept DEF StreamInv, TypeOK
<1> QED BY <1>2, <1>3 DEF StreamInv

\* What is known of a request before a step.
LEMMA Fields ==
    ASSUME StreamInv, NEW r \in Requests
    PROVE  /\ req[r] \in Request
           /\ Guarded(req[r])
  BY DEF StreamInv, TypeOK

\* Closing and disarming, the changes that several steps share.
LEMMA ClosedType ==
    ASSUME NEW q \in Request
    PROVE  /\ Closed(q) \in Request /\ Closed(q).closer = q.closer /\ Closed(q).step = q.step
           /\ Closed(q).stream = q.stream /\ Closed(q).sess = q.sess
  BY DEF Closed, Request

LEMMA DisarmedType ==
    ASSUME NEW q \in Request
    PROVE  /\ Disarmed(q) \in Request /\ Disarmed(q).closer # "armed" /\ Disarmed(q).step = q.step
           /\ Disarmed(q).stream = q.stream /\ Disarmed(q).sess = q.sess
  BY DEF Disarmed, Request

\* RoundTrip gives up: the stream is closed and nothing will close it again.
LEMMA GivesUp ==
    ASSUME NEW q \in Request
    PROVE  LET p == [Closed(Disarmed(q)) EXCEPT !.step = "returned"]
           IN  /\ p \in Request /\ Guarded(p)
               /\ Claiming(p) => Claiming(q) /\ p.sess = q.sess
<1> DEFINE d == Closed(Disarmed(q))
<1>1. d \in Request /\ d.closer # "armed" /\ d.stream = q.stream /\ d.sess = q.sess
  BY ClosedType, DisarmedType
<1> HIDE DEF d
<1>2. LET p == [d EXCEPT !.step = "returned"]
      IN  /\ p \in Request /\ p.step = "returned" /\ p.closer = d.closer
          /\ p.stream = d.stream /\ p.sess = d.sess
  BY <1>1 DEF Request
<1> QED BY <1>1, <1>2 DEF d, Guarded, Claiming

LEMMA StreamInit == Init => StreamInv
<1> SUFFICES ASSUME Init PROVE StreamInv
  OBVIOUS
<1>1. NoRequest \in Request /\ Guarded(NoRequest) /\ ~Claiming(NoRequest)
  BY DEF NoRequest, Request, Guarded, Claiming
<1>2. TypeOK /\ \A r \in Requests : Guarded(req[r])
  BY <1>1 DEF Init, TypeOK, Guarded
<1>3. \A S : Claims(S) = {}
  BY <1>1, ClaimsAre DEF Init
<1>4. StreamsBounded
  BY <1>3, FS_EmptySet, TransportAssumption DEF Init, StreamsBounded, TransportAssumption
<1> QED BY <1>2, <1>4 DEF StreamInv

\* A request that is free claims nothing, so a session that comes back is empty.
LEMMA ConnectStep ==
    ASSUME StreamInv, NEW s \in Sessions, Connect(s) PROVE StreamInv'
<1>1. TypeOK' /\ \A r \in Requests : Guarded(req[r])'
  BY DEF StreamInv, TypeOK, Connect, Guarded
<1>2. Claims({s}) = {}
  BY ClaimsAre DEF Connect, Free, Claiming
<1>3. StreamsBounded'
  BY <1>2, ClaimsKept DEF StreamInv, TypeOK, Connect
<1> QED BY <1>1, <1>3 DEF StreamInv

LEMMA SessionStep ==
    ASSUME StreamInv, NEW s \in Sessions, SessionCloses(s) \/ DoomedCloses(s) PROVE StreamInv'
<1>1. req' = req /\ live' \subseteq live /\ doomed' \subseteq doomed
  BY DEF SessionCloses, DoomedCloses
<1>2. TypeOK' /\ \A r \in Requests : Guarded(req[r])'
  BY <1>1 DEF StreamInv, TypeOK, Guarded
<1>3. StreamsBounded'
  BY <1>1, ClaimsKept DEF StreamInv, TypeOK
<1> QED BY <1>2, <1>3 DEF StreamInv

\* The one step that makes a claim, on a load below both limits.
LEMMA OpenStep ==
    ASSUME StreamInv, NEW r \in Requests, NEW s \in Sessions, NEW cancelled \in BOOLEAN,
           OpenStarts(r, s, cancelled)
    PROVE  StreamInv'
<1> DEFINE q == [NoRequest EXCEPT !.step = "opening", !.sess = s, !.cancelled = cancelled]
<1>0. PerSession \in Nat /\ Total \in Nat
  BY TransportAssumption DEF TransportAssumption
<1>1. q \in Request /\ q.sess = s /\ Guarded(q)
  BY DEF NoRequest, Request, Guarded
<1> HIDE DEF q
<1>2. /\ req' = [req EXCEPT ![r] = q] /\ live' = live /\ doomed' \subseteq doomed \cup {s}
      /\ Load({s}) < PerSession /\ Load(Retained) < Total
  BY DEF q, OpenStarts, Set, Admits
<1>3. TypeOK' /\ \A t \in Requests : Guarded(req[t])'
  BY <1>1, <1>2 DEF StreamInv, TypeOK, Guarded
<1>4. \A t \in Requests : req'[t] = IF t = r THEN q ELSE req[t]
  BY <1>2 DEF StreamInv, TypeOK
<1> DEFINE After(S) == {t \in Requests : req'[t].sess \in S /\ Claiming(req'[t])}
<1>5. \A S : After(S) \subseteq Claims(S) \cup {r}
  BY <1>4, ClaimsAre
<1>6. \A S : s \notin S => After(S) \subseteq Claims(S)
  BY <1>1, <1>4, ClaimsAre
<1>7. Cardinality(Claims({s})) < PerSession
  BY <1>0, <1>2, LoadCoversClaims, ClaimsFinite
<1>8. Cardinality(Claims(live)) < Total
  <2>1. Claims(live) \subseteq Claims(Retained)
    BY ClaimsAre DEF StreamInv, TypeOK, Retained
  <2>2. Cardinality(Claims(Retained)) < Total
    BY <1>0, <1>2, LoadCoversClaims, ClaimsFinite
  <2>3. Cardinality(Claims(live)) <= Cardinality(Claims(Retained))
    BY <2>1, ClaimsFinite, FS_Subset
  <2> QED BY <1>0, <2>2, <2>3, ClaimsFinite
<1>9. ASSUME NEW t \in live' PROVE Cardinality(After({t})) <= PerSession
  <2>1. CASE t = s
    BY <1>0, <1>5, <1>7, <2>1, ClaimsFinite, BoundKeptByOne
  <2>2. CASE t # s
    <3>1. After({t}) \subseteq Claims({t}) /\ t \in live
      BY <1>2, <1>6, <1>9, <2>2
    <3> QED BY <1>0, <3>1, ClaimsFinite, BoundKept DEF StreamInv, StreamsBounded
  <2> QED BY <2>1, <2>2
<1>10. Cardinality(After(live')) <= Total
  BY <1>0, <1>2, <1>5, <1>8, ClaimsFinite, BoundKeptByOne
<1>11. StreamsBounded'
  BY <1>9, <1>10 DEF StreamsBounded, Claims, Pending, Streams, Claiming
<1> QED BY <1>3, <1>11 DEF StreamInv

\* openStream and the callbacks on the context.
LEMMA OpeningStep ==
    ASSUME StreamInv, NEW r \in Requests, OpenSucceeds(r) \/ OpenFails(r) \/ OpenReturns(r)
    PROVE  StreamInv'
<1> DEFINE q == req[r]
<1>0. q \in Request /\ Guarded(q)
  BY Fields
<1> HIDE DEF q
<1>1. CASE OpenSucceeds(r) \/ OpenFails(r)
  <2>1. \A b \in BOOLEAN :
           /\ [q EXCEPT !.step = "stopped", !.stream = b] \in Request
           /\ [q EXCEPT !.step = "stopped"] \in Request
    BY <1>0 DEF Request
  <2>2. q.step = "opening" /\ q.closer # "armed"
    BY <1>0, <1>1 DEF q, OpenSucceeds, OpenFails, Guarded
  <2>3. PICK p \in Request :
           /\ Set(r, p) /\ p.sess = q.sess /\ p.closer = q.closer
           /\ live' = live /\ doomed' = doomed
    BY <1>0, <1>1, <2>1 DEF q, OpenSucceeds, OpenFails, Request
  <2> QED BY <2>2, <2>3, OneRequest DEF q, StreamInv, TypeOK, Guarded, Claiming
<1>2. CASE OpenReturns(r)
  <2>0. q.step = "stopped" /\ q.closer # "armed" /\ live' = live /\ doomed' = doomed
    BY <1>0, <1>2 DEF q, OpenReturns, Guarded
  <2>1. CASE ~q.stream
    <3> DEFINE p == [q EXCEPT !.step = "returned"]
    <3>1. p \in Request /\ Guarded(p) /\ ~Claiming(p)
      BY <1>0, <2>0, <2>1 DEF Request, Guarded, Claiming
    <3>2. Set(r, p)
      BY <1>2, <2>1 DEF q, OpenReturns
    <3> HIDE DEF p
    <3> QED BY <2>0, <3>1, <3>2, OneRequest DEF StreamInv, TypeOK
  <2>2. CASE q.stream /\ q.cancelled
    <3> DEFINE d == Closed(q)
               p == [d EXCEPT !.step = "returned"]
    <3>1. d \in Request /\ d.closer # "armed" /\ d.sess = q.sess
      BY <1>0, <2>0, ClosedType
    <3>2. Set(r, p)
      BY <1>2, <2>2 DEF q, OpenReturns
    <3> HIDE DEF d
    <3>3. p \in Request /\ Guarded(p) /\ p.sess = q.sess
      BY <3>1 DEF Request, Guarded
    <3> HIDE DEF p
    <3> QED BY <2>0, <2>2, <3>2, <3>3, OneRequest DEF q, StreamInv, TypeOK, Claiming
  <2>3. CASE q.stream /\ ~q.cancelled
    <3> DEFINE p == [q EXCEPT !.step = "waiting", !.writer = "writing", !.closer = "armed"]
    <3>1. p \in Request /\ Guarded(p) /\ p.sess = q.sess
      BY <1>0 DEF Request, Guarded
    <3>2. Set(r, p)
      BY <1>2, <2>3 DEF q, OpenReturns
    <3> HIDE DEF p
    <3> QED BY <2>0, <2>3, <3>1, <3>2, OneRequest DEF q, StreamInv, TypeOK, Claiming
  <2> QED BY <2>1, <2>2, <2>3
<1> QED BY <1>1, <1>2

LEMMA CancelStep ==
    ASSUME StreamInv, NEW r \in Requests, Cancel(r) PROVE StreamInv'
<1> DEFINE q == req[r]
           p == [q EXCEPT !.cancelled = TRUE, !.closer = IF @ = "armed" THEN "due" ELSE @]
<1>0. q \in Request /\ Guarded(q)
  BY Fields
<1>1. Set(r, p) /\ live' = live
  BY DEF Cancel
<1>2. doomed' \subseteq Sessions
  <2>1. q.step = "opening" => q.sess \in Sessions
    BY DEF StreamInv, Guarded
  <2> QED BY <2>1 DEF Cancel, StreamInv, TypeOK
<1> HIDE DEF q
<1>3. /\ p \in Request /\ p.closer # "armed" /\ p.sess = q.sess
      /\ p.step = q.step /\ p.stream = q.stream
  BY <1>0 DEF Request
<1> HIDE DEF p
<1>4. Guarded(p) /\ (Claiming(p) => Claiming(q))
  BY <1>0, <1>3 DEF Guarded, Claiming
<1> QED BY <1>1, <1>2, <1>3, <1>4, OneRequest DEF q

\* A step that leaves the step of a request, its session and its callback alone
\* and takes no capacity.
LEMMA SameStep ==
    ASSUME StreamInv, NEW r \in Requests, NEW p \in Request, Set(r, p),
           p.closer = req[r].closer, p.step = req[r].step, p.sess = req[r].sess,
           p.stream => req[r].stream,
           live' = live, doomed' = doomed
    PROVE  StreamInv'
<1>1. Guarded(p) /\ (Claiming(p) => Claiming(req[r]))
  BY Fields DEF Guarded, Claiming
<1>2. doomed' \subseteq Sessions
  BY DEF StreamInv, TypeOK
<1> QED BY <1>1, <1>2, OneRequest

\* The writer goroutine, and the timers that end a stream.
LEMMA WriterStepOK ==
    ASSUME StreamInv, NEW r \in Requests,
           \/ WriteDone(r) \/ WriteFails(r) \/ CapHeaders(r) \/ HeadersRead(r) \/ ReadFails(r)
           \/ Deregister(r)
    PROVE  StreamInv'
<1> DEFINE q == req[r]
<1>0. q \in Request /\ Guarded(q)
  BY Fields
<1>1. live' = live /\ doomed' = doomed
  BY DEF WriteDone, WriteFails, CapHeaders, HeadersRead, ReadFails, Deregister
<1>2. CASE WriteDone(r)
  <2> DEFINE p == [q EXCEPT !.writer = "written"]
  <2>1. Set(r, p)
    BY <1>2 DEF WriteDone
  <2> HIDE DEF q
  <2>2. /\ p \in Request /\ p.closer = q.closer /\ p.step = q.step
        /\ p.sess = q.sess /\ (p.stream => q.stream)
    BY <1>0 DEF Request
  <2> HIDE DEF p
  <2> QED BY <1>0, <1>1, <2>1, <2>2, SameStep DEF q
<1>3. CASE WriteFails(r) \/ ReadFails(r)
  <2> DEFINE p == [q EXCEPT !.writer = "off", !.result = "error"]
  <2>1. Set(r, p)
    BY <1>3 DEF WriteFails, ReadFails
  <2> HIDE DEF q
  <2>2. /\ p \in Request /\ p.closer = q.closer /\ p.step = q.step
        /\ p.sess = q.sess /\ (p.stream => q.stream)
    BY <1>0 DEF Request
  <2> HIDE DEF p
  <2> QED BY <1>0, <1>1, <2>1, <2>2, SameStep DEF q
<1>4. CASE CapHeaders(r)
  <2> DEFINE p == [q EXCEPT !.writer = "reading",
                         !.deadline = IF q.interrupted THEN @ ELSE "header"]
  <2>1. Set(r, p)
    BY <1>4 DEF CapHeaders
  <2> HIDE DEF q
  <2>2. /\ p \in Request /\ p.closer = q.closer /\ p.step = q.step
        /\ p.sess = q.sess /\ (p.stream => q.stream)
    BY <1>0 DEF Request
  <2> HIDE DEF p
  <2> QED BY <1>0, <1>1, <2>1, <2>2, SameStep DEF q
<1>5. CASE HeadersRead(r)
  <2> DEFINE p == [q EXCEPT !.writer = "off", !.result = "response"]
  <2>1. Set(r, p)
    BY <1>5 DEF HeadersRead
  <2> HIDE DEF q
  <2>2. /\ p \in Request /\ p.closer = q.closer /\ p.step = q.step
        /\ p.sess = q.sess /\ (p.stream => q.stream)
    BY <1>0 DEF Request
  <2> HIDE DEF p
  <2> QED BY <1>0, <1>1, <2>1, <2>2, SameStep DEF q
<1>6. CASE Deregister(r)
  <2> DEFINE p == [q EXCEPT !.stream = FALSE]
  <2>1. Set(r, p)
    BY <1>6 DEF Deregister
  <2> HIDE DEF q
  <2>2. /\ p \in Request /\ p.closer = q.closer /\ p.step = q.step
        /\ p.sess = q.sess /\ (p.stream => q.stream)
    BY <1>0 DEF Request
  <2> HIDE DEF p
  <2> QED BY <1>0, <1>1, <2>1, <2>2, SameStep DEF q
<1> QED BY <1>2, <1>3, <1>4, <1>5, <1>6

\* RoundTrip, its body, and the callback.
LEMMA TripStepOK ==
    ASSUME StreamInv, NEW r \in Requests,
           \/ CallbackCloses(r) \/ TakeError(r) \/ TakeResponse(r) \/ ContextDone(r)
           \/ ClearForBody(r) \/ BodyEnds(r)
    PROVE  StreamInv'
<1> DEFINE q == req[r]
<1>0. q \in Request /\ Guarded(q)
  BY Fields
<1>1. live' = live /\ doomed' = doomed /\ doomed \subseteq Sessions
  BY DEF CallbackCloses, TakeError, TakeResponse, ContextDone, ClearForBody, BodyEnds,
         StreamInv, TypeOK
<1>2. CASE Set(r, [Closed(Disarmed(q)) EXCEPT !.step = "returned"])
  <2> DEFINE p == [Closed(Disarmed(q)) EXCEPT !.step = "returned"]
  <2>1. /\ p \in Request /\ Guarded(p) /\ Set(r, p)
        /\ Claiming(p) => Claiming(req[r]) /\ p.sess = req[r].sess
    BY <1>0, <1>2, GivesUp
  <2> HIDE DEF p
  <2> QED BY <1>1, <2>1, OneRequest
<1>3. CASE CallbackCloses(r)
  <2> DEFINE d == Closed(q)
             p == [d EXCEPT !.closer = "off"]
  <2>1. d \in Request /\ d.step = q.step /\ d.sess = q.sess /\ d.stream = q.stream
    BY <1>0, ClosedType
  <2>2. Set(r, p)
    BY <1>3 DEF CallbackCloses
  <2> HIDE DEF d
  <2>3. /\ p \in Request /\ p.closer = "off" /\ p.step = d.step /\ p.sess = d.sess
        /\ p.stream = d.stream
    BY <2>1 DEF Request
  <2> HIDE DEF p
  <2>4. Guarded(p) /\ (Claiming(p) => Claiming(q)) /\ p.sess = q.sess
    BY <1>0, <2>1, <2>3 DEF Guarded, Claiming
  <2> HIDE DEF q
  <2> QED BY <1>1, <2>2, <2>3, <2>4, OneRequest DEF q
<1>4. CASE TakeResponse(r)
  <2> DEFINE p == [q EXCEPT !.step = "clearing"]
  <2>1. Set(r, p)
    BY <1>4 DEF TakeResponse
  <2> HIDE DEF q
  <2>2. /\ p \in Request /\ p.closer = q.closer /\ p.step = "clearing"
        /\ p.sess = q.sess /\ p.stream = q.stream
    BY <1>0 DEF Request
  <2> HIDE DEF p
  <2>3. Guarded(p) /\ (Claiming(p) => Claiming(q))
    BY <1>0, <2>2 DEF Guarded, Claiming
  <2> QED BY <1>1, <2>1, <2>2, <2>3, OneRequest DEF q
<1>5. CASE q.step = "clearing" /\ Set(r, [q EXCEPT !.step = "body", !.deadline = "none"])
  <2> DEFINE p == [q EXCEPT !.step = "body", !.deadline = "none"]
  <2>1. Set(r, p)
    BY <1>5
  <2> HIDE DEF q
  <2>2. /\ p \in Request /\ p.closer = q.closer /\ p.step = "body"
        /\ p.sess = q.sess /\ p.stream = q.stream
    BY <1>0 DEF Request
  <2> HIDE DEF p
  <2>3. Guarded(p) /\ (Claiming(p) => Claiming(q))
    BY <1>0, <2>2 DEF Guarded, Claiming
  <2> QED BY <1>1, <2>1, <2>2, <2>3, OneRequest DEF q
<1> QED
  BY <1>2, <1>3, <1>4, <1>5 DEF TakeError, ContextDone, ClearForBody, BodyEnds

-----------------------------------------------------------------------------
(* The theorems                                                            *)

LEMMA StreamStep == StreamInv /\ [Next]_vars => StreamInv'
<1> SUFFICES ASSUME StreamInv, [Next]_vars PROVE StreamInv'
  OBVIOUS
<1>1. ASSUME NEW r \in Requests, RequestNext(r) PROVE StreamInv'
  BY <1>1, OpeningStep, CancelStep, WriterStepOK, TripStepOK DEF RequestNext
<1>2. CASE UNCHANGED vars
  BY <1>2 DEF vars, StreamInv, TypeOK, StreamsBounded, Claims, Pending, Streams, Guarded
<1> QED BY <1>1, <1>2, ConnectStep, SessionStep, OpenStep DEF Next

\* The inductive invariant of the transport.
THEOREM StreamInvariant == Spec => []StreamInv
  BY StreamInit, StreamStep, PTL DEF Spec

\* The variables keep their types, and no callback outlives the RoundTrip or the
\* body that stops it.
THEOREM StreamTypes == Spec => []TypeOK
<1>1. StreamInv => TypeOK
  BY DEF StreamInv
<1> QED BY <1>1, StreamInvariant, PTL

\* The limits of a session and of all sessions are never exceeded.
THEOREM StreamsStayBounded == Spec => []StreamsBounded
<1>1. StreamInv => StreamsBounded
  BY DEF StreamInv
<1> QED BY <1>1, StreamInvariant, PTL
=============================================================================
