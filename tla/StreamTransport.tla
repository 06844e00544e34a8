--------------------------- MODULE StreamTransport ---------------------------
(***************************************************************************)
(* The hop from a visitor's request to the agent: openStream's admission   *)
(* to a yamux session (internal/tunnel/gateway.go) and RoundTrip with its  *)
(* writer goroutine, its cancellation callback and the body it hands out   *)
(* (internal/tunnel/transport.go).                                         *)
(*                                                                         *)
(* yamux is modelled by what this code relies on: a closed session fails   *)
(* its streams; Close of a stream sends FIN, and the stream stays          *)
(* registered until the peer answers or thirty seconds pass; reads and     *)
(* writes past their deadline fail.  The agent may answer late or never.   *)
(***************************************************************************)
EXTENDS Naturals, FiniteSets

CONSTANTS
    Requests,   \* requests handed to the transport
    Sessions,   \* yamux sessions of agents
    None,       \* no session
    PerSession, \* streams and pending opens of one session
    Total       \* ... and of all sessions

ASSUME TransportAssumption ==
    /\ IsFiniteSet(Requests) /\ None \notin Sessions
    /\ PerSession \in Nat \ {0} /\ Total \in Nat \ {0}

VARIABLES
    live,   \* sessions that have not closed
    doomed, \* sessions a cancelled open is about to close
    req     \* requests and their streams

vars == <<live, doomed, req>>

Request == [
    step: {"opening", "stopped", "waiting", "clearing", "body", "returned"},
    sess: Sessions \cup {None},
    cancelled: BOOLEAN,                                \* the request's context
    stream: BOOLEAN,                                   \* counted in NumStreams
    writer: {"off", "writing", "written", "reading"},  \* RoundTrip's goroutine
    result: {"none", "error", "response"},             \* what it sent
    deadline: {"none", "header", "past"},              \* of reads
    interrupted: BOOLEAN,                              \* interruptibleStream
    closer: {"off", "armed", "due"}]                   \* AfterFunc(stream.Close)

NoRequest == [step |-> "returned", sess |-> None, cancelled |-> FALSE, stream |-> FALSE,
              writer |-> "off", result |-> "none", deadline |-> "none",
              interrupted |-> FALSE, closer |-> "off"]

Init ==
    /\ live = {} /\ doomed = {}
    /\ req = [r \in Requests |-> NoRequest]

\* Nothing is left of a request: no stream, no goroutine, no callback.
Free(q) == q.step = "returned" /\ ~q.stream /\ q.writer = "off" /\ q.closer # "due"

Set(r, q) == req' = [req EXCEPT ![r] = q]

-----------------------------------------------------------------------------
(* Sessions                                                                *)

Connect(s) ==
    /\ s \notin live \cup doomed
    /\ \A r \in Requests : req[r].sess = s => Free(req[r])
    /\ live' = live \cup {s}
    /\ UNCHANGED <<doomed, req>>

\* The agent goes away, is replaced, or is killed.
SessionCloses(s) ==
    /\ s \in live
    /\ live' = live \ {s}
    /\ UNCHANGED <<doomed, req>>

\* The callback of a cancelled open closes the session under everybody.
DoomedCloses(s) ==
    /\ s \in doomed
    /\ live' = live \ {s} /\ doomed' = doomed \ {s}
    /\ UNCHANGED req

-----------------------------------------------------------------------------
(* openStream                                                              *)

\* pendingOpens and NumStreams of a set of sessions.
Pending(S) == {r \in Requests : req[r].sess \in S /\ req[r].step \in {"opening", "stopped"}}
Streams(S) == {r \in Requests : req[r].sess \in S /\ req[r].stream}
Load(S) == Cardinality(Pending(S)) + Cardinality(Streams(S))

\* A closed session is forgotten once no open is pending on it.
Retained == {s \in Sessions : s \in live \/ Pending({s}) # {}}

\* Seeded fault: opens under way are not counted.
AdmitsIgnoringPending(s) ==
    /\ Cardinality(Streams({s})) < PerSession
    /\ Cardinality(Streams(Retained)) < Total

Admits(s) == Load({s}) < PerSession /\ Load(Retained) < Total

\* A context that is done already triggers the session's callback at once.
OpenStarts(r, s, cancelled) ==
    /\ Free(req[r])
    /\ s \in live
    /\ Admits(s)
    /\ Set(r, [NoRequest EXCEPT !.step = "opening", !.sess = s, !.cancelled = cancelled])
    /\ doomed' = IF cancelled THEN doomed \cup {s} ELSE doomed
    /\ UNCHANGED live

\* OpenStream returns and the callback that would close the session is stopped.
OpenSucceeds(r) ==
    /\ req[r].step = "opening"
    /\ req[r].sess \in live
    /\ Set(r, [req[r] EXCEPT !.step = "stopped", !.stream = TRUE])
    /\ UNCHANGED <<live, doomed>>

OpenFails(r) ==
    /\ req[r].step = "opening"
    /\ Set(r, [req[r] EXCEPT !.step = "stopped"])
    /\ UNCHANGED <<live, doomed>>

\* yamux FIN, after the deadlines of reads and writes are set to the past.
Closed(q) == [q EXCEPT !.interrupted = TRUE, !.deadline = "past"]

\* stopCancel: a callback that has been started keeps running.
Disarmed(q) == [q EXCEPT !.closer = IF @ = "armed" THEN "off" ELSE @]

\* Neither an error nor a cancelled context makes a RoundTrip; a stream does.
OpenReturns(r) ==
    LET q == req[r]
    IN /\ q.step = "stopped"
       /\ Set(r, IF ~q.stream THEN [q EXCEPT !.step = "returned"]
                 ELSE IF q.cancelled THEN [Closed(q) EXCEPT !.step = "returned"]
                 ELSE [q EXCEPT !.step = "waiting", !.writer = "writing", !.closer = "armed"])
       /\ UNCHANGED <<live, doomed>>

-----------------------------------------------------------------------------
(* The context, and the callback on it                                     *)

Cancel(r) ==
    LET q == req[r]
    IN /\ ~q.cancelled /\ q.step # "returned"
       /\ Set(r, [q EXCEPT !.cancelled = TRUE, !.closer = IF @ = "armed" THEN "due" ELSE @])
       /\ doomed' = IF q.step = "opening" THEN doomed \cup {q.sess} ELSE doomed
       /\ UNCHANGED live

CallbackCloses(r) ==
    /\ req[r].closer = "due"
    /\ Set(r, [Closed(req[r]) EXCEPT !.closer = "off"])
    /\ UNCHANGED <<live, doomed>>

-----------------------------------------------------------------------------
(* The writer goroutine                                                    *)

Dead(r) == req[r].sess \notin live

WriteDone(r) ==
    /\ req[r].writer = "writing"
    /\ ~Dead(r) /\ req[r].deadline # "past"
    /\ Set(r, [req[r] EXCEPT !.writer = "written"])
    /\ UNCHANGED <<live, doomed>>

\* The peer resets the stream, or the session or the deadline is gone.
WriteFails(r) ==
    /\ req[r].writer = "writing"
    /\ Set(r, [req[r] EXCEPT !.writer = "off", !.result = "error"])
    /\ UNCHANGED <<live, doomed>>

\* The cap on the wait for headers, unless the stream was closed meanwhile.
CapHeaders(r) ==
    /\ req[r].writer = "written"
    /\ Set(r, [req[r] EXCEPT !.writer = "reading",
                             !.deadline = IF req[r].interrupted THEN @ ELSE "header"])
    /\ UNCHANGED <<live, doomed>>

\* What is buffered can still be read from a closed stream.
HeadersRead(r) ==
    /\ req[r].writer = "reading"
    /\ Set(r, [req[r] EXCEPT !.writer = "off", !.result = "response"])
    /\ UNCHANGED <<live, doomed>>

ReadFails(r) ==
    /\ req[r].writer = "reading"
    /\ Set(r, [req[r] EXCEPT !.writer = "off", !.result = "error"])
    /\ UNCHANGED <<live, doomed>>

-----------------------------------------------------------------------------
(* RoundTrip and the body it returns                                       *)

TakeError(r) ==
    /\ req[r].step = "waiting" /\ req[r].result = "error"
    /\ Set(r, [Closed(Disarmed(req[r])) EXCEPT !.step = "returned"])
    /\ UNCHANGED <<live, doomed>>

TakeResponse(r) ==
    /\ req[r].step = "waiting" /\ req[r].result = "response"
    /\ Set(r, [req[r] EXCEPT !.step = "clearing"])
    /\ UNCHANGED <<live, doomed>>

ContextDone(r) ==
    /\ req[r].step = "waiting" /\ req[r].cancelled
    /\ Set(r, [Closed(Disarmed(req[r])) EXCEPT !.step = "returned"])
    /\ UNCHANGED <<live, doomed>>

\* Seeded fault: the deadline is lifted whatever happened to the stream.
ClearUnchecked(r) ==
    /\ req[r].step = "clearing"
    /\ Set(r, [req[r] EXCEPT !.step = "body", !.deadline = "none"])
    /\ UNCHANGED <<live, doomed>>

\* clearForBody; the body of a refused response is closed at once.
ClearForBody(r) ==
    LET q == req[r]
    IN /\ q.step = "clearing"
       /\ Set(r, IF q.cancelled \/ q.interrupted
                 THEN [Closed(Disarmed(q)) EXCEPT !.step = "returned"]
                 ELSE [q EXCEPT !.step = "body", !.deadline = "none"])
       /\ UNCHANGED <<live, doomed>>

\* Seeded fault: the body closes its stream and leaves the callback behind.
BodyEndsArmed(r) ==
    /\ req[r].step = "body"
    /\ Set(r, [Closed(req[r]) EXCEPT !.step = "returned"])
    /\ UNCHANGED <<live, doomed>>

\* ReverseProxy closes the body: it ended, or reading or writing it failed.
BodyEnds(r) ==
    /\ req[r].step = "body"
    /\ Set(r, [Closed(Disarmed(req[r])) EXCEPT !.step = "returned"])
    /\ UNCHANGED <<live, doomed>>

\* The peer's FIN, the close timer, or the end of the session.
Deregister(r) ==
    /\ req[r].stream
    /\ req[r].interrupted \/ Dead(r)
    /\ Set(r, [req[r] EXCEPT !.stream = FALSE])
    /\ UNCHANGED <<live, doomed>>

-----------------------------------------------------------------------------
RequestNext(r) ==
    \/ OpenSucceeds(r) \/ OpenFails(r) \/ OpenReturns(r)
    \/ Cancel(r) \/ CallbackCloses(r)
    \/ WriteDone(r) \/ WriteFails(r) \/ CapHeaders(r) \/ HeadersRead(r) \/ ReadFails(r)
    \/ TakeError(r) \/ TakeResponse(r) \/ ContextDone(r) \/ ClearForBody(r) \/ BodyEnds(r)
    \/ Deregister(r)

Next ==
    \/ \E s \in Sessions : Connect(s) \/ SessionCloses(s) \/ DoomedCloses(s)
    \/ \E r \in Requests, s \in Sessions, cancelled \in BOOLEAN : OpenStarts(r, s, cancelled)
    \/ \E r \in Requests : RequestNext(r)

Spec == Init /\ [][Next]_vars

(* Goroutines and callbacks that can run do, and timers fire.  The agent   *)
(* owes nothing: an open, a write or a body makes progress by itself only  *)
(* once its session or its deadline is gone.                               *)
Cut(r) == Dead(r) \/ req[r].deadline = "past"

OpenCut(r) == Dead(r) /\ OpenFails(r)
WriterStep(r) == (Cut(r) /\ WriteFails(r)) \/ CapHeaders(r) \/ ReadFails(r)
TripStep(r) ==
    \/ OpenReturns(r) \/ TakeError(r) \/ TakeResponse(r) \/ ContextDone(r) \/ ClearForBody(r)
    \/ Cut(r) /\ BodyEnds(r)

Fairness ==
    /\ \A s \in Sessions : WF_vars(DoomedCloses(s))
    /\ \A r \in Requests :
          /\ WF_vars(OpenCut(r)) /\ WF_vars(CallbackCloses(r)) /\ WF_vars(Deregister(r))
          /\ WF_vars(WriterStep(r)) /\ WF_vars(TripStep(r))

FairSpec == Spec /\ Fairness

-----------------------------------------------------------------------------
(* What the transport promises                                             *)

\* The variables keep their types, and a callback is armed only as long as a
\* RoundTrip or the body it returned will stop it.
TypeOK ==
    /\ live \subseteq Sessions /\ doomed \subseteq Sessions
    /\ req \in [Requests -> Request]
    /\ \A r \in Requests : req[r].closer = "armed" => req[r].step \in {"waiting", "clearing", "body"}

\* Opens under way and streams, those included that wait for their FIN to be
\* answered, stay within the limits of their session and of all sessions
\* together (RESOURCE_LIMITS.md), although they begin and end concurrently and
\* sessions close and are forgotten under them.
Claims(S) == Pending(S) \cup Streams(S)
StreamsBounded ==
    /\ \A s \in live : Cardinality(Claims({s})) <= PerSession
    /\ Cardinality(Claims(live)) <= Total

\* A request that was cancelled or has returned leaves nothing behind, wherever
\* in the exchange it was and although the agent never answers: no stream that
\* holds capacity, no goroutine reading without a deadline (the comments of
\* RoundTrip and interruptibleStream).
AbandonedStreamsEnd ==
    \A r \in Requests : req[r].cancelled \/ req[r].step = "returned" ~> Free(req[r])
=============================================================================
