---------------------------- MODULE TunnelGateway ----------------------------
(***************************************************************************)
(* The gateway's runtime state (internal/tunnel/gateway.go): the registry  *)
(* of agent sessions, the visitor requests proxied over them, and the      *)
(* goroutines that tear them down while others build them up: PATCH and    *)
(* DELETE handlers, quota stops, meter failures, and the shutdown drain.   *)
(*                                                                         *)
(* Every action is one critical section of admissionMu, of Gateway.mu or   *)
(* of the meter, or one SQLite statement.  Attach is the only one that     *)
(* holds admissionMu across two of them, so it has a variable of its own.  *)
(* The meter is the one of UsageMeter with its byte counts left out: which *)
(* tunnels are cached, dirty, and due to be stopped.                       *)
(***************************************************************************)
EXTENDS Naturals, FiniteSets

CONSTANTS
    Tunnels,       \* tunnel ids
    Agents,        \* agent connections
    Requests,      \* visitor requests
    Handlers,      \* PATCH and DELETE handlers
    None,          \* no session, no tunnel
    StatusFields,  \* status fields of PATCH bodies, "keep" if absent
    Deletes,       \* whether owners delete tunnels
    DeviceDeletes, \* whether devices may be deleted
    QuotaStops,    \* whether traffic may use up a monthly budget
    FaultyDB,      \* whether SQLite statements may fail on their own
    PerTunnel,     \* maxConcurrentPerTunnel
    Global,        \* maxConcurrentGlobal
    AgentSlots,    \* capacity of agentSlots
    Crashes        \* whether the process may be shut down or crash

Worker == "worker"    \* the one-second flush goroutine
Stopper == "stopper"  \* the shutdown owner
Threads == Requests \cup Handlers \cup {Worker, Stopper}

ASSUME GatewayAssumption ==
    /\ None \notin Tunnels \cup Agents
    /\ Requests \cap Handlers = {} /\ Worker \notin Requests \cup Handlers
    /\ Stopper \notin Requests \cup Handlers \cup {Worker}
    /\ StatusFields \subseteq {"keep", "active", "disabled"}
    /\ PerTunnel \in Nat \ {0} /\ Global \in Nat \ {0} /\ AgentSlots \in Nat \ {0}
    /\ {Deletes, DeviceDeletes, QuotaStops, FaultyDB, Crashes} \subseteq BOOLEAN

VARIABLES
    row,        \* tunnels.status; "gone" once the row is deleted
    cached,     \* tunnels with a loaded meter entry
    dirty,      \* tunnels with settled bytes not yet committed
    stops,      \* dirty tunnels whose entry has stopPending
    failure,    \* the meter's latched failure
    sess,       \* Gateway.sess
    agent,      \* agent connections and their Connect handlers
    attaching,  \* the connection whose Attach holds admissionMu
    req,        \* visitor requests
    handler,    \* PATCH and DELETE handlers
    kill,       \* progress of Kill / CloseSessions in every thread
    life        \* where the process is in its shutdown

meterVars == <<cached, dirty, stops, failure>>
vars == <<row, meterVars, sess, agent, attaching, req, handler, kill, life>>

Statuses == {"active", "disabled", "quota_exceeded", "gone"}

Conn == [step: {"idle", "handshake", "validated", "attached", "replaced"},
         tunnel: Tunnels \cup {None}, open: BOOLEAN]
NoConn == [step |-> "idle", tunnel |-> None, open |-> FALSE]

RequestSteps == {"idle", "routed", "found", "admitted", "begun", "serving", "opening",
                 "streaming", "failed", "ended", "unregistered", "flushed", "refused"}
Request == [step: RequestSteps, tunnel: Tunnels \cup {None}, stream: Agents \cup {None},
            cancelled: BOOLEAN]
NoRequest == [step |-> "idle", tunnel |-> None, stream |-> None, cancelled |-> FALSE]

Handler == [step: {"idle", "loaded", "committed", "called", "removing", "drained", "releasing"},
            tunnel: Tunnels \cup {None}, status: Statuses, field: StatusFields \cup {"keep"}]
NoHandler == [step |-> "idle", tunnel |-> None, status |-> "active", field |-> "keep"]

Kill == [step: {"none", "cancel", "unmap", "close"}, batch: SUBSET Tunnels,
         rest: SUBSET Tunnels, victims: SUBSET Agents]
NoKill == [step |-> "none", batch |-> {}, rest |-> {}, victims |-> {}]

Init ==
    /\ row = [t \in Tunnels |-> "active"]
    /\ cached = {} /\ dirty = {} /\ stops = {} /\ failure = FALSE
    /\ sess = [t \in Tunnels |-> None]
    /\ agent = [c \in Agents |-> NoConn]
    /\ attaching = None
    /\ req = [r \in Requests |-> NoRequest]
    /\ handler = [h \in Handlers |-> NoHandler]
    /\ kill = [x \in Threads |-> NoKill]
    /\ life = "run"

-----------------------------------------------------------------------------
(* What the maps and counters of Gateway hold, read off the threads        *)

\* len(admission[t]): requests between admitTunnel and its release.
Admitted(t) == {r \in Requests : req[r].tunnel = t /\ req[r].step \notin {"idle", "routed", "found"}}

\* gsem: requests between the global slot and its release.
GlobalSlots(q) == {r \in Requests : q[r].step \in RequestSteps \ {"idle", "routed", "found", "admitted", "refused"}}

\* usageMeter.active: tunnels with a handle that has not closed.
ActiveIn(q) == {q[r].tunnel : r \in {s \in Requests :
                  q[s].step \in {"begun", "serving", "opening", "streaming", "failed", "ended", "unregistered"}}}

\* jobs[t]: the requests whose cancel functions are registered.
Jobs(t) == {r \in Requests :
              req[r].tunnel = t /\ req[r].step \in {"serving", "opening", "streaming", "failed", "ended"}}

\* removing[t] > 0: a DELETE is between PrepareDelete and its release.
Removing(t) == \E h \in Handlers :
    handler[h].tunnel = t /\ handler[h].step \in {"removing", "drained", "releasing"}

AdmissionFree == attaching = None
Running(x) == kill[x].step = "none"

-----------------------------------------------------------------------------
(* Kill, CloseSessions and meterResult, run by whichever thread calls them *)

\* CloseSessions takes every tunnel at once...
KillAll == [NoKill EXCEPT !.step = "cancel", !.batch = Tunnels]

\* ... and a list of stopped tunnels is killed one after the other.
KillEach(S) ==
    IF S = {} THEN {NoKill}
    ELSE {[NoKill EXCEPT !.step = "cancel", !.batch = {t}, !.rest = S \ {t}] : t \in S}

KillCancels(x) ==
    /\ kill[x].step = "cancel"
    /\ AdmissionFree
    /\ req' = [r \in Requests |->
            IF \E t \in kill[x].batch : r \in Jobs(t) THEN [req[r] EXCEPT !.cancelled = TRUE] ELSE req[r]]
    /\ kill' = [kill EXCEPT ![x].step = "unmap"]
    /\ UNCHANGED <<row, meterVars, sess, agent, attaching, handler, life>>

KillUnmaps(x) ==
    /\ kill[x].step = "unmap"
    /\ sess' = [t \in Tunnels |-> IF t \in kill[x].batch THEN None ELSE sess[t]]
    /\ kill' = [kill EXCEPT ![x].step = "close",
                            ![x].victims = {sess[t] : t \in kill[x].batch} \ {None}]
    /\ UNCHANGED <<row, meterVars, agent, attaching, req, handler, life>>

\* Seeded fault: the session leaves the registry but is not closed.
KillDrops(x) ==
    /\ kill[x].step = "close"
    /\ \E next \in KillEach(kill[x].rest) : kill' = [kill EXCEPT ![x] = next]
    /\ UNCHANGED <<row, meterVars, sess, agent, attaching, req, handler, life>>

KillCloses(x) ==
    /\ kill[x].step = "close"
    /\ agent' = [c \in Agents |->
            IF c \in kill[x].victims THEN [agent[c] EXCEPT !.open = FALSE] ELSE agent[c]]
    /\ \E next \in KillEach(kill[x].rest) : kill' = [kill EXCEPT ![x] = next]
    /\ UNCHANGED <<row, meterVars, sess, attaching, req, handler, life>>

\* Seeded fault: a flush with nothing to write does not report a latched failure.
FlushIdleQuiet(x, d, s, active, spent) ==
    \/ /\ d = {}
       /\ cached' = cached \cap active
       /\ kill' = [kill EXCEPT ![x] = NoKill]
       /\ dirty' = {} /\ stops' = s
       /\ UNCHANGED <<row, failure>>
    \/ /\ d # {}
       /\ \A t \in d : row[t] # "gone"
       /\ row' = [t \in Tunnels |->
              IF t \in s /\ row[t] = "active" THEN "quota_exceeded" ELSE row[t]]
       /\ cached' = cached \cap active
       /\ kill' = [kill EXCEPT ![x] = KillAll]
       /\ dirty' = {} /\ stops' = {}
       /\ UNCHANGED failure

\* The meter flushed by thread x, given its dirty and stopping tunnels and the
\* tunnels still active; flushLocked and the meterResult that follows it, which
\* closes every session if the shared budget is spent or the meter degraded.
Flush(x, d, s, active, spent) ==
    \/ /\ d = {}
       /\ cached' = cached \cap active
       /\ kill' = [kill EXCEPT ![x] = IF failure \/ spent THEN KillAll ELSE NoKill]
       /\ dirty' = {} /\ stops' = s
       /\ UNCHANGED <<row, failure>>
    \/ /\ d # {}
       /\ \A t \in d : row[t] # "gone"
       /\ row' = [t \in Tunnels |->
              IF t \in s /\ row[t] = "active" THEN "quota_exceeded" ELSE row[t]]
       /\ cached' = cached \cap active
       /\ \E next \in IF failure \/ spent THEN {KillAll} ELSE KillEach(s) : kill' = [kill EXCEPT ![x] = next]
       /\ dirty' = {} /\ stops' = {}
       /\ UNCHANGED failure
    \/ /\ d # {}
       /\ FaultyDB \/ \E t \in d : row[t] = "gone"
       /\ failure' = TRUE
       /\ kill' = [kill EXCEPT ![x] = KillAll]
       /\ dirty' = d /\ stops' = s
       /\ UNCHANGED <<row, cached>>

FlushTick ==
    /\ life = "run"
    /\ Running(Worker)
    /\ Flush(Worker, dirty, stops, ActiveIn(req), FALSE)
    /\ UNCHANGED <<sess, agent, attaching, req, handler, life>>

\* A settings or budget query fails: the failure is latched, nothing is closed.
QueryFails ==
    /\ FaultyDB
    /\ life # "done" /\ ~failure
    /\ failure' = TRUE
    /\ UNCHANGED <<row, cached, dirty, stops, sess, agent, attaching, req, handler, kill, life>>

-----------------------------------------------------------------------------
(* Agent connections                                                       *)

\* handleTunnelConnect up to Attach.  A connection's identity is not reused
\* while somebody still refers to it.
Connect(c, t) ==
    /\ life = "run"
    /\ agent[c].step = "idle"
    /\ \A r \in Requests : req[r].stream # c
    /\ \A x \in Threads : c \notin kill[x].victims
    /\ row[t] = "active"
    /\ ~failure
    /\ Cardinality({d \in Agents : agent[d].step # "idle"}) < AgentSlots
    /\ agent' = [agent EXCEPT ![c] = [step |-> "handshake", tunnel |-> t, open |-> TRUE]]
    /\ UNCHANGED <<row, meterVars, sess, attaching, req, handler, kill, life>>

\* Seeded fault: the row is not read again under admissionMu.
AttachUnchecked(c) ==
    /\ agent[c].step = "handshake"
    /\ AdmissionFree
    /\ ~Removing(agent[c].tunnel)
    /\ agent' = [agent EXCEPT ![c].step = "validated"]
    /\ attaching' = c
    /\ UNCHANGED <<row, meterVars, sess, req, handler, kill, life>>

\* Attach under admissionMu: the removal guard and the row.
AttachValidates(c) ==
    /\ agent[c].step = "handshake"
    /\ AdmissionFree
    /\ ~Removing(agent[c].tunnel)
    /\ row[agent[c].tunnel] = "active"
    /\ agent' = [agent EXCEPT ![c].step = "validated"]
    /\ attaching' = c
    /\ UNCHANGED <<row, meterVars, sess, req, handler, kill, life>>

AttachRefused(c) ==
    /\ agent[c].step = "handshake"
    /\ AdmissionFree
    /\ \/ Removing(agent[c].tunnel)
       \/ row[agent[c].tunnel] # "active"
       \/ FaultyDB
    /\ agent' = [agent EXCEPT ![c] = NoConn]
    /\ UNCHANGED <<row, meterVars, sess, attaching, req, handler, kill, life>>

Closing == life \in {"closing", "waiting", "draining", "done"}

\* Seeded fault: a closing server still takes sessions.
AttachWhileClosing(c) ==
    /\ agent[c].step = "validated"
    /\ ~failure
    /\ agent' = [d \in Agents |->
           IF d = c THEN [agent[c] EXCEPT !.step = "attached"]
           ELSE IF d = sess[agent[c].tunnel] THEN [agent[d] EXCEPT !.step = "replaced"] ELSE agent[d]]
    /\ sess' = [sess EXCEPT ![agent[c].tunnel] = c]
    /\ attaching' = None
    /\ UNCHANGED <<row, meterVars, req, handler, kill, life>>

\* Attach under mu: the session is registered and the one it replaces dropped.
AttachRegisters(c) ==
    LET t == agent[c].tunnel
        old == sess[t]
    IN /\ agent[c].step = "validated"
       /\ ~Closing /\ ~failure
       /\ agent' = [d \in Agents |->
              IF d = c THEN [agent[c] EXCEPT !.step = "attached"]
              ELSE IF d = old THEN [agent[d] EXCEPT !.step = "replaced"] ELSE agent[d]]
       /\ sess' = [sess EXCEPT ![t] = c]
       /\ attaching' = None
       /\ UNCHANGED <<row, meterVars, req, handler, kill, life>>

AttachRejected(c) ==
    /\ agent[c].step = "validated"
    /\ Closing \/ failure
    /\ agent' = [agent EXCEPT ![c] = NoConn]
    /\ attaching' = None
    /\ UNCHANGED <<row, meterVars, sess, req, handler, kill, life>>

\* go old.Close()
CloseReplaced(c) ==
    /\ agent[c].step = "replaced"
    /\ agent[c].open
    /\ agent' = [agent EXCEPT ![c].open = FALSE]
    /\ UNCHANGED <<row, meterVars, sess, attaching, req, handler, kill, life>>

\* The connection dies or the agent opens a stream of its own.
SessionLost(c) ==
    /\ agent[c].open
    /\ agent' = [agent EXCEPT ![c].open = FALSE]
    /\ UNCHANGED <<row, meterVars, sess, attaching, req, handler, kill, life>>

\* Seeded faults: the watcher unregisters whatever session the tunnel has now,
\* or leaves its own one registered.
WatchDropsSuccessor(c) ==
    /\ agent[c].step \in {"attached", "replaced"}
    /\ ~agent[c].open
    /\ sess' = [sess EXCEPT ![agent[c].tunnel] = None]
    /\ agent' = [agent EXCEPT ![c] = NoConn]
    /\ UNCHANGED <<row, meterVars, attaching, req, handler, kill, life>>
WatchForgets(c) ==
    /\ agent[c].step \in {"attached", "replaced"}
    /\ ~agent[c].open
    /\ agent' = [agent EXCEPT ![c] = NoConn]
    /\ UNCHANGED <<row, meterVars, sess, attaching, req, handler, kill, life>>

\* The watchers of a closed session finish, and its Connect handler with them.
Watch(c) ==
    /\ agent[c].step \in {"attached", "replaced"}
    /\ ~agent[c].open
    /\ sess' = [t \in Tunnels |-> IF t = agent[c].tunnel /\ sess[t] = c THEN None ELSE sess[t]]
    /\ agent' = [agent EXCEPT ![c] = NoConn]
    /\ UNCHANGED <<row, meterVars, attaching, req, handler, kill, life>>

-----------------------------------------------------------------------------
(* Visitor requests                                                        *)

\* Moves r to a step, possibly rebinding its stream.
Goto(r, step) == req' = [req EXCEPT ![r].step = step]
Leave(r) == req' = [req EXCEPT ![r] = NoRequest]
\* What a step of a request other than its own state leaves alone.
OnlyRequest == UNCHANGED <<row, meterVars, sess, agent, attaching, handler, kill, life>>

\* serveVisitor: the row copy the whole request works with says active.
Arrive(r, t) ==
    /\ life = "run"
    /\ req[r].step = "idle"
    /\ row[t] = "active"
    /\ req' = [req EXCEPT ![r] = [NoRequest EXCEPT !.step = "routed", !.tunnel = t]]
    /\ OnlyRequest

\* globalOverBudget, then the session check of proxyRequest.
FindSession(r) ==
    /\ req[r].step = "routed"
    /\ IF failure \/ sess[req[r].tunnel] = None THEN Leave(r) ELSE Goto(r, "found")
    /\ OnlyRequest

\* admitTunnel
Admit(r) ==
    LET t == req[r].tunnel
    IN /\ req[r].step = "found"
       /\ AdmissionFree
       /\ IF Removing(t) \/ Cardinality(Admitted(t)) >= PerTunnel
          THEN Leave(r) ELSE Goto(r, "admitted")
       /\ OnlyRequest

\* The global slot, and the meter handle of a request that got one.
TakeGlobalSlot(r) ==
    /\ req[r].step = "admitted"
    /\ Goto(r, IF Cardinality(GlobalSlots(req)) >= Global THEN "refused" ELSE "begun")
    /\ OnlyRequest

RegisterJob(r) ==
    /\ req[r].step = "begun"
    /\ AdmissionFree
    /\ Goto(r, "serving")
    /\ OnlyRequest

\* RoundTrip looks the session up again...
PickSession(r) ==
    LET c == sess[req[r].tunnel]
    IN /\ req[r].step = "serving"
       /\ Running(r)
       /\ req' = [req EXCEPT ![r].step = IF c = None THEN "failed" ELSE "opening", ![r].stream = c]
       /\ OnlyRequest

\* ... and opens a stream on it, unless it has closed or is saturated.
OpenStream(r) ==
    LET c == req[r].stream
    IN /\ req[r].step = "opening"
       /\ \/ agent[c].open /\ ~req[r].cancelled /\ Goto(r, "streaming")
          \/ req' = [req EXCEPT ![r].step = "failed", ![r].stream = None]
       /\ OnlyRequest

\* A request cancelled while it opens its stream closes the agent's session.
OpenInterrupted(r) ==
    /\ req[r].step = "opening"
    /\ req[r].cancelled
    /\ agent' = [agent EXCEPT ![req[r].stream].open = FALSE]
    /\ req' = [req EXCEPT ![r].step = "failed", ![r].stream = None]
    /\ UNCHANGED <<row, meterVars, sess, attaching, handler, kill, life>>

\* The context is cancelled and both deadlines of the visitor's connection have
\* passed: no more than the I/O in flight moves.
Interrupted(r) == req[r].cancelled

\* Body bytes or an error page pass through the meter.
Move(r) ==
    LET t == req[r].tunnel
        d == dirty \cup {t}
    IN /\ req[r].step \in {"streaming", "failed"}
       /\ Running(r)
       /\ ~failure
       /\ t \in cached \/ row[t] = "active"
       /\ \/ \E spent \in {FALSE, QuotaStops}, stopping \in {{}, {t}} :
                /\ stopping # {} => QuotaStops
                /\ Flush(r, d, stops \cup stopping, ActiveIn(req), spent)
          \/ /\ cached' = cached \cup {t}
             /\ dirty' = d
             /\ UNCHANGED <<row, stops, failure, kill>>
       /\ IF Interrupted(r) THEN Goto(r, "ended") ELSE UNCHANGED req
       /\ UNCHANGED <<sess, agent, attaching, handler, life>>

\* reserve refuses: a degraded meter or an exhausted shared budget closes every
\* session, a tunnel without an active row or a spent budget only this request.
MoveRefused(r) ==
    /\ req[r].step \in {"streaming", "failed"}
    /\ Running(r)
    /\ \/ failure /\ kill' = [kill EXCEPT ![r] = KillAll]
       \/ QuotaStops /\ ~failure /\ kill' = [kill EXCEPT ![r] = KillAll]
       \/ ~failure /\ UNCHANGED kill
    /\ \/ UNCHANGED cached
       \/ ~failure /\ row[req[r].tunnel] = "active" /\ cached' = cached \cup {req[r].tunnel}
    /\ Goto(r, "ended")
    /\ UNCHANGED <<row, dirty, stops, failure, sess, agent, attaching, handler, life>>

\* ServeHTTP returns: the exchange is over, cancelled, or its session is gone.
End(r) ==
    /\ req[r].step \in {"streaming", "failed"}
    /\ Running(r)
    /\ Goto(r, "ended")
    /\ OnlyRequest

VisitorLeaves(r) ==
    /\ req[r].step \in {"serving", "opening", "streaming"}
    /\ ~req[r].cancelled
    /\ req' = [req EXCEPT ![r].cancelled = TRUE]
    /\ OnlyRequest

\* The deferred calls of proxyRequest, in their order.
UnregisterJob(r) ==
    /\ req[r].step = "ended"
    /\ Running(r)
    /\ AdmissionFree
    /\ req' = [req EXCEPT ![r].step = "unregistered", ![r].stream = None]
    /\ OnlyRequest

CloseMeter(r) ==
    /\ req[r].step = "unregistered"
    /\ Goto(r, "flushed")
    /\ Flush(r, dirty, stops, ActiveIn(req'), FALSE)
    /\ UNCHANGED <<sess, agent, attaching, handler, life>>

Release(r) ==
    /\ req[r].step \in {"flushed", "refused"}
    /\ Running(r)
    /\ AdmissionFree
    /\ Leave(r)
    /\ OnlyRequest

-----------------------------------------------------------------------------
(* PATCH and DELETE handlers                                               *)

OnlyHandler == UNCHANGED <<meterVars, sess, agent, attaching, req, kill, life>>

\* The handler reads the row and fixes the status it will write.
PatchLoad(h, t, field) ==
    /\ life = "run"
    /\ handler[h].step = "idle" /\ Running(h)
    /\ row[t] # "gone"
    /\ handler' = [handler EXCEPT ![h] =
            [step |-> "loaded", tunnel |-> t, field |-> field,
             status |-> IF field = "keep" THEN row[t] ELSE field]]
    /\ UNCHANGED row /\ OnlyHandler

PatchCommit(h) ==
    LET t == handler[h].tunnel
    IN /\ handler[h].step = "loaded"
       /\ \/ /\ row' = [row EXCEPT ![t] = IF @ = "gone" THEN @ ELSE handler[h].status]
             /\ handler' = [handler EXCEPT ![h].step = "committed"]
          \/ /\ FaultyDB
             /\ handler' = [handler EXCEPT ![h] = NoHandler]
             /\ UNCHANGED row
       /\ OnlyHandler

\* UpdateQuota, whose failure closes every session.
PatchCallback(h) ==
    /\ handler[h].step = "committed"
    /\ handler' = [handler EXCEPT ![h].step = "called"]
    /\ \/ UNCHANGED <<failure, kill>>
       \/ FaultyDB /\ failure' = TRUE /\ kill' = [kill EXCEPT ![h] = KillAll]
    /\ UNCHANGED <<row, cached, dirty, stops, sess, agent, attaching, req, life>>

\* Seeded fault: disabling a tunnel leaves its session alone.
PatchKeepsSession(h) ==
    /\ handler[h].step = "called"
    /\ Running(h)
    /\ handler' = [handler EXCEPT ![h] = NoHandler]
    /\ UNCHANGED <<row, meterVars, sess, agent, attaching, req, kill, life>>

\* A PATCH that wrote "disabled" ends with Forget.
PatchForget(h) ==
    /\ handler[h].step = "called"
    /\ Running(h)
    /\ handler' = [handler EXCEPT ![h] = NoHandler]
    /\ IF handler[h].status = "disabled"
       THEN \E next \in KillEach({handler[h].tunnel}) : kill' = [kill EXCEPT ![h] = next]
       ELSE UNCHANGED kill
    /\ UNCHANGED <<row, meterVars, sess, agent, attaching, req, life>>

\* DELETE: PrepareDelete raises the guard and kills the session...
DeleteBegin(h, t) ==
    /\ Deletes
    /\ life = "run"
    /\ handler[h].step = "idle" /\ Running(h)
    /\ row[t] # "gone"
    /\ AdmissionFree
    /\ handler' = [handler EXCEPT ![h] = [NoHandler EXCEPT !.step = "removing", !.tunnel = t]]
    /\ \E next \in KillEach({t}) : kill' = [kill EXCEPT ![h] = next]
    /\ UNCHANGED <<row, meterVars, sess, agent, attaching, req, life>>

\* Seeded fault: the row goes without waiting for the requests admitted before.
DeleteUndrained(h) ==
    /\ handler[h].step = "removing"
    /\ Running(h)
    /\ AdmissionFree
    /\ Flush(h, dirty, stops, ActiveIn(req), FALSE)
    /\ handler' = [handler EXCEPT ![h] =
            [@ EXCEPT !.step = IF failure' THEN "releasing" ELSE "drained"]]
    /\ UNCHANGED <<sess, agent, attaching, req, life>>

\* ... waits for the tunnel's requests and flushes what they left...
DeleteDrain(h) ==
    /\ handler[h].step = "removing"
    /\ Running(h)
    /\ AdmissionFree
    /\ Admitted(handler[h].tunnel) = {}
    /\ Flush(h, dirty, stops, ActiveIn(req), FALSE)
    /\ handler' = [handler EXCEPT ![h] =
            [@ EXCEPT !.step = IF failure' THEN "releasing" ELSE "drained"]]
    /\ UNCHANGED <<sess, agent, attaching, req, life>>

\* Seeded fault: the wait for the requests does not look at its deadline.
DeleteWaitsOn(h) ==
    /\ handler[h].step = "removing"
    /\ Running(h)
    /\ AdmissionFree
    /\ Admitted(handler[h].tunnel) = {}
    /\ handler' = [handler EXCEPT ![h] = NoHandler]
    /\ UNCHANGED row /\ OnlyHandler

\* ... or gives up after five seconds.
DeleteTimesOut(h) ==
    /\ handler[h].step = "removing"
    /\ Running(h)
    /\ AdmissionFree
    /\ handler' = [handler EXCEPT ![h] = NoHandler]
    /\ UNCHANGED row /\ OnlyHandler

DeleteRow(h) ==
    /\ handler[h].step = "drained"
    /\ Running(h)
    /\ handler' = [handler EXCEPT ![h].step = "releasing"]
    /\ \/ row' = [row EXCEPT ![handler[h].tunnel] = "gone"]
       \/ FaultyDB /\ UNCHANGED row
    /\ OnlyHandler

DeleteRelease(h) ==
    /\ handler[h].step = "releasing"
    /\ Running(h)
    /\ AdmissionFree
    /\ handler' = [handler EXCEPT ![h] = NoHandler]
    /\ UNCHANGED row /\ OnlyHandler

\* DELETE /devices/{id} removes the tunnel rows of the device, nothing else.
DeviceDelete(t) ==
    /\ DeviceDeletes
    /\ life = "run"
    /\ row[t] # "gone"
    /\ row' = [row EXCEPT ![t] = "gone"]
    /\ UNCHANGED <<meterVars, sess, agent, attaching, req, handler, kill, life>>

-----------------------------------------------------------------------------
(* Shutdown                                                                *)

\* Admission stops and the server's lifetime context is cancelled.
StopAdmission ==
    /\ Crashes
    /\ life = "run"
    /\ life' = "stopping"
    /\ req' = [r \in Requests |->
            IF req[r].step # "idle" THEN [req[r] EXCEPT !.cancelled = TRUE] ELSE req[r]]
    /\ UNCHANGED <<row, meterVars, sess, agent, attaching, handler, kill>>

\* ShutdownSessions: no session may register any more, and all are closed...
StopSessions ==
    /\ life = "stopping"
    /\ life' = "closing"
    /\ kill' = [kill EXCEPT ![Stopper] = KillAll]
    /\ UNCHANGED <<row, meterVars, sess, agent, attaching, req, handler>>

\* ... and their watchers waited for.
AwaitWatchers ==
    /\ life = "closing"
    /\ Running(Stopper)
    /\ \A c \in Agents : agent[c].step \notin {"attached", "replaced"}
    /\ life' = "waiting"
    /\ UNCHANGED <<row, meterVars, sess, agent, attaching, req, handler, kill>>

AwaitHandlers ==
    /\ life = "waiting"
    /\ \A c \in Agents : agent[c].step = "idle"
    /\ \A r \in Requests : req[r].step = "idle"
    /\ \A h \in Handlers : handler[h].step = "idle" /\ Running(h)
    /\ life' = "draining"
    /\ UNCHANGED <<row, meterVars, sess, agent, attaching, req, handler, kill>>

\* StopMeter: the worker is gone and the last flush runs.
FinalFlush ==
    /\ life = "draining"
    /\ Running(Worker)
    /\ Flush(Stopper, dirty, stops, ActiveIn(req), FALSE)
    /\ life' = "done"
    /\ UNCHANGED <<sess, agent, attaching, req, handler>>

\* The process ends, after its shutdown or without one, and starts again.
Restart ==
    /\ Crashes
    /\ row' = row
    /\ cached' = {} /\ dirty' = {} /\ stops' = {} /\ failure' = FALSE
    /\ sess' = [t \in Tunnels |-> None]
    /\ agent' = [c \in Agents |-> NoConn]
    /\ attaching' = None
    /\ req' = [r \in Requests |-> NoRequest]
    /\ handler' = [h \in Handlers |-> NoHandler]
    /\ kill' = [x \in Threads |-> NoKill]
    /\ life' = "run"

-----------------------------------------------------------------------------
KillNext(x) == KillCancels(x) \/ KillUnmaps(x) \/ KillCloses(x)

AgentNext(c) ==
    \/ \E t \in Tunnels : Connect(c, t)
    \/ AttachValidates(c) \/ AttachRefused(c) \/ AttachRegisters(c) \/ AttachRejected(c)
    \/ CloseReplaced(c) \/ SessionLost(c) \/ Watch(c)

RequestNext(r) ==
    \/ \E t \in Tunnels : Arrive(r, t)
    \/ FindSession(r) \/ Admit(r) \/ TakeGlobalSlot(r) \/ RegisterJob(r) \/ PickSession(r)
    \/ OpenStream(r) \/ OpenInterrupted(r) \/ Move(r) \/ MoveRefused(r) \/ End(r)
    \/ VisitorLeaves(r) \/ UnregisterJob(r) \/ CloseMeter(r) \/ Release(r)

HandlerNext(h) ==
    \/ \E t \in Tunnels, field \in StatusFields : PatchLoad(h, t, field)
    \/ PatchCommit(h) \/ PatchCallback(h) \/ PatchForget(h)
    \/ \E t \in Tunnels : DeleteBegin(h, t)
    \/ DeleteDrain(h) \/ DeleteTimesOut(h) \/ DeleteRow(h) \/ DeleteRelease(h)

StopNext == StopAdmission \/ StopSessions \/ AwaitWatchers \/ AwaitHandlers \/ FinalFlush

Next ==
    \/ \E x \in Threads : KillNext(x)
    \/ \E c \in Agents : AgentNext(c)
    \/ \E r \in Requests : RequestNext(r)
    \/ \E h \in Handlers : HandlerNext(h)
    \/ \E t \in Tunnels : DeviceDelete(t)
    \/ FlushTick \/ QueryFails \/ StopNext \/ Restart

Spec == Init /\ [][Next]_vars

(* Every goroutine that can run does, and one that waits for admissionMu   *)
(* gets it although others keep taking it: sync.Mutex hands itself to a    *)
(* starved waiter, hence the strong fairness.  A goroutine has one next    *)
(* step at a time, so its steps share one condition.  Visitors, agents,    *)
(* PATCHes and DELETEs need never come.  An exchange ends for sure only if *)
(* it is cancelled, for the server sets no deadlines of its own: one that  *)
(* is not may wait for a stalled visitor forever, though its session is    *)
(* gone.  The five seconds of a DELETE do pass.                            *)

EndInterrupted(r) ==
    /\ Interrupted(r)
    /\ End(r)

AgentStep(c) ==
    AttachValidates(c) \/ AttachRefused(c) \/ AttachRegisters(c) \/ AttachRejected(c)
        \/ CloseReplaced(c) \/ Watch(c)

RequestStep(r) ==
    KillNext(r) \/ FindSession(r) \/ Admit(r) \/ TakeGlobalSlot(r) \/ RegisterJob(r) \/ PickSession(r)
        \/ OpenStream(r) \/ OpenInterrupted(r) \/ EndInterrupted(r) \/ UnregisterJob(r)
        \/ CloseMeter(r) \/ Release(r)

HandlerStep(h) ==
    KillNext(h) \/ PatchCommit(h) \/ PatchCallback(h) \/ PatchForget(h)
        \/ DeleteDrain(h) \/ DeleteTimesOut(h) \/ DeleteRow(h) \/ DeleteRelease(h)

WorkerStep == KillNext(Worker) \/ FlushTick
StopperStep == KillNext(Stopper) \/ StopSessions \/ AwaitWatchers \/ AwaitHandlers \/ FinalFlush

Fairness ==
    /\ SF_vars(WorkerStep) /\ SF_vars(StopperStep)
    /\ \A c \in Agents : SF_vars(AgentStep(c))
    /\ \A r \in Requests : SF_vars(RequestStep(r))
    /\ \A h \in Handlers : SF_vars(HandlerStep(h))

FairSpec == Spec /\ Fairness

-----------------------------------------------------------------------------
(* What the gateway promises                                               *)

\* The variables keep their types, and the registry names each tunnel's own session.
TypeOK ==
    /\ row \in [Tunnels -> Statuses]
    /\ cached \subseteq Tunnels /\ dirty \subseteq Tunnels /\ stops \subseteq dirty
    /\ failure \in BOOLEAN
    /\ sess \in [Tunnels -> Agents \cup {None}]
    /\ agent \in [Agents -> Conn]
    /\ attaching \in Agents \cup {None}
    /\ req \in [Requests -> Request]
    /\ handler \in [Handlers -> Handler]
    /\ kill \in [Threads -> Kill]
    /\ life \in {"run", "stopping", "closing", "waiting", "draining", "done"}
    /\ \A t \in Tunnels : sess[t] # None => agent[sess[t]].tunnel = t

\* However attaches, replacements, kills and watchers interleave, an open
\* attached session is in the registry, where Kill finds it, or is being closed
\* by the goroutine that took it out (Attach, Kill, CloseSessions).
EverySessionOwned ==
    \A c \in Agents : agent[c].step = "attached" /\ agent[c].open =>
        \/ sess[agent[c].tunnel] = c
        \/ \E x \in Threads : kill[x].step = "close" /\ c \in kill[x].victims

\* Some goroutine has yet to take t's session out of the registry.
KillComing(t) ==
    \/ \E x \in Threads : t \in kill[x].rest
    \/ \E x \in Threads : t \in kill[x].batch /\ kill[x].step \in {"cancel", "unmap"}
    \/ \E h \in Handlers : /\ handler[h].step \in {"committed", "called"}
                          /\ handler[h].tunnel = t /\ handler[h].status = "disabled"

\* A session registered for a tunnel that was disabled, stopped or deleted in
\* the meantime is about to be killed: an Attach that raced the change never
\* slips past it (the guard comment of Attach, Forget, meterResult).
SessionsJustified ==
    \A t \in Tunnels : sess[t] # None /\ row[t] # "active" => KillComing(t)

\* PrepareDelete keeps its word: when the owner's DELETE removes the row, no
\* request of the tunnel is live and the meter holds nothing of it.
DeleteDrained ==
    [][\A t \in Tunnels : row[t] # "gone" /\ row'[t] = "gone" =>
          Admitted(t) = {} /\ t \notin dirty \cup cached]_vars

\* The row leaves quota_exceeded for active only by a PATCH that asks for it.
QuotaStopSticks ==
    [][\A t \in Tunnels : row[t] = "quota_exceeded" /\ row'[t] = "active" =>
          \E h \in Handlers : handler[h].step = "loaded" /\ handler[h].tunnel = t
                              /\ handler[h].field = "active"]_vars

\* Once the drain has waited for the watchers no session can register again,
\* and when the last flush is done nobody is left to touch SQLite.
ShutdownQuiet ==
    /\ life \in {"waiting", "draining", "done"} =>
          \A c \in Agents : agent[c].step \notin {"attached", "replaced"}
    /\ life = "done" =>
          /\ \A x \in Threads \ {Stopper} : Running(x)
          /\ \A r \in Requests : req[r].step = "idle"
          /\ dirty = {} \/ failure

\* A degraded meter ends with every session closed and none coming back.
FailureClosesSessions ==
    <>[]failure => <>[](\A t \in Tunnels : sess[t] = None)

\* A tunnel that is disabled, stopped or deleted loses its agent.
InactiveDisconnects ==
    \A t \in Tunnels : row[t] # "active" ~> (row[t] = "active" \/ sess[t] = None)

\* A DELETE lets visitors back in or has removed the row, in finite time, though
\* a request that registered behind its kill waits for a stalled visitor; and
\* one that a kill has reached leaves, whatever it still has to flush and to
\* close on its way out (PrepareDelete, proxyRequest).
DeleteEnds ==
    /\ \A h \in Handlers : handler[h].step = "removing" ~> handler[h].step = "idle"
    /\ \A r \in Requests : req[r].cancelled ~> ~req[r].cancelled

\* The shutdown drain completes although agents, visitors and handlers are
\* anywhere in their work when it begins.
ShutdownCompletes == life = "stopping" ~> (life = "done" \/ life = "run")
=============================================================================
