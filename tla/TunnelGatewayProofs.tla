------------------------- MODULE TunnelGatewayProofs -------------------------
(***************************************************************************)
(* Theorems about TunnelGateway for any number of tunnels, agents, visitor *)
(* requests and handlers, and any limits.                                  *)
(***************************************************************************)
EXTENDS TunnelGateway, TLAPS

\* Whatever is in use names a tunnel, and what a PATCH is about to write is a
\* status the row may have.
Named ==
    /\ \A c \in Agents : agent[c].step # "idle" => agent[c].tunnel \in Tunnels
    /\ \A r \in Requests : /\ req[r].step # "idle" => req[r].tunnel \in Tunnels
                           /\ req[r].step = "opening" => req[r].stream \in Agents
    /\ \A h \in Handlers :
          /\ handler[h].step # "idle" => handler[h].tunnel \in Tunnels
          /\ handler[h].step = "loaded" => handler[h].status # "gone"
          /\ handler[h].step = "loaded" /\ "keep" \notin StatusFields =>
                handler[h].status \in {"active", "disabled"} /\ handler[h].status = handler[h].field

\* The registry holds attached sessions only, and a session between the two
\* halves of its Attach is the one that holds admissionMu.
Registered ==
    /\ \A t \in Tunnels : sess[t] # None => agent[sess[t]].step = "attached"
    /\ \A c \in Agents : agent[c].step = "validated" => attaching = c

\* The steps of a request at which it may run a Kill.
KillingSteps == {"streaming", "failed", "ended", "flushed"}

\* A goroutine that does not kill has no victims left, and one that cannot be
\* killing does not.
OneKillEach ==
    /\ \A x \in Threads : Running(x) => kill[x] = NoKill
    /\ \A r \in Requests : req[r].step \notin KillingSteps => Running(r)
    /\ \A h \in Handlers : handler[h].step \in {"loaded", "committed"} => Running(h)
    /\ life \in {"run", "stopping", "waiting", "draining"} => Running(Stopper)

\* What every other invariant of the gateway rests on.
GatewayInv == TypeOK /\ Named /\ Registered /\ OneKillEach

\* A DELETE that waits or has waited for its tunnel has the tunnel to itself:
\* no session is there or will be, and once drained no request and no bytes.
DeletesAlone ==
    \A h \in Handlers : handler[h].step \in {"removing", "drained", "releasing"} =>
        /\ \A c \in Agents : agent[c].step = "validated" => agent[c].tunnel # handler[h].tunnel
        /\ \/ sess[handler[h].tunnel] = None
           \/ /\ handler[h].step = "removing"
              /\ kill[h].step \in {"cancel", "unmap"} /\ handler[h].tunnel \in kill[h].batch
        /\ handler[h].step = "drained" =>
              /\ Admitted(handler[h].tunnel) = {}
              /\ handler[h].tunnel \notin dirty \cup cached

\* A row may lose its status under a session without a Kill only if a device is
\* deleted, or if a PATCH writes back a status it read before others changed it.
Slipped(t) ==
    \/ DeviceDeletes /\ row[t] = "gone"
    \/ "keep" \in StatusFields /\ row[t] = "quota_exceeded"

\* Some goroutine has yet to take t's session out, and has not begun to: what a
\* session that is about to be registered needs.
KillAhead(t) ==
    \/ \E x \in Threads : t \in kill[x].rest
    \/ \E x \in Threads : t \in kill[x].batch /\ kill[x].step = "cancel"
    \/ \E h \in Handlers : /\ handler[h].step \in {"committed", "called"}
                          /\ handler[h].tunnel = t /\ handler[h].status = "disabled"

SessionsAccounted ==
    /\ \A t \in Tunnels : sess[t] # None /\ row[t] # "active" => KillComing(t) \/ Slipped(t)
    /\ \A c \in Agents : agent[c].step = "validated" /\ row[agent[c].tunnel] # "active" =>
          KillAhead(agent[c].tunnel) \/ Slipped(agent[c].tunnel)

\* From the drain on nothing is left that could start anything.
DrainQuiet ==
    /\ life \in {"waiting", "draining", "done"} =>
          \A c \in Agents : agent[c].step \notin {"attached", "replaced"}
    /\ life \in {"draining", "done"} =>
          /\ \A c \in Agents : agent[c].step = "idle"
          /\ \A r \in Requests : req[r].step = "idle"
          /\ \A h \in Handlers : handler[h].step = "idle" /\ Running(h)
    /\ life = "done" => Running(Worker) /\ (dirty = {} \/ failure)

-----------------------------------------------------------------------------
(* Kills and flushes                                                       *)

\* A Kill that begins: nothing has been taken out of the registry yet.
Fresh(next) ==
    /\ next \in Kill /\ next.victims = {} /\ next.step \in {"none", "cancel"}
    /\ next.step = "none" => next = NoKill

\* CloseSessions begins with every tunnel.
LEMMA KillAllIs == Fresh(KillAll) /\ KillAll.batch = Tunnels /\ KillAll.step = "cancel"
BY DEF Fresh, KillAll, NoKill, Kill

LEMMA NoKillIs == Fresh(NoKill) /\ NoKill.step = "none"
BY DEF Fresh, NoKill, Kill

\* A list of tunnels is killed from its beginning, and none is left out.
LEMMA KillEachIs ==
  ASSUME NEW S, S \subseteq Tunnels, NEW next \in KillEach(S)
  PROVE  /\ Fresh(next)
         /\ \A t \in S : next.step = "cancel" /\ t \in next.batch \cup next.rest
<1>1. CASE S = {}
  BY <1>1, NoKillIs DEF KillEach
<1>2. CASE S # {}
  <2>1. PICK t \in S : next = [NoKill EXCEPT !.step = "cancel", !.batch = {t}, !.rest = S \ {t}]
    BY <1>2 DEF KillEach
  <2> QED BY <2>1 DEF Fresh, NoKill, Kill
<1> QED BY <1>1, <1>2

\* A flush by x: it only stops active rows, and kills what it stops.
LEMMA FlushIs ==
  ASSUME TypeOK, NEW x \in Threads, NEW STATE d, d \subseteq Tunnels, NEW STATE s, s \subseteq d,
         NEW ACTION active, NEW STATE spent, Flush(x, d, s, active, spent)
  PROVE  /\ row' \in [Tunnels -> Statuses]
         /\ cached' \subseteq cached
         /\ dirty' \subseteq d /\ stops' \subseteq dirty'
         /\ failure' \in BOOLEAN /\ (failure => failure')
         /\ ~failure' => cached' = cached \cap active
         /\ dirty' = {} \/ failure'
         /\ \E next : /\ Fresh(next) /\ kill' = [kill EXCEPT ![x] = next]
                      /\ \A t \in Tunnels : row'[t] # row[t] =>
                            /\ row[t] = "active" /\ row'[t] = "quota_exceeded"
                            /\ next.step = "cancel" /\ t \in next.batch \cup next.rest
<1> USE DEF TypeOK
<1>1. CASE /\ d = {} /\ cached' = cached \cap active
           /\ kill' = [kill EXCEPT ![x] = IF failure \/ spent THEN KillAll ELSE NoKill]
           /\ dirty' = {} /\ stops' = s /\ UNCHANGED <<row, failure>>
  BY <1>1, KillAllIs, NoKillIs
<1>2. CASE /\ row' = [t \in Tunnels |->
                  IF t \in s /\ row[t] = "active" THEN "quota_exceeded" ELSE row[t]]
           /\ cached' = cached \cap active
           /\ \E next \in IF failure \/ spent THEN {KillAll} ELSE KillEach(s) :
                  kill' = [kill EXCEPT ![x] = next]
           /\ dirty' = {} /\ stops' = {} /\ UNCHANGED failure
  <2>1. PICK next \in IF failure \/ spent THEN {KillAll} ELSE KillEach(s) :
            kill' = [kill EXCEPT ![x] = next]
    BY <1>2
  <2>2. Fresh(next) /\ \A t \in s : next.step = "cancel" /\ t \in next.batch \cup next.rest
    BY <2>1, KillAllIs, KillEachIs
  <2>3. \A t \in Tunnels : row'[t] # row[t] =>
            row[t] = "active" /\ row'[t] = "quota_exceeded" /\ t \in s
    BY <1>2
  <2>4. row' \in [Tunnels -> Statuses]
    BY <1>2 DEF Statuses
  <2> QED BY <1>2, <2>1, <2>2, <2>3, <2>4
<1>3. CASE /\ failure' = TRUE /\ kill' = [kill EXCEPT ![x] = KillAll]
           /\ dirty' = d /\ stops' = s /\ UNCHANGED <<row, cached>>
  BY <1>3, KillAllIs
<1> QED BY <1>1, <1>2, <1>3 DEF Flush

-----------------------------------------------------------------------------
(* GatewayInv: the types, the registry, one Kill per goroutine             *)

LEMMA InitGateway == Init => GatewayInv
<1> SUFFICES ASSUME Init PROVE GatewayInv
  OBVIOUS
<1> USE DEF Init
<1>1. NoConn \in Conn /\ NoConn.step = "idle" /\ NoConn.tunnel = None
  BY DEF Conn, NoConn
<1>2. NoRequest \in Request /\ NoRequest.step = "idle" /\ NoRequest.tunnel = None
  BY DEF Request, NoRequest, RequestSteps
<1>3. NoHandler \in Handler /\ NoHandler.step = "idle" /\ NoHandler.tunnel = None
  BY DEF Handler, NoHandler, Statuses
<1>4. NoKill \in Kill /\ NoKill.step = "none"
  BY DEF Kill, NoKill
<1>5. TypeOK
  BY <1>1, <1>2, <1>3, <1>4 DEF TypeOK, Statuses
<1>6. Named /\ Registered /\ OneKillEach
  BY <1>1, <1>2, <1>3, <1>4 DEF Named, Registered, OneKillEach, Running, Threads
<1> QED BY <1>5, <1>6 DEF GatewayInv

\* A step of one request, to q.
LEMMA RequestFrame ==
  ASSUME GatewayInv, NEW r \in Requests, OnlyRequest,
         NEW q \in Request, req' = [req EXCEPT ![r] = q],
         q.step # "idle" => q.tunnel \in Tunnels,
         q.step = "opening" => q.stream \in Agents,
         q.step \notin KillingSteps => Running(r)
  PROVE  GatewayInv'
<1> USE DEF GatewayInv, OnlyRequest, meterVars
<1>1. TypeOK'
  BY DEF TypeOK
<1>2. Named'
  BY DEF Named, TypeOK
<1>3. Registered'
  BY DEF Registered
<1>4. OneKillEach'
  BY DEF OneKillEach, TypeOK, Running
<1> QED BY <1>1, <1>2, <1>3, <1>4

\* The request r moved to another step, and with another stream.
LEMMA Moved ==
  ASSUME TypeOK, NEW r \in Requests
  PROVE  /\ req[r] \in Request
         /\ \A step \in RequestSteps :
              LET q == [req[r] EXCEPT !.step = step]
              IN  q \in Request /\ q.step = step /\ q.tunnel = req[r].tunnel /\ q.stream = req[r].stream
         /\ \A step \in RequestSteps, c \in Agents \cup {None} :
              LET q == [req[r] EXCEPT !.step = step, !.stream = c]
              IN  q \in Request /\ q.step = step /\ q.tunnel = req[r].tunnel /\ q.stream = c
         /\ LET q == [req[r] EXCEPT !.cancelled = TRUE]
            IN  q \in Request /\ q.step = req[r].step /\ q.tunnel = req[r].tunnel
                /\ q.stream = req[r].stream
         /\ NoRequest \in Request /\ NoRequest.step = "idle"
BY DEF TypeOK, Request, NoRequest, RequestSteps

\* The steps of a request that involve nothing but itself.
LEMMA RequestsAlone ==
  ASSUME GatewayInv, NEW r \in Requests,
         \/ \E t \in Tunnels : Arrive(r, t)
         \/ FindSession(r) \/ Admit(r) \/ TakeGlobalSlot(r) \/ RegisterJob(r) \/ PickSession(r)
         \/ OpenStream(r) \/ End(r) \/ VisitorLeaves(r) \/ UnregisterJob(r) \/ Release(r)
  PROVE  GatewayInv'
<1> USE DEF GatewayInv
<1>0. TypeOK /\ req[r] \in Request
  BY DEF TypeOK
<1>1. ASSUME NEW t \in Tunnels, Arrive(r, t) PROVE GatewayInv'
  <2> DEFINE q == [NoRequest EXCEPT !.step = "routed", !.tunnel = t]
  <2>1. q \in Request /\ q.step = "routed" /\ q.tunnel = t
    BY DEF NoRequest, Request, RequestSteps
  <2>2. req' = [req EXCEPT ![r] = q] /\ OnlyRequest /\ Running(r)
    BY <1>1 DEF Arrive, OneKillEach, KillingSteps
  <2> HIDE DEF q
  <2> QED BY <2>1, <2>2, RequestFrame
<1>2. CASE req' = [req EXCEPT ![r] = NoRequest] /\ OnlyRequest /\ Running(r)
  BY <1>2, Moved, RequestFrame
<1>3. ASSUME NEW step \in RequestSteps, step \notin {"idle", "opening"},
             req' = [req EXCEPT ![r].step = step], OnlyRequest,
             req[r].step # "idle", step \notin KillingSteps => Running(r)
      PROVE  GatewayInv'
  <2> DEFINE q == [req[r] EXCEPT !.step = step]
  <2>1. q \in Request /\ q.step = step /\ q.tunnel = req[r].tunnel
    BY Moved
  <2>2. req' = [req EXCEPT ![r] = q] /\ q.tunnel \in Tunnels
    BY <1>3, <2>1 DEF Named
  <2> HIDE DEF q
  <2> QED BY <1>3, <2>1, <2>2, RequestFrame
<1>4. ASSUME NEW step \in RequestSteps, NEW c \in Agents \cup {None},
             step # "idle", step = "opening" => c \in Agents,
             req' = [req EXCEPT ![r].step = step, ![r].stream = c], OnlyRequest,
             req[r].step # "idle", step \notin KillingSteps => Running(r)
      PROVE  GatewayInv'
  <2> DEFINE q == [req[r] EXCEPT !.step = step, !.stream = c]
  <2>1. q \in Request /\ q.step = step /\ q.tunnel = req[r].tunnel /\ q.stream = c
    BY <1>0, <1>4 DEF Request
  <2>2. req' = [req EXCEPT ![r] = q] /\ q.tunnel \in Tunnels
    BY <1>0, <1>4, <2>1 DEF Named
  <2> HIDE DEF q
  <2> QED BY <1>4, <2>1, <2>2, RequestFrame
<1>5. CASE FindSession(r) \/ Admit(r) \/ Release(r)
  <2>1. Running(r)
    BY <1>5 DEF FindSession, Admit, Release, OneKillEach, KillingSteps
  <2> QED BY <1>2, <1>3, <1>5, <2>1 DEF FindSession, Admit, Release, Leave, Goto, RequestSteps
<1>6. CASE TakeGlobalSlot(r) \/ RegisterJob(r)
  <2>1. Running(r)
    BY <1>6 DEF TakeGlobalSlot, RegisterJob, OneKillEach, KillingSteps
  <2> QED BY <1>3, <1>6, <2>1 DEF TakeGlobalSlot, RegisterJob, Goto, RequestSteps
<1>7. CASE PickSession(r)
  <2>1. sess[req[r].tunnel] \in Agents \cup {None}
    BY <1>7 DEF PickSession, Named, TypeOK
  <2> QED BY <1>4, <1>7, <2>1 DEF PickSession, RequestSteps
<1>8. CASE OpenStream(r)
  BY <1>3, <1>4, <1>8 DEF OpenStream, Goto, RequestSteps, KillingSteps
<1>9. CASE End(r)
  BY <1>3, <1>9 DEF End, Goto, RequestSteps
<1>10. CASE VisitorLeaves(r)
  <2> DEFINE q == [req[r] EXCEPT !.cancelled = TRUE]
  <2>1. q \in Request /\ q.step = req[r].step /\ q.tunnel = req[r].tunnel /\ q.stream = req[r].stream
    BY Moved
  <2>2. req' = [req EXCEPT ![r] = q] /\ OnlyRequest /\ req[r].step # "idle"
    BY <1>10 DEF VisitorLeaves
  <2> HIDE DEF q
  <2> QED BY <2>1, <2>2, RequestFrame DEF Named, OneKillEach
<1>11. CASE UnregisterJob(r)
  BY <1>4, <1>11 DEF UnregisterJob, RequestSteps
<1> QED BY <1>1, <1>5, <1>6, <1>7, <1>8, <1>9, <1>10, <1>11


\* The thread x begins or ends a Kill, whatever else it does.
LEMMA ThreadFrame ==
  ASSUME GatewayInv, NEW x \in Threads, NEW next, Fresh(next), kill' = [kill EXCEPT ![x] = next],
         row' \in [Tunnels -> Statuses], failure' \in BOOLEAN,
         cached' \subseteq Tunnels, dirty' \subseteq Tunnels, stops' \subseteq dirty',
         UNCHANGED <<sess, agent, attaching>>,
         req' \in [Requests -> Request], handler' \in [Handlers -> Handler], Named',
         life' \in {"run", "stopping", "closing", "waiting", "draining", "done"},
         \A r \in Requests : req'[r].step \notin KillingSteps =>
            r # x /\ req[r].step \notin KillingSteps,
         \A h \in Handlers : handler'[h].step \in {"loaded", "committed"} =>
            h # x /\ handler[h].step \in {"loaded", "committed"},
         life' \in {"run", "stopping", "waiting", "draining"} =>
            x # Stopper /\ life \in {"run", "stopping", "waiting", "draining"}
  PROVE  GatewayInv'
<1> USE DEF GatewayInv
<1>1. TypeOK'
  BY DEF TypeOK, Fresh
<1>2. Registered'
  BY DEF Registered
<1>3. \A y \in Threads : kill'[y] = IF y = x THEN next ELSE kill[y]
  BY DEF TypeOK
<1>4. OneKillEach'
  <2>1. \A y \in Threads : Running(y)' => kill'[y] = NoKill
    BY <1>3 DEF OneKillEach, Running, Fresh
  <2>2. \A y \in Threads \ {x} : Running(y)' <=> Running(y)
    BY <1>3 DEF Running
  <2>3. Requests \subseteq Threads /\ Handlers \subseteq Threads /\ Stopper \in Threads
    BY DEF Threads
  <2> QED BY <2>1, <2>2, <2>3 DEF OneKillEach
<1> QED BY <1>1, <1>2, <1>4

\* Named, where only the step of a request changes, to one past its first.
LEMMA NamedFrame ==
  ASSUME GatewayInv, UNCHANGED <<agent, handler>>, NEW r \in Requests,
         \/ req' = req
         \/ /\ req' = [req EXCEPT ![r].step = "ended"]
            /\ req[r].step # "idle"
         \/ /\ req' = [req EXCEPT ![r].step = "flushed"]
            /\ req[r].step # "idle"
  PROVE  Named' /\ req' \in [Requests -> Request]
BY DEF GatewayInv, Named, TypeOK, Request, RequestSteps

LEMMA FlushTickGateway == ASSUME GatewayInv, FlushTick PROVE GatewayInv'
<1> USE DEF FlushTick, GatewayInv
<1>1. Worker \in Threads /\ Worker \notin Requests \cup Handlers /\ Worker # Stopper
  BY GatewayAssumption DEF Threads
<1>2. dirty \subseteq Tunnels /\ stops \subseteq dirty
  BY DEF TypeOK
<1>3. PICK next : Fresh(next) /\ kill' = [kill EXCEPT ![Worker] = next]
  BY <1>1, <1>2, FlushIs
<1>4. /\ row' \in [Tunnels -> Statuses] /\ failure' \in BOOLEAN
      /\ cached' \subseteq cached /\ dirty' \subseteq dirty /\ stops' \subseteq dirty'
  BY <1>1, <1>2, FlushIs
<1>5. Named'
  BY DEF Named
<1>6. cached' \subseteq Tunnels /\ dirty' \subseteq Tunnels /\ req' \in [Requests -> Request]
      /\ handler' \in [Handlers -> Handler]
      /\ life' \in {"run", "stopping", "closing", "waiting", "draining", "done"}
  BY <1>4 DEF TypeOK
<1> QED BY <1>1, <1>3, <1>4, <1>5, <1>6, ThreadFrame

\* Bytes that pass, or are refused, and the last flush of a request.
LEMMA MoveGateway ==
  ASSUME GatewayInv, NEW r \in Requests, Move(r) \/ MoveRefused(r) \/ CloseMeter(r)
  PROVE  GatewayInv'
<1> USE DEF GatewayInv
<1>1. r \in Threads /\ r \notin Handlers /\ r # Stopper
  BY GatewayAssumption DEF Threads
<1>2. /\ req[r].step \in {"streaming", "failed", "unregistered"} /\ req[r].tunnel \in Tunnels
      /\ Running(r)
  BY DEF Move, MoveRefused, CloseMeter, Named, OneKillEach, KillingSteps
<1>3. /\ UNCHANGED <<sess, agent, attaching, handler, life>>
      /\ \/ req' = req /\ req[r].step # "unregistered"
         \/ req' = [req EXCEPT ![r].step = "ended"]
         \/ req' = [req EXCEPT ![r].step = "flushed"]
  BY DEF Move, MoveRefused, CloseMeter, Goto
<1>4. Named' /\ req' \in [Requests -> Request]
  BY <1>2, <1>3, NamedFrame
<1>5. \A q \in Requests : req'[q].step \notin KillingSteps => q # r /\ req[q].step \notin KillingSteps
  BY <1>2, <1>3 DEF KillingSteps, TypeOK, Request
<1>6. /\ row' \in [Tunnels -> Statuses] /\ failure' \in BOOLEAN
      /\ cached' \subseteq Tunnels /\ dirty' \subseteq Tunnels /\ stops' \subseteq dirty'
      /\ \E next : Fresh(next) /\ kill' = [kill EXCEPT ![r] = next]
  <2>1. kill[r] = NoKill /\ kill = [kill EXCEPT ![r] = NoKill]
    BY <1>1, <1>2 DEF OneKillEach, TypeOK
  <2>2. CASE Move(r)
    <3>1. CASE \E spent \in {FALSE, QuotaStops}, stopping \in {{}, {req[r].tunnel}} :
                  Flush(r, dirty \cup {req[r].tunnel}, stops \cup stopping, ActiveIn(req), spent)
      <4>1. PICK spent \in {FALSE, QuotaStops}, stopping \in {{}, {req[r].tunnel}} :
                  Flush(r, dirty \cup {req[r].tunnel}, stops \cup stopping, ActiveIn(req), spent)
        BY <3>1
      <4> DEFINE d == dirty \cup {req[r].tunnel}
                 s == stops \cup stopping
      <4>2. d \subseteq Tunnels /\ s \subseteq d /\ cached \subseteq Tunnels
        BY <1>2 DEF TypeOK
      <4>3. Flush(r, d, s, ActiveIn(req), spent)
        BY <4>1
      <4> HIDE DEF d, s
      <4> QED BY <1>1, <4>2, <4>3, FlushIs
    <3>2. CASE /\ cached' = cached \cup {req[r].tunnel} /\ dirty' = dirty \cup {req[r].tunnel}
               /\ UNCHANGED <<row, stops, failure, kill>>
      BY <1>2, <2>1, <3>2, NoKillIs DEF TypeOK
    <3> QED BY <2>2, <3>1, <3>2 DEF Move
  <2>3. CASE MoveRefused(r)
    <3>1. kill' = [kill EXCEPT ![r] = KillAll] \/ kill' = [kill EXCEPT ![r] = NoKill]
      BY <2>1, <2>3 DEF MoveRefused
    <3> QED BY <1>2, <2>3, <3>1, KillAllIs, NoKillIs DEF MoveRefused, TypeOK
  <2>4. CASE CloseMeter(r)
    <3>1. dirty \subseteq Tunnels /\ stops \subseteq dirty /\ cached \subseteq Tunnels
      BY DEF TypeOK
    <3> QED BY <1>1, <2>4, <3>1, FlushIs DEF CloseMeter
  <2> QED BY <2>2, <2>3, <2>4
<1>7. PICK next : Fresh(next) /\ kill' = [kill EXCEPT ![r] = next]
  BY <1>6
<1>8. handler' \in [Handlers -> Handler]
      /\ life' \in {"run", "stopping", "closing", "waiting", "draining", "done"}
  BY <1>3 DEF TypeOK
<1> QED BY <1>1, <1>3, <1>4, <1>5, <1>6, <1>7, <1>8, ThreadFrame

\* A request cancelled while it opens its stream closes the session.
LEMMA OpenInterruptedGateway ==
  ASSUME GatewayInv, NEW r \in Requests, OpenInterrupted(r) PROVE GatewayInv'
<1> USE DEF GatewayInv, OpenInterrupted, meterVars
<1>1. \A c \in Agents : /\ agent'[c] \in Conn /\ agent'[c].step = agent[c].step
                        /\ agent'[c].tunnel = agent[c].tunnel
  BY DEF TypeOK, Conn
<1>2. \A q \in Requests : /\ req'[q] \in Request /\ req'[q].tunnel = req[q].tunnel
                          /\ q # r => req'[q] = req[q]
  BY DEF TypeOK, Request, RequestSteps
<1>3. req[r].step = "opening" /\ req'[r].step = "failed"
  BY DEF TypeOK, Request
<1>4. TypeOK'
  <2>1. agent' \in [Agents -> Conn] /\ req' \in [Requests -> Request]
    BY <1>1, <1>2 DEF TypeOK
  <2>2. \A t \in Tunnels : sess[t] # None => agent'[sess[t]].tunnel = t
    BY <1>1 DEF TypeOK
  <2> QED BY <2>1, <2>2 DEF TypeOK
<1>5. Named'
  BY <1>1, <1>2, <1>3 DEF Named
<1>6. Registered'
  BY <1>1 DEF Registered, TypeOK
<1>7. OneKillEach'
  BY <1>2, <1>3 DEF OneKillEach, Running, KillingSteps
<1> QED BY <1>4, <1>5, <1>6, <1>7

\* What a connection's own steps leave alone.
OnlyAgent == UNCHANGED <<row, meterVars, req, handler, kill, life>>

\* A step of one connection, to a.
LEMMA AgentFrame ==
  ASSUME GatewayInv, NEW c \in Agents, OnlyAgent, NEW a \in Conn, agent' = [agent EXCEPT ![c] = a],
         a.step # "idle" => a.tunnel \in Tunnels,
         sess' \in [Tunnels -> Agents \cup {None}], attaching' \in Agents \cup {None},
         \A t \in Tunnels : sess'[t] \in {None, sess[t]},
         \A t \in Tunnels : sess'[t] = c => a.tunnel = t /\ a.step = "attached",
         a.step = "validated" => attaching' = c,
         attaching' = attaching \/ agent[c].step = "validated" \/ attaching = None
  PROVE  GatewayInv'
<1> USE DEF GatewayInv, OnlyAgent, meterVars
<1>1. \A b \in Agents : agent'[b] = IF b = c THEN a ELSE agent[b]
  BY DEF TypeOK
<1>2. None \notin Agents
  BY GatewayAssumption
<1>3. TypeOK'
  <2>1. agent' \in [Agents -> Conn]
    BY DEF TypeOK
  <2>2. \A t \in Tunnels : sess'[t] # None => agent'[sess'[t]].tunnel = t
    BY <1>1, <1>2 DEF TypeOK
  <2> QED BY <2>1, <2>2 DEF TypeOK
<1>4. Named'
  BY <1>1 DEF Named
<1>5. Registered'
  BY <1>1, <1>2 DEF Registered, TypeOK
<1>6. OneKillEach'
  BY DEF OneKillEach, Running
<1> QED BY <1>3, <1>4, <1>5, <1>6

LEMMA ConnIs ==
  ASSUME GatewayInv, NEW c \in Agents
  PROVE  /\ agent[c] \in Conn
         /\ \A step \in {"validated", "attached", "replaced"} :
              LET a == [agent[c] EXCEPT !.step = step]
              IN  a \in Conn /\ a.step = step /\ a.tunnel = agent[c].tunnel /\ a.open = agent[c].open
         /\ LET a == [agent[c] EXCEPT !.open = FALSE]
            IN  a \in Conn /\ a.step = agent[c].step /\ a.tunnel = agent[c].tunnel /\ ~a.open
<1>1. agent[c] \in Conn
  BY DEF GatewayInv, TypeOK
<1> QED BY <1>1 DEF Conn

LEMMA NoConnIs == NoConn \in Conn /\ NoConn.step = "idle" /\ NoConn.tunnel = None
BY DEF NoConn, Conn

\* Connections, but for the registration of a session.
LEMMA AgentsGateway ==
  ASSUME GatewayInv, NEW c \in Agents,
         \/ \E t \in Tunnels : Connect(c, t)
         \/ AttachValidates(c) \/ AttachRefused(c) \/ AttachRejected(c)
         \/ CloseReplaced(c) \/ SessionLost(c) \/ Watch(c)
  PROVE  GatewayInv'
<1> USE DEF OnlyAgent
<1>0. /\ agent[c] \in Conn /\ sess \in [Tunnels -> Agents \cup {None}]
      /\ attaching \in Agents \cup {None}
      /\ agent[c].step # "idle" => agent[c].tunnel \in Tunnels
      /\ \A t \in Tunnels : sess[t] = c => agent[c].tunnel = t /\ agent[c].step = "attached"
      /\ agent[c].step = "validated" => attaching = c
      /\ c # None
  BY GatewayAssumption DEF GatewayInv, TypeOK, Named, Registered
<1>1. ASSUME NEW t \in Tunnels, Connect(c, t) PROVE GatewayInv'
  <2> DEFINE a == [step |-> "handshake", tunnel |-> t, open |-> TRUE]
  <2>1. a \in Conn /\ a.step = "handshake" /\ a.tunnel = t
    BY DEF Conn
  <2>2. agent' = [agent EXCEPT ![c] = a] /\ OnlyAgent /\ UNCHANGED <<sess, attaching>>
        /\ agent[c].step = "idle"
    BY <1>1 DEF Connect
  <2> HIDE DEF a
  <2> QED BY <1>0, <2>1, <2>2, AgentFrame
<1>2. CASE AttachValidates(c)
  <2> DEFINE a == [agent[c] EXCEPT !.step = "validated"]
  <2>1. a \in Conn /\ a.step = "validated" /\ a.tunnel = agent[c].tunnel
    BY ConnIs
  <2>2. agent' = [agent EXCEPT ![c] = a] /\ OnlyAgent /\ attaching' = c /\ sess' = sess
        /\ agent[c].step = "handshake" /\ attaching = None
    BY <1>2 DEF AttachValidates, AdmissionFree
  <2> HIDE DEF a
  <2> QED BY <1>0, <2>1, <2>2, AgentFrame
<1>3. CASE AttachRefused(c)
  <2>1. agent' = [agent EXCEPT ![c] = NoConn] /\ OnlyAgent /\ UNCHANGED <<sess, attaching>>
        /\ agent[c].step = "handshake"
    BY <1>3 DEF AttachRefused
  <2> QED BY <1>0, <2>1, NoConnIs, AgentFrame
<1>4. CASE AttachRejected(c)
  <2>1. agent' = [agent EXCEPT ![c] = NoConn] /\ OnlyAgent /\ attaching' = None /\ sess' = sess
        /\ agent[c].step = "validated"
    BY <1>4 DEF AttachRejected
  <2> QED BY <1>0, <2>1, NoConnIs, AgentFrame
<1>5. CASE CloseReplaced(c) \/ SessionLost(c)
  <2> DEFINE a == [agent[c] EXCEPT !.open = FALSE]
  <2>1. a \in Conn /\ a.step = agent[c].step /\ a.tunnel = agent[c].tunnel
    BY ConnIs
  <2>2. agent' = [agent EXCEPT ![c] = a] /\ OnlyAgent /\ UNCHANGED <<sess, attaching>>
    BY <1>5 DEF CloseReplaced, SessionLost
  <2> HIDE DEF a
  <2>3. sess' = sess /\ attaching' = attaching /\ OnlyAgent
    BY <2>2
  <2>4. a.step # "idle" => a.tunnel \in Tunnels
    BY <1>0, <2>1
  <2>5. \A t \in Tunnels : sess'[t] = c => a.tunnel = t /\ a.step = "attached"
    BY <1>0, <2>1, <2>3
  <2>6. a.step = "validated" => attaching' = c
    BY <1>0, <2>1, <2>3
  <2>7. \A t \in Tunnels : sess'[t] \in {None, sess[t]}
    BY <2>3
  <2>8. sess' \in [Tunnels -> Agents \cup {None}] /\ attaching' \in Agents \cup {None}
    BY <1>0, <2>3
  <2>9. a \in Conn /\ agent' = [agent EXCEPT ![c] = a]
    BY <2>1, <2>2
  <2> QED BY <2>3, <2>4, <2>5, <2>6, <2>7, <2>8, <2>9, AgentFrame
<1>6. CASE Watch(c)
  <2>1. /\ agent' = [agent EXCEPT ![c] = NoConn] /\ OnlyAgent /\ attaching' = attaching
        /\ sess' = [t \in Tunnels |-> IF t = agent[c].tunnel /\ sess[t] = c THEN None ELSE sess[t]]
    BY <1>6 DEF Watch
  <2>2. /\ sess' \in [Tunnels -> Agents \cup {None}]
        /\ \A t \in Tunnels : sess'[t] \in {None, sess[t]} /\ sess'[t] # c
    BY <1>0, <2>1
  <2> QED BY <1>0, <2>1, <2>2, NoConnIs, AgentFrame
<1> QED BY <1>1, <1>2, <1>3, <1>4, <1>5, <1>6

\* The registration: the session it replaces is no longer the registry's.
LEMMA RegisterGateway ==
  ASSUME GatewayInv, NEW c \in Agents, AttachRegisters(c) PROVE GatewayInv'
<1> USE DEF GatewayInv, meterVars
<1> DEFINE t == agent[c].tunnel
           old == sess[t]
<1>1. t \in Tunnels /\ agent[c].step = "validated" /\ None \notin Agents /\ old # c
  BY GatewayAssumption DEF AttachRegisters, Named, Registered
<1>2. /\ sess' = [sess EXCEPT ![t] = c] /\ attaching' = None
      /\ UNCHANGED <<row, meterVars, req, handler, kill, life>>
  BY DEF AttachRegisters
<1>3. \A b \in Agents :
        /\ agent'[b] \in Conn /\ agent'[b].tunnel = agent[b].tunnel
        /\ agent'[b].step = IF b = c THEN "attached" ELSE IF b = old THEN "replaced" ELSE agent[b].step
  <2>1. SUFFICES ASSUME NEW b \in Agents
                 PROVE  /\ agent'[b] \in Conn /\ agent'[b].tunnel = agent[b].tunnel
                        /\ agent'[b].step = IF b = c THEN "attached"
                                            ELSE IF b = old THEN "replaced" ELSE agent[b].step
    OBVIOUS
  <2>2. agent'[b] = IF b = c THEN [agent[b] EXCEPT !.step = "attached"]
                    ELSE IF b = old THEN [agent[b] EXCEPT !.step = "replaced"] ELSE agent[b]
    BY DEF AttachRegisters
  <2> QED BY <2>2, ConnIs
<1>4. agent' \in [Agents -> Conn]
  BY <1>3 DEF AttachRegisters
<1> HIDE DEF old, t
<1>5. \A u \in Tunnels : sess'[u] = IF u = t THEN c ELSE sess[u]
  BY <1>1, <1>2 DEF TypeOK
<1>6. \A u \in Tunnels : u # t => sess[u] # old \/ sess[u] = None
  BY <1>1 DEF old, TypeOK
<1>7. TypeOK'
  <2>1. sess' \in [Tunnels -> Agents \cup {None}]
    BY <1>1, <1>2 DEF TypeOK
  <2>2. \A u \in Tunnels : sess'[u] # None => agent'[sess'[u]].tunnel = u
    BY <1>1, <1>3, <1>5 DEF TypeOK, t
  <2> QED BY <1>2, <1>4, <2>1, <2>2 DEF TypeOK
<1>8. Named'
  <2>1. \A b \in Agents : agent'[b].step # "idle" => agent'[b].tunnel \in Tunnels
    <3>1. old = None \/ agent[old].step = "attached"
      BY <1>1 DEF Registered, old
    <3> QED BY <1>1, <1>3, <3>1 DEF Named
  <2> QED BY <1>2, <2>1 DEF Named
<1>9. Registered'
  <2>1. \A u \in Tunnels : sess[u] # None => sess[u] \in Agents /\ agent[sess[u]].step = "attached"
    BY DEF Registered, TypeOK
  <2>2. \A u \in Tunnels : sess'[u] # None => agent'[sess'[u]].step = "attached"
    BY <1>1, <1>3, <1>5, <1>6, <2>1
  <2>3. \A b \in Agents : agent'[b].step # "validated"
    BY <1>1, <1>3 DEF Registered
  <2> QED BY <2>2, <2>3 DEF Registered
<1>10. OneKillEach'
  BY <1>2 DEF OneKillEach, Running
<1> QED BY <1>7, <1>8, <1>9, <1>10

\* The steps of a Kill.
LEMMA KillGateway ==
  ASSUME GatewayInv, NEW x \in Threads, KillNext(x) PROVE GatewayInv'
<1> USE DEF GatewayInv, meterVars
<1>0. /\ kill[x] \in Kill /\ kill[x].batch \subseteq Tunnels /\ kill[x].rest \subseteq Tunnels
      /\ kill[x].step # "none" /\ None \notin Agents
      /\ x = Stopper => life \notin {"run", "stopping", "waiting", "draining"}
      /\ \A r \in Requests : x = r => req[r].step \in KillingSteps
      /\ \A h \in Handlers : x = h => handler[h].step \notin {"loaded", "committed"}
  BY GatewayAssumption DEF TypeOK, Kill, KillNext, KillCancels, KillUnmaps, KillCloses, OneKillEach, Running
<1>1. ASSUME NEW next, next \in Kill, kill' = [kill EXCEPT ![x] = next],
             next.step = "none" => next = NoKill, UNCHANGED <<handler, life>>,
             \A r \in Requests : req'[r].step = req[r].step
      PROVE  OneKillEach' /\ kill' \in [Threads -> Kill]
  <2>1. \A y \in Threads : kill'[y] = IF y = x THEN next ELSE kill[y]
    BY <1>1 DEF TypeOK
  <2>2. Requests \subseteq Threads /\ Handlers \subseteq Threads /\ Stopper \in Threads
    BY DEF Threads
  <2> QED BY <1>0, <1>1, <2>1, <2>2 DEF OneKillEach, Running, TypeOK
<1>2. CASE KillCancels(x)
  <2> DEFINE next == [kill[x] EXCEPT !.step = "unmap"]
  <2>1. next \in Kill /\ next.step = "unmap" /\ kill' = [kill EXCEPT ![x] = next]
    BY <1>0, <1>2 DEF KillCancels, Kill
  <2>2. \A r \in Requests : /\ req'[r] \in Request /\ req'[r].step = req[r].step
                            /\ req'[r].tunnel = req[r].tunnel /\ req'[r].stream = req[r].stream
    <3>1. SUFFICES ASSUME NEW r \in Requests
                   PROVE  /\ req'[r] \in Request /\ req'[r].step = req[r].step
                          /\ req'[r].tunnel = req[r].tunnel /\ req'[r].stream = req[r].stream
      OBVIOUS
    <3>2. req'[r] = req[r] \/ req'[r] = [req[r] EXCEPT !.cancelled = TRUE]
      BY <1>2 DEF KillCancels
    <3> QED BY <3>2, Moved
  <2>3. UNCHANGED <<row, meterVars, sess, agent, attaching, handler, life>>
        /\ req' \in [Requests -> Request]
    BY <1>2, <2>2 DEF KillCancels
  <2> HIDE DEF next
  <2>4. OneKillEach' /\ kill' \in [Threads -> Kill]
    BY <1>1, <2>1, <2>2, <2>3
  <2>5. TypeOK'
    BY <2>3, <2>4 DEF TypeOK
  <2>6. Named' /\ Registered'
    BY <2>2, <2>3 DEF Named, Registered
  <2> QED BY <2>4, <2>5, <2>6
<1>3. CASE KillUnmaps(x)
  <2> DEFINE gone == {sess[t] : t \in kill[x].batch} \ {None}
             next == [kill[x] EXCEPT !.step = "close", !.victims = gone]
  <2>1. gone \subseteq Agents
    BY <1>0 DEF TypeOK
  <2>2. next \in Kill /\ next.step = "close"
    BY <1>0, <2>1 DEF Kill
  <2>3. /\ kill' = [kill EXCEPT ![x] = next]
        /\ sess' = [t \in Tunnels |-> IF t \in kill[x].batch THEN None ELSE sess[t]]
        /\ UNCHANGED <<row, meterVars, agent, attaching, req, handler, life>>
    BY <1>3 DEF KillUnmaps
  <2> HIDE DEF next
  <2>4. OneKillEach' /\ kill' \in [Threads -> Kill]
    BY <1>1, <2>2, <2>3
  <2>5. TypeOK'
    BY <2>3, <2>4 DEF TypeOK
  <2>6. Named' /\ Registered'
    BY <2>3 DEF Named, Registered
  <2> QED BY <2>4, <2>5, <2>6
<1>4. CASE KillCloses(x)
  <2>1. PICK next \in KillEach(kill[x].rest) : kill' = [kill EXCEPT ![x] = next]
    BY <1>4 DEF KillCloses
  <2>2. Fresh(next)
    BY <1>0, <2>1, KillEachIs
  <2>3. /\ agent' = [c \in Agents |->
              IF c \in kill[x].victims THEN [agent[c] EXCEPT !.open = FALSE] ELSE agent[c]]
        /\ UNCHANGED <<row, meterVars, sess, attaching, req, handler, life>>
    BY <1>4 DEF KillCloses
  <2>4. \A c \in Agents : /\ agent'[c] \in Conn /\ agent'[c].step = agent[c].step
                          /\ agent'[c].tunnel = agent[c].tunnel
    BY <2>3, ConnIs
  <2>5. OneKillEach' /\ kill' \in [Threads -> Kill]
    BY <1>1, <2>1, <2>2, <2>3 DEF Fresh
  <2>6. TypeOK'
    <3>1. agent' \in [Agents -> Conn]
      BY <2>3, <2>4
    <3>2. \A t \in Tunnels : sess[t] # None => agent'[sess[t]].tunnel = t
      BY <1>0, <2>4 DEF TypeOK
    <3> QED BY <2>3, <2>5, <3>1, <3>2 DEF TypeOK
  <2>7. Named' /\ Registered'
    BY <2>3, <2>4 DEF Named, Registered, TypeOK
  <2> QED BY <2>5, <2>6, <2>7
<1> QED BY <1>2, <1>3, <1>4 DEF KillNext

\* A step of one handler that kills nothing, to d.
LEMMA HandlerFrame ==
  ASSUME GatewayInv, NEW h \in Handlers, OnlyHandler, row' \in [Tunnels -> Statuses],
         NEW d \in Handler, handler' = [handler EXCEPT ![h] = d],
         d.step # "idle" => d.tunnel \in Tunnels,
         d.step = "loaded" => d.status # "gone",
         d.step = "loaded" /\ "keep" \notin StatusFields =>
            d.status \in {"active", "disabled"} /\ d.status = d.field,
         d.step \in {"loaded", "committed"} => Running(h)
  PROVE  GatewayInv'
<1> USE DEF GatewayInv, OnlyHandler, meterVars
<1>1. TypeOK'
  BY DEF TypeOK
<1>2. Named'
  BY DEF Named, TypeOK
<1>3. Registered'
  BY DEF Registered
<1>4. OneKillEach'
  BY DEF OneKillEach, TypeOK, Running
<1> QED BY <1>1, <1>2, <1>3, <1>4

LEMMA HandlerIs ==
  ASSUME GatewayInv, NEW h \in Handlers
  PROVE  /\ handler[h] \in Handler
         /\ \A step \in {"committed", "called", "removing", "drained", "releasing"} :
              LET d == [handler[h] EXCEPT !.step = step]
              IN  /\ d \in Handler /\ d.step = step
                  /\ d.tunnel = handler[h].tunnel /\ d.status = handler[h].status
         /\ NoHandler \in Handler /\ NoHandler.step = "idle"
         /\ \A t \in Tunnels : LET d == [NoHandler EXCEPT !.step = "removing", !.tunnel = t]
                               IN  d \in Handler /\ d.step = "removing" /\ d.tunnel = t
<1>1. handler[h] \in Handler
  BY DEF GatewayInv, TypeOK
<1> QED BY <1>1 DEF Handler, NoHandler, Statuses

LEMMA HandlersAlone ==
  ASSUME GatewayInv, NEW h \in Handlers,
         \/ \E t \in Tunnels, field \in StatusFields : PatchLoad(h, t, field)
         \/ PatchCommit(h) \/ DeleteTimesOut(h) \/ DeleteRow(h) \/ DeleteRelease(h)
  PROVE  GatewayInv'
<1> USE DEF GatewayInv
<1>0. /\ row \in [Tunnels -> Statuses] /\ handler[h] \in Handler
      /\ handler[h].step # "idle" => handler[h].tunnel \in Tunnels
  BY DEF TypeOK, Named
<1>1. ASSUME NEW t \in Tunnels, NEW field \in StatusFields, PatchLoad(h, t, field)
      PROVE  GatewayInv'
  <2> DEFINE st == IF field = "keep" THEN row[t] ELSE field
             d == [step |-> "loaded", tunnel |-> t, field |-> field, status |-> st]
  <2>1. st \in Statuses /\ field \in {"keep", "active", "disabled"}
        /\ (st = "gone" => row[t] = "gone")
        /\ (field # "keep" => st \in {"active", "disabled"} /\ st = field)
    BY <1>0, GatewayAssumption DEF Statuses
  <2> HIDE DEF st
  <2>2. d \in Handler /\ d.step = "loaded" /\ d.tunnel = t /\ d.status = st /\ d.field = field
    BY <2>1 DEF Handler
  <2>3. /\ handler' = [handler EXCEPT ![h] = d] /\ OnlyHandler /\ UNCHANGED row /\ row[t] # "gone"
        /\ Running(h)
    BY <1>1 DEF PatchLoad, st
  <2>4. "keep" \notin StatusFields => field # "keep"
    OBVIOUS
  <2> HIDE DEF d
  <2> QED BY <1>0, <2>1, <2>2, <2>3, <2>4, HandlerFrame
<1>2. ASSUME handler' = [handler EXCEPT ![h] = NoHandler], OnlyHandler, UNCHANGED row
      PROVE  GatewayInv'
  BY <1>0, <1>2, HandlerIs, HandlerFrame
<1>3. CASE PatchCommit(h)
  <2> DEFINE d == [handler[h] EXCEPT !.step = "committed"]
             t == handler[h].tunnel
  <2>1. d \in Handler /\ d.step = "committed" /\ d.tunnel \in Tunnels /\ Running(h)
        /\ handler[h].status \in Statuses
    BY <1>0, <1>3, HandlerIs DEF PatchCommit, OneKillEach, Handler
  <2>2. CASE /\ row' = [row EXCEPT ![t] = IF @ = "gone" THEN @ ELSE handler[h].status]
             /\ handler' = [handler EXCEPT ![h] = d]
    <3>1. row' \in [Tunnels -> Statuses]
      BY <1>0, <2>1, <2>2
    <3> HIDE DEF d
    <3> QED BY <1>3, <2>1, <2>2, <3>1, HandlerFrame DEF PatchCommit
  <2> QED BY <1>2, <1>3, <2>2 DEF PatchCommit
<1>4. CASE DeleteTimesOut(h) \/ DeleteRelease(h)
  BY <1>2, <1>4 DEF DeleteTimesOut, DeleteRelease
<1>5. CASE DeleteRow(h)
  <2> DEFINE d == [handler[h] EXCEPT !.step = "releasing"]
  <2>1. d \in Handler /\ d.step = "releasing" /\ d.tunnel \in Tunnels
    BY <1>0, <1>5, HandlerIs DEF DeleteRow
  <2>2. handler' = [handler EXCEPT ![h] = d] /\ OnlyHandler /\ row' \in [Tunnels -> Statuses]
    BY <1>0, <1>5 DEF DeleteRow, Statuses
  <2> HIDE DEF d
  <2> QED BY <2>1, <2>2, HandlerFrame
<1> QED BY <1>1, <1>3, <1>4, <1>5

\* A step of one handler, to d, that begins or ends a Kill of its own.
LEMMA HandlerThread ==
  ASSUME GatewayInv, NEW h \in Handlers, NEW next, Fresh(next), kill' = [kill EXCEPT ![h] = next],
         NEW d \in Handler, handler' = [handler EXCEPT ![h] = d],
         d.step \notin {"loaded", "committed"}, d.step # "idle" => d.tunnel \in Tunnels,
         row' \in [Tunnels -> Statuses], failure' \in BOOLEAN,
         cached' \subseteq Tunnels, dirty' \subseteq Tunnels, stops' \subseteq dirty',
         UNCHANGED <<sess, agent, attaching, req, life>>
  PROVE  GatewayInv'
<1> USE DEF GatewayInv
<1>1. h \in Threads /\ h \notin Requests /\ h # Stopper
  BY GatewayAssumption DEF Threads
<1>2. \A g \in Handlers : handler'[g] = IF g = h THEN d ELSE handler[g]
  BY DEF TypeOK
<1>3. Named' /\ handler' \in [Handlers -> Handler]
  BY <1>2 DEF Named, TypeOK
<1>4. req' \in [Requests -> Request]
      /\ life' \in {"run", "stopping", "closing", "waiting", "draining", "done"}
  BY DEF TypeOK
<1> QED BY <1>1, <1>2, <1>3, <1>4, ThreadFrame

LEMMA HandlersKill ==
  ASSUME GatewayInv, NEW h \in Handlers,
         \/ PatchCallback(h) \/ PatchForget(h) \/ DeleteDrain(h)
         \/ \E t \in Tunnels : DeleteBegin(h, t)
  PROVE  GatewayInv'
<1> USE DEF GatewayInv
<1>0. /\ row \in [Tunnels -> Statuses] /\ handler[h] \in Handler /\ kill \in [Threads -> Kill]
      /\ handler[h].step # "idle" => handler[h].tunnel \in Tunnels
      /\ failure \in BOOLEAN /\ cached \subseteq Tunnels /\ dirty \subseteq Tunnels
      /\ stops \subseteq dirty /\ h \in Threads
  BY DEF TypeOK, Named, Threads
<1>1. Running(h) => kill = [kill EXCEPT ![h] = NoKill]
  BY <1>0 DEF OneKillEach
<1>2. CASE PatchCallback(h)
  <2> DEFINE d == [handler[h] EXCEPT !.step = "called"]
  <2>1. d \in Handler /\ d.step = "called" /\ d.tunnel \in Tunnels /\ Running(h)
    BY <1>0, <1>2, HandlerIs DEF PatchCallback, OneKillEach
  <2>2. \E next : Fresh(next) /\ kill' = [kill EXCEPT ![h] = next]
    BY <1>1, <1>2, <2>1, KillAllIs, NoKillIs DEF PatchCallback
  <2>3. /\ handler' = [handler EXCEPT ![h] = d] /\ failure' \in BOOLEAN
        /\ UNCHANGED <<row, cached, dirty, stops, sess, agent, attaching, req, life>>
    BY <1>0, <1>2 DEF PatchCallback
  <2> HIDE DEF d
  <2> QED BY <1>0, <2>1, <2>2, <2>3, HandlerThread
<1>3. CASE PatchForget(h)
  <2>1. \E next : Fresh(next) /\ kill' = [kill EXCEPT ![h] = next]
    <3>1. CASE handler[h].status = "disabled"
      <4>1. {handler[h].tunnel} \subseteq Tunnels
        BY <1>0, <1>3 DEF PatchForget
      <4> QED BY <1>3, <3>1, <4>1, KillEachIs DEF PatchForget
    <3>2. CASE handler[h].status # "disabled"
      BY <1>1, <1>3, <3>2, NoKillIs DEF PatchForget
    <3> QED BY <3>1, <3>2
  <2>2. /\ handler' = [handler EXCEPT ![h] = NoHandler]
        /\ UNCHANGED <<row, meterVars, sess, agent, attaching, req, life>>
    BY <1>3 DEF PatchForget
  <2> QED BY <1>0, <2>1, <2>2, HandlerIs, HandlerThread DEF meterVars
<1>4. CASE DeleteDrain(h)
  <2>1. PICK next : Fresh(next) /\ kill' = [kill EXCEPT ![h] = next]
    BY <1>0, <1>4, FlushIs DEF DeleteDrain
  <2>2. /\ row' \in [Tunnels -> Statuses] /\ failure' \in BOOLEAN
        /\ cached' \subseteq cached /\ dirty' \subseteq dirty /\ stops' \subseteq dirty'
    BY <1>0, <1>4, FlushIs DEF DeleteDrain
  <2>3. ASSUME NEW step \in {"releasing", "drained"},
               handler' = [handler EXCEPT ![h] = [handler[h] EXCEPT !.step = step]]
        PROVE  GatewayInv'
    <3> DEFINE d == [handler[h] EXCEPT !.step = step]
    <3>1. d \in Handler /\ d.step = step /\ d.tunnel \in Tunnels
      BY <1>0, <1>4 DEF DeleteDrain, Handler
    <3> HIDE DEF d
    <3> QED BY <1>0, <1>4, <2>1, <2>2, <2>3, <3>1, HandlerThread DEF DeleteDrain, d
  <2> QED BY <1>4, <2>3 DEF DeleteDrain
<1>5. ASSUME NEW t \in Tunnels, DeleteBegin(h, t) PROVE GatewayInv'
  <2> DEFINE d == [NoHandler EXCEPT !.step = "removing", !.tunnel = t]
  <2>1. d \in Handler /\ d.step = "removing" /\ d.tunnel = t
    BY HandlerIs
  <2>2. \E next : Fresh(next) /\ kill' = [kill EXCEPT ![h] = next]
    <3>1. PICK next \in KillEach({t}) : kill' = [kill EXCEPT ![h] = next]
      BY <1>5 DEF DeleteBegin
    <3>2. {t} \subseteq Tunnels
      OBVIOUS
    <3> QED BY <3>1, <3>2, KillEachIs
  <2>3. /\ handler' = [handler EXCEPT ![h] = d]
        /\ UNCHANGED <<row, meterVars, sess, agent, attaching, req, life>>
    BY <1>5 DEF DeleteBegin
  <2> HIDE DEF d
  <2> QED BY <1>0, <2>1, <2>2, <2>3, HandlerThread DEF meterVars
<1> QED BY <1>2, <1>3, <1>4, <1>5

\* Everything the shutdown does, a deleted device, and a failing query.
LEMMA RestGateway ==
  ASSUME GatewayInv,
         \/ \E t \in Tunnels : DeviceDelete(t)
         \/ QueryFails \/ StopNext \/ UNCHANGED vars
  PROVE  GatewayInv'
<1> USE DEF GatewayInv, meterVars
<1>0. /\ Stopper \in Threads /\ Stopper \notin Requests \cup Handlers
      /\ req \in [Requests -> Request] /\ handler \in [Handlers -> Handler]
      /\ row \in [Tunnels -> Statuses]
      /\ failure \in BOOLEAN /\ cached \subseteq Tunnels /\ dirty \subseteq Tunnels /\ stops \subseteq dirty
  BY GatewayAssumption DEF Threads, TypeOK
<1>1. ASSUME row' \in [Tunnels -> Statuses], failure' \in BOOLEAN,
             UNCHANGED <<cached, dirty, stops, sess, agent, attaching, handler, kill>>,
             req' \in [Requests -> Request],
             \A r \in Requests : /\ req'[r].step = req[r].step /\ req'[r].tunnel = req[r].tunnel
                                 /\ req'[r].stream = req[r].stream,
             life' \in {"run", "stopping", "closing", "waiting", "draining", "done"},
             life' \in {"run", "stopping", "waiting", "draining"} => Running(Stopper)
      PROVE  GatewayInv'
  <2>1. TypeOK'
    BY <1>1 DEF TypeOK
  <2>2. Named' /\ Registered' /\ OneKillEach'
    BY <1>1 DEF Named, Registered, OneKillEach, Running
  <2> QED BY <2>1, <2>2
<1>2. life \in {"run", "stopping", "waiting", "draining"} => Running(Stopper)
  BY DEF OneKillEach
<1>3. CASE \E t \in Tunnels : DeviceDelete(t)
  <2>1. row' \in [Tunnels -> Statuses]
    BY <1>0, <1>3 DEF DeviceDelete, Statuses
  <2> QED BY <1>0, <1>1, <1>2, <1>3, <2>1 DEF DeviceDelete, TypeOK
<1>4. CASE QueryFails
  BY <1>0, <1>1, <1>2, <1>4 DEF QueryFails, TypeOK
<1>5. CASE StopAdmission
  <2>1. \A r \in Requests : /\ req'[r] \in Request /\ req'[r].step = req[r].step
                            /\ req'[r].tunnel = req[r].tunnel /\ req'[r].stream = req[r].stream
    <3>1. SUFFICES ASSUME NEW r \in Requests
                   PROVE  /\ req'[r] \in Request /\ req'[r].step = req[r].step
                          /\ req'[r].tunnel = req[r].tunnel /\ req'[r].stream = req[r].stream
      OBVIOUS
    <3>2. req'[r] = req[r] \/ req'[r] = [req[r] EXCEPT !.cancelled = TRUE]
      BY <1>5 DEF StopAdmission
    <3> QED BY <3>2, Moved
  <2>2. req' \in [Requests -> Request]
    BY <1>5, <2>1 DEF StopAdmission
  <2> QED BY <1>0, <1>1, <1>2, <1>5, <2>1, <2>2 DEF StopAdmission
<1>6. CASE StopSessions
  <2>1. Named'
    BY <1>6 DEF Named, StopSessions
  <2>2. kill' = [kill EXCEPT ![Stopper] = KillAll] /\ life' = "closing"
        /\ UNCHANGED <<row, meterVars, sess, agent, attaching, req, handler>>
    BY <1>6 DEF StopSessions
  <2> QED BY <1>0, <2>1, <2>2, KillAllIs, ThreadFrame
<1>7. CASE AwaitWatchers \/ AwaitHandlers
  <2>1. life' \in {"waiting", "draining"} /\ Running(Stopper)
    BY <1>2, <1>7 DEF AwaitWatchers, AwaitHandlers
  <2>2. UNCHANGED <<row, meterVars, sess, agent, attaching, req, handler, kill>>
    BY <1>7 DEF AwaitWatchers, AwaitHandlers
  <2> QED BY <1>0, <1>1, <2>1, <2>2
<1>8. CASE FinalFlush
  <2>1. PICK next : Fresh(next) /\ kill' = [kill EXCEPT ![Stopper] = next]
    BY <1>0, <1>8, FlushIs DEF FinalFlush
  <2>2. /\ row' \in [Tunnels -> Statuses] /\ failure' \in BOOLEAN
        /\ cached' \subseteq cached /\ dirty' \subseteq dirty /\ stops' \subseteq dirty'
    BY <1>0, <1>8, FlushIs DEF FinalFlush
  <2>3. life' = "done" /\ UNCHANGED <<sess, agent, attaching, req, handler>>
    BY <1>8 DEF FinalFlush
  <2>4. Named'
    BY <2>3 DEF Named
  <2> QED BY <1>0, <2>1, <2>2, <2>3, <2>4, ThreadFrame
<1>9. CASE UNCHANGED vars
  BY <1>0, <1>1, <1>2, <1>9 DEF vars, TypeOK
<1> QED BY <1>3, <1>4, <1>5, <1>6, <1>7, <1>8, <1>9 DEF StopNext

\* A new process starts like the first one, with the rows it finds.
LEMMA RestartGateway == ASSUME GatewayInv, Restart PROVE GatewayInv'
<1> USE DEF Restart
<1>1. NoRequest \in Request /\ NoRequest.step = "idle"
  BY DEF Request, NoRequest, RequestSteps
<1>2. NoHandler \in Handler /\ NoHandler.step = "idle"
  BY DEF Handler, NoHandler, Statuses
<1>3. NoKill \in Kill /\ NoKill.step = "none"
  BY NoKillIs DEF Fresh
<1>4. TypeOK'
  BY <1>1, <1>2, <1>3, NoConnIs DEF GatewayInv, TypeOK
<1>5. Named' /\ Registered' /\ OneKillEach'
  BY <1>1, <1>2, <1>3, NoConnIs DEF Named, Registered, OneKillEach, Running, Threads
<1> QED BY <1>4, <1>5 DEF GatewayInv

LEMMA StepGateway == GatewayInv /\ [Next]_vars => GatewayInv'
<1> SUFFICES ASSUME GatewayInv, [Next]_vars PROVE GatewayInv'
  OBVIOUS
<1>1. ASSUME NEW c \in Agents, AgentNext(c) PROVE GatewayInv'
  BY <1>1, AgentsGateway, RegisterGateway DEF AgentNext
<1>2. ASSUME NEW r \in Requests, RequestNext(r) PROVE GatewayInv'
  BY <1>2, RequestsAlone, MoveGateway, OpenInterruptedGateway DEF RequestNext
<1>3. ASSUME NEW h \in Handlers, HandlerNext(h) PROVE GatewayInv'
  BY <1>3, HandlersAlone, HandlersKill DEF HandlerNext
<1> QED BY <1>1, <1>2, <1>3, KillGateway, FlushTickGateway, RestGateway, RestartGateway DEF Next

\* The registry, the goroutines and the row are typed, and what they refer to exists.
THEOREM GatewayInvariant == Spec => []GatewayInv
BY InitGateway, StepGateway, PTL DEF Spec

\* Every variable of the gateway keeps its type, and the registry names each
\* tunnel's own session (gateway.go, Attach and watch).
THEOREM GatewayTypes == Spec => []TypeOK
<1>1. GatewayInv => TypeOK
  BY DEF GatewayInv
<1> QED BY <1>1, GatewayInvariant, PTL

-----------------------------------------------------------------------------
(* EverySessionOwned                                                       *)

\* A goroutine begins a Kill only when it runs none, so that nothing it has
\* taken out of the registry is forgotten.
OthersKept ==
    \/ kill' = kill
    \/ \E x \in Threads : \E next : /\ Running(x) /\ Fresh(next)
                                   /\ kill' = [kill EXCEPT ![x] = next]

\* What requests, handlers, the worker and the shutdown do besides killing
\* leaves the registry and the connections alone.
LEMMA RegistryRests ==
  ASSUME GatewayInv,
         \/ \E r \in Requests : RequestNext(r) /\ ~OpenInterrupted(r)
         \/ \E h \in Handlers : HandlerNext(h)
         \/ \E t \in Tunnels : DeviceDelete(t)
         \/ FlushTick \/ QueryFails \/ StopNext \/ UNCHANGED vars
  PROVE  UNCHANGED <<sess, agent, attaching>> /\ OthersKept
<1> USE DEF GatewayInv, OthersKept
<1>0. /\ dirty \subseteq Tunnels /\ stops \subseteq dirty /\ kill \in [Threads -> Kill]
      /\ Worker \in Threads /\ Stopper \in Threads
      /\ Requests \subseteq Threads /\ Handlers \subseteq Threads
  BY DEF TypeOK, Threads
<1>1. ASSUME NEW x \in Threads, Running(x), NEW next, Fresh(next), kill' = [kill EXCEPT ![x] = next]
      PROVE  OthersKept
  BY <1>1
<1> HIDE DEF OthersKept
<1>2. ASSUME NEW r \in Requests, RequestNext(r), ~OpenInterrupted(r)
      PROVE  UNCHANGED <<sess, agent, attaching>> /\ OthersKept
  <2>1. CASE Move(r)
    <3>1. Running(r) /\ req[r].tunnel \in Tunnels
      BY <2>1 DEF Move, Named
    <3>2. ASSUME NEW spent \in {FALSE, QuotaStops}, NEW stopping \in {{}, {req[r].tunnel}},
                 Flush(r, dirty \cup {req[r].tunnel}, stops \cup stopping, ActiveIn(req), spent)
          PROVE  OthersKept
      <4> DEFINE d == dirty \cup {req[r].tunnel}
                 s == stops \cup stopping
      <4>1. d \subseteq Tunnels /\ s \subseteq d
        BY <1>0, <3>1
      <4>2. Flush(r, d, s, ActiveIn(req), spent)
        BY <3>2
      <4> HIDE DEF d, s
      <4>3. r \in Threads
        BY <1>0
      <4>4. PICK next : Fresh(next) /\ kill' = [kill EXCEPT ![r] = next]
        BY <4>1, <4>2, <4>3, FlushIs
      <4> QED BY <1>1, <3>1, <4>3, <4>4
    <3> QED BY <2>1, <3>2 DEF Move, OthersKept
  <2>2. CASE CloseMeter(r)
    <3>1. Running(r) /\ r \in Threads
      BY <1>0, <2>2 DEF CloseMeter, OneKillEach, KillingSteps
    <3>2. Flush(r, dirty, stops, ActiveIn(req'), FALSE) /\ UNCHANGED <<sess, agent, attaching>>
      BY <2>2 DEF CloseMeter
    <3>3. PICK next : Fresh(next) /\ kill' = [kill EXCEPT ![r] = next]
      BY <1>0, <3>1, <3>2, FlushIs
    <3> QED BY <1>1, <3>1, <3>2, <3>3
  <2>3. CASE MoveRefused(r)
    BY <1>0, <1>1, <2>3, KillAllIs DEF MoveRefused, OthersKept
  <2>4. CASE ~Move(r) /\ ~CloseMeter(r) /\ ~MoveRefused(r)
    BY <1>2, <2>4 DEF RequestNext, Arrive, FindSession, Admit, TakeGlobalSlot, RegisterJob,
       PickSession, OpenStream, End, VisitorLeaves, UnregisterJob, Release, OnlyRequest, OthersKept
  <2> QED BY <2>1, <2>2, <2>3, <2>4
<1>3. ASSUME NEW h \in Handlers, HandlerNext(h)
      PROVE  UNCHANGED <<sess, agent, attaching>> /\ OthersKept
  <2>0. h \in Threads /\ (handler[h].step # "idle" => handler[h].tunnel \in Tunnels)
    BY DEF Threads, Named
  <2>1. CASE PatchCallback(h)
    <3>1. Running(h)
      BY <2>1 DEF PatchCallback, OneKillEach
    <3> QED BY <1>1, <2>0, <2>1, <3>1, KillAllIs DEF PatchCallback, OthersKept
  <2>2. CASE PatchForget(h)
    <3>1. ASSUME NEW next \in KillEach({handler[h].tunnel}), kill' = [kill EXCEPT ![h] = next]
          PROVE  OthersKept
      <4>1. {handler[h].tunnel} \subseteq Tunnels /\ Running(h)
        BY <2>0, <2>2 DEF PatchForget
      <4>2. Fresh(next)
        BY <3>1, <4>1, KillEachIs
      <4> QED BY <1>1, <2>0, <3>1, <4>1, <4>2
    <3> QED BY <2>2, <3>1 DEF PatchForget, OthersKept
  <2>3. CASE DeleteDrain(h)
    BY <1>0, <1>1, <2>0, <2>3, FlushIs DEF DeleteDrain
  <2>4. ASSUME NEW t \in Tunnels, DeleteBegin(h, t)
        PROVE  UNCHANGED <<sess, agent, attaching>> /\ OthersKept
    <3>1. PICK next \in KillEach({t}) : kill' = [kill EXCEPT ![h] = next]
      BY <2>4 DEF DeleteBegin
    <3>2. {t} \subseteq Tunnels
      OBVIOUS
    <3>3. Fresh(next)
      BY <3>1, <3>2, KillEachIs
    <3> QED BY <1>1, <2>0, <2>4, <3>1, <3>3 DEF DeleteBegin
  <2>5. ASSUME \/ \E t \in Tunnels, field \in StatusFields : PatchLoad(h, t, field)
               \/ PatchCommit(h) \/ DeleteTimesOut(h) \/ DeleteRow(h) \/ DeleteRelease(h)
        PROVE  UNCHANGED <<sess, agent, attaching>> /\ OthersKept
    BY <2>5 DEF PatchLoad, PatchCommit, DeleteTimesOut, DeleteRow, DeleteRelease, OnlyHandler, OthersKept
  <2> QED BY <1>3, <2>1, <2>2, <2>3, <2>4, <2>5 DEF HandlerNext
<1>4. CASE FlushTick
  BY <1>0, <1>1, <1>4, FlushIs DEF FlushTick
<1>5. CASE StopNext
  <2>1. CASE StopSessions
    <3>1. Running(Stopper)
      BY <2>1 DEF StopSessions, OneKillEach
    <3> QED BY <1>0, <1>1, <2>1, <3>1, KillAllIs DEF StopSessions
  <2>2. CASE FinalFlush
    <3>1. Running(Stopper)
      BY <2>2 DEF FinalFlush, OneKillEach
    <3> QED BY <1>0, <1>1, <2>2, <3>1, FlushIs DEF FinalFlush
  <2> QED BY <1>5, <2>1, <2>2 DEF StopNext, StopAdmission, AwaitWatchers, AwaitHandlers, OthersKept
<1>6. CASE (\E t \in Tunnels : DeviceDelete(t)) \/ QueryFails \/ UNCHANGED vars
  BY <1>6 DEF DeviceDelete, QueryFails, vars, OthersKept
<1> QED BY <1>2, <1>3, <1>4, <1>5, <1>6

\* Sessions stay owned where none is attached, taken out or forgotten.
LEMMA OwnedFrame ==
  ASSUME GatewayInv, EverySessionOwned,
         \A c \in Agents : agent'[c].step = "attached" /\ agent'[c].open =>
            /\ agent[c].step = "attached" /\ agent[c].open /\ agent'[c].tunnel = agent[c].tunnel
            /\ sess[agent[c].tunnel] = c => sess'[agent[c].tunnel] = c,
         \A x \in Threads : kill[x].step = "close" => kill'[x] = kill[x]
  PROVE  EverySessionOwned'
BY DEF EverySessionOwned

LEMMA StepOwned == GatewayInv /\ EverySessionOwned /\ [Next]_vars => EverySessionOwned'
<1> SUFFICES ASSUME GatewayInv, EverySessionOwned, [Next]_vars PROVE EverySessionOwned'
  OBVIOUS
<1>0. kill \in [Threads -> Kill] /\ agent \in [Agents -> Conn] /\ sess \in [Tunnels -> Agents \cup {None}]
  BY DEF GatewayInv, TypeOK
<1>1. ASSUME UNCHANGED <<sess, agent, attaching>>, OthersKept PROVE EverySessionOwned'
  <2>1. \A x \in Threads : kill[x].step = "close" => kill'[x] = kill[x]
    BY <1>0, <1>1 DEF OthersKept, Running
  <2> QED BY <1>1, <2>1, OwnedFrame
<1>2. ASSUME NEW c \in Agents, AgentNext(c) PROVE EverySessionOwned'
  <2>1. CASE AttachRegisters(c)
    <3> DEFINE t == agent[c].tunnel
    <3>1. t \in Tunnels /\ c \in Agents /\ sess' = [sess EXCEPT ![t] = c] /\ UNCHANGED kill
      BY <2>1 DEF AttachRegisters, GatewayInv, Named
    <3>2. \A b \in Agents \ {c} : agent'[b].step = "attached" =>
              agent'[b] = agent[b] /\ b # sess[t]
      <4>1. \A b \in Agents \ {c} : agent'[b] = IF b = sess[t] THEN [agent[b] EXCEPT !.step = "replaced"]
                                                ELSE agent[b]
        BY <2>1 DEF AttachRegisters
      <4> QED BY <1>0, <4>1 DEF Conn
    <3>3. agent'[c].tunnel = t
      BY <1>0, <2>1 DEF AttachRegisters, Conn
    <3>4. SUFFICES ASSUME NEW b \in Agents, agent'[b].step = "attached" /\ agent'[b].open
                   PROVE  \/ sess'[agent'[b].tunnel] = b
                          \/ \E x \in Threads : kill'[x].step = "close" /\ b \in kill'[x].victims
      BY DEF EverySessionOwned
    <3>5. CASE b = c
      BY <1>0, <3>1, <3>3, <3>5
    <3>6. CASE b # c
      BY <1>0, <3>1, <3>2, <3>4, <3>6 DEF EverySessionOwned
    <3> QED BY <3>5, <3>6
  <2>2. ASSUME NEW a \in Conn, agent' = [agent EXCEPT ![c] = a],
               ~(a.step = "attached" /\ a.open),
               UNCHANGED kill,
               \A t \in Tunnels : sess'[t] = sess[t] \/ sess[t] = c
        PROVE  EverySessionOwned'
    <3>1. \A b \in Agents : agent'[b].step = "attached" /\ agent'[b].open =>
            /\ agent'[b] = agent[b] /\ b # c /\ agent[b].tunnel \in Tunnels
      BY <1>0, <2>2 DEF GatewayInv, Named
    <3> QED BY <2>2, <3>1, OwnedFrame
  <2>3. CASE \/ AttachRefused(c) \/ AttachRejected(c) \/ Watch(c)
    <3>1. agent' = [agent EXCEPT ![c] = NoConn] /\ UNCHANGED kill
      BY <2>3 DEF AttachRefused, AttachRejected, Watch
    <3>2. \A t \in Tunnels : sess'[t] = sess[t] \/ sess[t] = c
      BY <2>3 DEF AttachRefused, AttachRejected, Watch
    <3> QED BY <2>2, <3>1, <3>2, NoConnIs
  <2>4. CASE CloseReplaced(c) \/ SessionLost(c)
    BY <2>2, <2>4, ConnIs DEF CloseReplaced, SessionLost
  <2>5. CASE AttachValidates(c)
    <3>1. [agent[c] EXCEPT !.step = "validated"] \in Conn
          /\ [agent[c] EXCEPT !.step = "validated"].step = "validated"
      BY ConnIs
    <3> QED BY <2>2, <2>5, <3>1 DEF AttachValidates
  <2>6. ASSUME NEW t \in Tunnels, Connect(c, t) PROVE EverySessionOwned'
    <3>1. [step |-> "handshake", tunnel |-> t, open |-> TRUE] \in Conn
      BY DEF Conn
    <3> QED BY <2>2, <2>6, <3>1 DEF Connect
  <2> QED BY <1>2, <2>1, <2>3, <2>4, <2>5, <2>6 DEF AgentNext
<1>3. ASSUME NEW x \in Threads, KillNext(x) PROVE EverySessionOwned'
  <2>1. CASE KillCancels(x)
    BY <1>0, <2>1, OwnedFrame DEF KillCancels
  <2>2. CASE KillUnmaps(x)
    <3> DEFINE out == {sess[t] : t \in kill[x].batch} \ {None}
               next == [kill[x] EXCEPT !.step = "close", !.victims = out]
    <3>1. kill' = [kill EXCEPT ![x] = next] /\ next.step = "close" /\ next.victims = out
      BY <1>0, <2>2 DEF KillUnmaps, Kill
    <3>2. /\ sess' = [t \in Tunnels |-> IF t \in kill[x].batch THEN None ELSE sess[t]]
          /\ UNCHANGED agent /\ kill[x].step = "unmap"
      BY <2>2 DEF KillUnmaps
    <3> HIDE DEF next
    <3>3. kill'[x].step = "close" /\ kill'[x].victims = out
          /\ \A y \in Threads \ {x} : kill'[y] = kill[y]
      BY <1>0, <3>1
    <3>4. SUFFICES ASSUME NEW c \in Agents, agent[c].step = "attached" /\ agent[c].open
                   PROVE  \/ sess'[agent[c].tunnel] = c
                          \/ \E y \in Threads : kill'[y].step = "close" /\ c \in kill'[y].victims
      BY <3>2 DEF EverySessionOwned
    <3>5. agent[c].tunnel \in Tunnels /\ c # None
      BY <3>4, GatewayAssumption DEF GatewayInv, Named
    <3>6. CASE sess[agent[c].tunnel] = c
      BY <3>2, <3>3, <3>5, <3>6
    <3>7. CASE sess[agent[c].tunnel] # c
      <4>1. PICK y \in Threads : kill[y].step = "close" /\ c \in kill[y].victims
        BY <3>4, <3>7 DEF EverySessionOwned
      <4> QED BY <3>2, <3>3, <4>1
    <3> QED BY <3>6, <3>7
  <2>3. CASE KillCloses(x)
    <3>1. PICK next : kill' = [kill EXCEPT ![x] = next]
      BY <2>3 DEF KillCloses
    <3>2. /\ agent' = [c \in Agents |->
                IF c \in kill[x].victims THEN [agent[c] EXCEPT !.open = FALSE] ELSE agent[c]]
          /\ UNCHANGED sess
      BY <2>3 DEF KillCloses
    <3>3. SUFFICES ASSUME NEW c \in Agents, agent'[c].step = "attached" /\ agent'[c].open
                   PROVE  \/ sess'[agent'[c].tunnel] = c
                          \/ \E y \in Threads : kill'[y].step = "close" /\ c \in kill'[y].victims
      BY DEF EverySessionOwned
    <3>4. c \notin kill[x].victims /\ agent'[c] = agent[c]
      BY <1>0, <3>2, <3>3 DEF Conn
    <3>5. CASE sess[agent[c].tunnel] = c
      BY <3>2, <3>4, <3>5
    <3>6. CASE sess[agent[c].tunnel] # c
      <4>1. PICK y \in Threads : kill[y].step = "close" /\ c \in kill[y].victims
        BY <3>3, <3>4, <3>6 DEF EverySessionOwned
      <4>2. y # x /\ kill'[y] = kill[y]
        BY <1>0, <3>1, <3>4, <4>1
      <4> QED BY <4>1, <4>2
    <3> QED BY <3>5, <3>6
  <2> QED BY <1>3, <2>1, <2>2, <2>3 DEF KillNext
<1>4. ASSUME NEW r \in Requests, OpenInterrupted(r) PROVE EverySessionOwned'
  <2>1. \A c \in Agents : agent'[c] = agent[c] \/ agent'[c] = [agent[c] EXCEPT !.open = FALSE]
    BY <1>0, <1>4 DEF OpenInterrupted
  <2>2. \A c \in Agents : agent'[c].open => agent'[c] = agent[c]
    BY <1>0, <2>1 DEF Conn
  <2>3. UNCHANGED <<sess, kill>>
    BY <1>4 DEF OpenInterrupted
  <2> QED BY <2>2, <2>3, OwnedFrame
<1>5. CASE Restart
  BY <1>5, NoConnIs DEF Restart, EverySessionOwned
<1> QED BY <1>1, <1>2, <1>3, <1>4, <1>5, RegistryRests DEF Next

\* No open session is ever out of reach: whatever attaches, replacements, kills
\* and watchers do at once, it is in the registry or somebody is closing it.
THEOREM SessionsOwned == Spec => []EverySessionOwned
<1>1. Init => EverySessionOwned
  BY NoConnIs DEF Init, EverySessionOwned
<1>2. GatewayInv /\ EverySessionOwned /\ [Next]_vars => EverySessionOwned'
  BY StepOwned
<1> QED BY <1>1, <1>2, GatewayInvariant, PTL DEF Spec

-----------------------------------------------------------------------------
(* DeleteDrained                                                           *)

\* A row that a flush changes was active, and x is about to kill its tunnel.
Stopped(t, x) ==
    /\ row[t] = "active" /\ row'[t] = "quota_exceeded"
    /\ kill'[x].step = "cancel" /\ t \in kill'[x].batch \cup kill'[x].rest

\* What a step of a request can do to the others, the meter and the rows.
LEMMA RequestMoves ==
  ASSUME GatewayInv, NEW r \in Requests, RequestNext(r)
  PROVE  /\ UNCHANGED <<handler, life, sess, attaching>>
         /\ \A q \in Requests : q # r => req'[q] = req[q]
         /\ \/ req'[r].step \in {"idle", "routed", "found"}
            \/ /\ req'[r].tunnel = req[r].tunnel
               /\ req[r].step \notin {"idle", "routed", "found"} \/ ~Removing(req[r].tunnel)
         /\ \/ dirty' \cup cached' \subseteq dirty \cup cached
            \/ /\ dirty' \cup cached' \subseteq dirty \cup cached \cup {req[r].tunnel}
               /\ req[r].step \in {"streaming", "failed"}
         /\ \A t \in Tunnels : row'[t] # row[t] => Stopped(t, r)
         /\ req[r].step = "idle" => life = "run"
<1>0. /\ req \in [Requests -> Request] /\ dirty \subseteq Tunnels /\ stops \subseteq dirty
      /\ kill \in [Threads -> Kill] /\ r \in Threads /\ TypeOK /\ cached \subseteq Tunnels
  BY DEF GatewayInv, TypeOK, Threads
<1> DEFINE Flushed(d) == /\ dirty' \subseteq d /\ cached' \subseteq cached
                         /\ \A t \in Tunnels : row'[t] # row[t] => Stopped(t, r)
<1>1. ASSUME NEW STATE d, d \subseteq Tunnels, NEW STATE s, s \subseteq d,
             NEW ACTION active, NEW STATE spent, Flush(r, d, s, active, spent)
      PROVE  Flushed(d)
  <2>1. /\ dirty' \subseteq d /\ cached' \subseteq cached
        /\ \E next : /\ Fresh(next) /\ kill' = [kill EXCEPT ![r] = next]
                     /\ \A t \in Tunnels : row'[t] # row[t] =>
                           /\ row[t] = "active" /\ row'[t] = "quota_exceeded"
                           /\ next.step = "cancel" /\ t \in next.batch \cup next.rest
    BY <1>0, <1>1, FlushIs
  <2> QED BY <1>0, <2>1 DEF Stopped
<1> HIDE DEF Flushed
<1>2. CASE Move(r)
  <2>1. /\ req[r].step \in {"streaming", "failed"} /\ req[r].tunnel \in Tunnels
        /\ req'[r].tunnel = req[r].tunnel /\ \A q \in Requests : q # r => req'[q] = req[q]
        /\ UNCHANGED <<handler, life, sess, attaching>>
    BY <1>0, <1>2 DEF Move, Goto, GatewayInv, Named, Request
  <2>2. ASSUME NEW spent \in {FALSE, QuotaStops}, NEW stopping \in {{}, {req[r].tunnel}},
               Flush(r, dirty \cup {req[r].tunnel}, stops \cup stopping, ActiveIn(req), spent)
        PROVE  Flushed(dirty \cup {req[r].tunnel})
    <3> DEFINE d == dirty \cup {req[r].tunnel}
               s == stops \cup stopping
    <3>1. d \subseteq Tunnels /\ s \subseteq d
      BY <1>0, <2>1
    <3>2. Flush(r, d, s, ActiveIn(req), spent)
      BY <2>2
    <3> HIDE DEF d, s
    <3>3. Flushed(d)
      BY <1>1, <3>1, <3>2
    <3> QED BY <3>3 DEF d
  <2>3. \/ Flushed(dirty \cup {req[r].tunnel})
        \/ /\ cached' = cached \cup {req[r].tunnel} /\ dirty' = dirty \cup {req[r].tunnel}
           /\ UNCHANGED row
    BY <1>2, <2>2 DEF Move
  <2> QED BY <2>1, <2>3 DEF Flushed
<1>3. CASE CloseMeter(r)
  <2>1. Flush(r, dirty, stops, ActiveIn(req'), FALSE) /\ UNCHANGED <<handler, life, sess, attaching>>
        /\ req' = [req EXCEPT ![r].step = "flushed"] /\ req[r].step = "unregistered"
    BY <1>3 DEF CloseMeter, Goto
  <2>2. Flushed(dirty)
    BY <1>0, <1>1, <2>1
  <2> QED BY <1>0, <2>1, <2>2 DEF Flushed, Request
<1>4. CASE OpenInterrupted(r) \/ MoveRefused(r)
  BY <1>0, <1>4 DEF OpenInterrupted, MoveRefused, Goto, Request, meterVars
<1>5. ASSUME NEW t \in Tunnels, Arrive(r, t)
      PROVE  req'[r].step = "routed" /\ life = "run" /\ OnlyRequest
             /\ \A q \in Requests : q # r => req'[q] = req[q]
  <2>1. [NoRequest EXCEPT !.step = "routed", !.tunnel = t].step = "routed"
    BY DEF NoRequest
  <2> QED BY <1>0, <1>5, <2>1 DEF Arrive
<1>6. CASE \/ FindSession(r) \/ Release(r)
  <2>1. req'[r].step \in {"idle", "found"} /\ OnlyRequest /\ req[r].step # "idle"
        /\ \A q \in Requests : q # r => req'[q] = req[q]
    BY <1>0, <1>6 DEF FindSession, Release, Leave, Goto, Request, NoRequest
  <2> QED BY <2>1 DEF OnlyRequest, meterVars
<1>7. CASE Admit(r)
  <2>1. \/ req'[r].step = "idle"
        \/ ~Removing(req[r].tunnel) /\ req'[r].tunnel = req[r].tunnel
    BY <1>0, <1>7 DEF Admit, Leave, Goto, Request, NoRequest
  <2>2. OnlyRequest /\ req[r].step # "idle" /\ \A q \in Requests : q # r => req'[q] = req[q]
    BY <1>0, <1>7 DEF Admit, Leave, Goto
  <2> QED BY <2>1, <2>2 DEF OnlyRequest, meterVars
<1>8. CASE \/ TakeGlobalSlot(r) \/ RegisterJob(r) \/ PickSession(r) \/ OpenStream(r) \/ End(r)
           \/ VisitorLeaves(r) \/ UnregisterJob(r)
  <2>1. req'[r].tunnel = req[r].tunnel /\ OnlyRequest /\ req[r].step \notin {"idle", "routed", "found"}
        /\ \A q \in Requests : q # r => req'[q] = req[q]
    BY <1>0, <1>8 DEF TakeGlobalSlot, RegisterJob, PickSession, OpenStream, End, VisitorLeaves,
       UnregisterJob, Goto, Request
  <2> QED BY <2>1 DEF OnlyRequest, meterVars
<1> QED BY <1>2, <1>3, <1>4, <1>5, <1>6, <1>7, <1>8 DEF RequestNext, OnlyRequest, meterVars

\* What a step of a handler can do to the others, the meter, the rows, and itself.
LEMMA HandlerMoves ==
  ASSUME GatewayInv, NEW h \in Handlers, HandlerNext(h)
  PROVE  /\ UNCHANGED <<req, life, sess, agent, attaching>> /\ Running(h)
         /\ \A g \in Handlers : g # h => handler'[g] = handler[g]
         /\ \A x \in Threads : x # h => kill'[x] = kill[x]
         /\ dirty' \subseteq dirty /\ cached' \subseteq cached
         /\ handler[h].step = "idle" => life = "run"
         /\ handler'[h].step = "removing" =>
               /\ attaching = None
               /\ kill'[h].step = "cancel" /\ handler'[h].tunnel \in kill'[h].batch
         /\ handler'[h].step = "drained" =>
               /\ handler[h].step = "removing" /\ handler'[h].tunnel = handler[h].tunnel
               /\ Admitted(handler[h].tunnel) = {} /\ handler[h].tunnel \notin dirty' \cup cached'
         /\ handler'[h].step = "releasing" =>
               /\ handler[h].step \in {"removing", "drained"}
               /\ handler'[h].tunnel = handler[h].tunnel
         /\ handler[h].step \in {"committed", "called"} /\ handler[h].status = "disabled" =>
               \/ /\ handler'[h].step = "called" /\ handler'[h].tunnel = handler[h].tunnel
                  /\ handler'[h].status = "disabled"
               \/ kill'[h].step = "cancel" /\ handler[h].tunnel \in kill'[h].batch \cup kill'[h].rest
         /\ \A t \in Tunnels : row'[t] # row[t] =>
               \/ Stopped(t, h)
               \/ /\ handler[h].step = "loaded" /\ t = handler[h].tunnel
                  /\ row[t] # "gone" /\ row'[t] = handler[h].status
                  /\ handler'[h] = [handler[h] EXCEPT !.step = "committed"]
               \/ handler[h].step = "drained" /\ t = handler[h].tunnel /\ row'[t] = "gone"
<1>0. /\ handler \in [Handlers -> Handler] /\ dirty \subseteq Tunnels /\ stops \subseteq dirty
      /\ kill \in [Threads -> Kill] /\ h \in Threads /\ TypeOK /\ cached \subseteq Tunnels
      /\ handler[h].step # "idle" => handler[h].tunnel \in Tunnels
      /\ row \in [Tunnels -> Statuses]
  BY DEF GatewayInv, TypeOK, Named, Threads
<1>1. ASSUME NEW t \in Tunnels, NEW field \in StatusFields, PatchLoad(h, t, field)
      PROVE  /\ OnlyHandler /\ UNCHANGED row /\ Running(h) /\ life = "run"
             /\ \A g \in Handlers : g # h => handler'[g] = handler[g]
             /\ handler'[h].step = "loaded" /\ handler[h].step = "idle"
  BY <1>0, <1>1 DEF PatchLoad
<1>2. CASE PatchCommit(h)
  <2> DEFINE d == [handler[h] EXCEPT !.step = "committed"]
             t == handler[h].tunnel
  <2>1. /\ Running(h) /\ OnlyHandler /\ t \in Tunnels /\ handler[h].step = "loaded"
        /\ d.step = "committed" /\ NoHandler.step = "idle"
    BY <1>0, <1>2 DEF PatchCommit, OneKillEach, GatewayInv, Handler, NoHandler
  <2>2. \/ /\ handler' = [handler EXCEPT ![h] = d]
           /\ row' = [row EXCEPT ![t] = IF row[t] = "gone" THEN row[t] ELSE handler[h].status]
        \/ handler' = [handler EXCEPT ![h] = NoHandler] /\ UNCHANGED row
    BY <1>2 DEF PatchCommit
  <2> HIDE DEF d
  <2>3. handler'[h] \in {d, NoHandler} /\ \A g \in Handlers : g # h => handler'[g] = handler[g]
    BY <1>0, <2>2
  <2>4. \A u \in Tunnels : row'[u] # row[u] =>
            u = t /\ row[t] # "gone" /\ row'[t] = handler[h].status /\ handler'[h] = d
    BY <1>0, <2>1, <2>2
  <2> QED BY <2>1, <2>3, <2>4 DEF OnlyHandler, meterVars, d
<1>3. CASE PatchCallback(h)
  <2>1. Running(h) /\ UNCHANGED <<row, cached, dirty, stops, sess, agent, attaching, req, life>>
        /\ handler[h].step = "committed"
    BY <1>3 DEF PatchCallback, GatewayInv, OneKillEach
  <2>2. /\ handler'[h].step = "called" /\ handler'[h].tunnel = handler[h].tunnel
        /\ handler'[h].status = handler[h].status
        /\ \A g \in Handlers : g # h => handler'[g] = handler[g]
    BY <1>0, <1>3 DEF PatchCallback, Handler
  <2>3. \A x \in Threads : x # h => kill'[x] = kill[x]
    BY <1>0, <1>3 DEF PatchCallback
  <2> QED BY <2>1, <2>2, <2>3
<1>4. CASE PatchForget(h)
  <2>1. /\ Running(h) /\ UNCHANGED <<row, meterVars, sess, agent, attaching, req, life>>
        /\ handler[h].step = "called" /\ handler'[h] = NoHandler /\ handler[h].tunnel \in Tunnels
        /\ \A g \in Handlers : g # h => handler'[g] = handler[g]
    BY <1>0, <1>4 DEF PatchForget
  <2>2. CASE handler[h].status = "disabled"
    <3>1. PICK next \in KillEach({handler[h].tunnel}) : kill' = [kill EXCEPT ![h] = next]
      BY <1>4, <2>2 DEF PatchForget
    <3>2. {handler[h].tunnel} \subseteq Tunnels
      BY <2>1
    <3>3. next.step = "cancel" /\ handler[h].tunnel \in next.batch \cup next.rest
      BY <3>1, <3>2, KillEachIs
    <3> QED BY <1>0, <2>1, <3>1, <3>3 DEF meterVars, NoHandler
  <2>3. CASE handler[h].status # "disabled"
    BY <1>4, <2>1, <2>3 DEF PatchForget, meterVars, NoHandler
  <2> QED BY <2>2, <2>3
<1>5. ASSUME NEW t \in Tunnels, DeleteBegin(h, t)
      PROVE  /\ Running(h) /\ life = "run" /\ attaching = None /\ handler[h].step = "idle"
             /\ UNCHANGED <<row, meterVars, sess, agent, attaching, req, life>>
             /\ \A g \in Handlers : g # h => handler'[g] = handler[g]
             /\ \A x \in Threads : x # h => kill'[x] = kill[x]
             /\ handler'[h].step = "removing" /\ handler'[h].tunnel = t
             /\ kill'[h].step = "cancel" /\ t \in kill'[h].batch
  <2>1. PICK next \in KillEach({t}) : kill' = [kill EXCEPT ![h] = next]
    BY <1>5 DEF DeleteBegin
  <2>2. next.step = "cancel" /\ t \in next.batch
    BY <2>1 DEF KillEach, NoKill
  <2>3. /\ Running(h) /\ life = "run" /\ attaching = None /\ handler[h].step = "idle"
        /\ UNCHANGED <<row, meterVars, sess, agent, attaching, req, life>>
    BY <1>5 DEF DeleteBegin, AdmissionFree
  <2>4. /\ handler'[h].step = "removing" /\ handler'[h].tunnel = t
        /\ \A g \in Handlers : g # h => handler'[g] = handler[g]
    BY <1>0, <1>5 DEF DeleteBegin, NoHandler
  <2> QED BY <1>0, <2>1, <2>2, <2>3, <2>4
<1>6. CASE DeleteDrain(h)
  <2>1. /\ Running(h) /\ handler[h].step = "removing" /\ Admitted(handler[h].tunnel) = {}
        /\ UNCHANGED <<sess, agent, attaching, req, life>>
        /\ Flush(h, dirty, stops, ActiveIn(req), FALSE)
    BY <1>6 DEF DeleteDrain
  <2>2. /\ handler'[h].tunnel = handler[h].tunnel /\ handler'[h].step \in {"drained", "releasing"}
        /\ handler'[h].step = "drained" => ~failure'
        /\ \A g \in Handlers : g # h => handler'[g] = handler[g]
    BY <1>0, <1>6 DEF DeleteDrain, Handler
  <2>3. /\ cached' \subseteq cached /\ dirty' \subseteq dirty
        /\ ~failure' => cached' = cached \cap ActiveIn(req) /\ dirty' = {}
        /\ \E next : /\ Fresh(next) /\ kill' = [kill EXCEPT ![h] = next]
                     /\ \A t \in Tunnels : row'[t] # row[t] =>
                           /\ row[t] = "active" /\ row'[t] = "quota_exceeded"
                           /\ next.step = "cancel" /\ t \in next.batch \cup next.rest
    BY <1>0, <2>1, FlushIs
  <2>4. \A x \in Threads : x # h => kill'[x] = kill[x]
    BY <1>0, <2>3
  <2>5. \A t \in Tunnels : row'[t] # row[t] => Stopped(t, h)
    BY <1>0, <2>3 DEF Stopped
  <2>6. handler[h].tunnel \notin ActiveIn(req)
    BY <2>1 DEF Admitted, ActiveIn
  <2> QED BY <2>1, <2>2, <2>3, <2>4, <2>5, <2>6
<1>7. CASE DeleteTimesOut(h) \/ DeleteRelease(h)
  <2>1. OnlyHandler /\ UNCHANGED row /\ Running(h) /\ handler'[h] = NoHandler
        /\ handler[h].step \in {"removing", "releasing"}
        /\ \A g \in Handlers : g # h => handler'[g] = handler[g]
    BY <1>0, <1>7 DEF DeleteTimesOut, DeleteRelease
  <2> QED BY <2>1 DEF NoHandler, OnlyHandler, meterVars
<1>8. CASE DeleteRow(h)
  <2>1. /\ OnlyHandler /\ Running(h) /\ handler[h].step = "drained"
        /\ handler'[h].step = "releasing" /\ handler'[h].tunnel = handler[h].tunnel
        /\ \A g \in Handlers : g # h => handler'[g] = handler[g]
        /\ \A t \in Tunnels : row'[t] # row[t] => t = handler[h].tunnel /\ row'[t] = "gone"
    BY <1>0, <1>8 DEF DeleteRow, Handler
  <2> QED BY <2>1 DEF OnlyHandler, meterVars
<1> QED BY <1>1, <1>2, <1>3, <1>4, <1>5, <1>6, <1>7, <1>8 DEF HandlerNext, OnlyHandler, meterVars

\* DELETEs keep their tunnels to themselves while no handler moves.
LEMMA AloneFrame ==
  ASSUME GatewayInv, DeletesAlone, UNCHANGED handler,
         \A c \in Agents : agent'[c].step = "validated" =>
            /\ agent'[c].tunnel = agent[c].tunnel
            /\ agent[c].step = "validated" \/ ~Removing(agent[c].tunnel),
         \A t \in Tunnels : Removing(t) => sess'[t] \in {None, sess[t]} /\ Admitted(t)' \subseteq Admitted(t),
         \A t \in (dirty' \cup cached') \ (dirty \cup cached) : Admitted(t) # {},
         \A h \in Handlers : kill[h].step \in {"cancel", "unmap"} =>
            \/ kill'[h].step \in {"cancel", "unmap"} /\ kill'[h].batch = kill[h].batch
            \/ \A t \in kill[h].batch : sess'[t] = None
  PROVE  DeletesAlone'
<1> SUFFICES ASSUME NEW h \in Handlers, handler[h].step \in {"removing", "drained", "releasing"}
             PROVE  /\ \A c \in Agents : agent'[c].step = "validated" => agent'[c].tunnel # handler[h].tunnel
                    /\ \/ sess'[handler[h].tunnel] = None
                       \/ /\ handler[h].step = "removing"
                          /\ kill'[h].step \in {"cancel", "unmap"} /\ handler[h].tunnel \in kill'[h].batch
                    /\ handler[h].step = "drained" =>
                          /\ Admitted(handler[h].tunnel)' = {}
                          /\ handler[h].tunnel \notin dirty' \cup cached'
  BY DEF DeletesAlone, Admitted
<1>0. PICK t \in Tunnels : t = handler[h].tunnel
  BY DEF GatewayInv, Named
<1>1. Removing(t)
  BY <1>0 DEF Removing
<1>2. /\ \A c \in Agents : agent[c].step = "validated" => agent[c].tunnel # t
      /\ sess[t] = None \/ (handler[h].step = "removing" /\ kill[h].step \in {"cancel", "unmap"} /\ t \in kill[h].batch)
      /\ handler[h].step = "drained" => Admitted(t) = {} /\ t \notin dirty \cup cached
  BY <1>0 DEF DeletesAlone
<1>3. \A c \in Agents : agent'[c].step = "validated" => agent'[c].tunnel # t
  BY <1>1, <1>2
<1>4. sess'[t] = None \/ (handler[h].step = "removing" /\ kill'[h].step \in {"cancel", "unmap"} /\ t \in kill'[h].batch)
  BY <1>1, <1>2
<1>5. handler[h].step = "drained" => Admitted(t)' = {} /\ t \notin dirty' \cup cached'
  BY <1>1, <1>2
<1> QED BY <1>0, <1>3, <1>4, <1>5 DEF Admitted

\* A thread that kills is not disturbed by one that is not killing yet.
LEMMA KillsKept ==
  ASSUME GatewayInv, OthersKept
  PROVE  \A x \in Threads : kill[x].step # "none" => kill'[x] = kill[x]
BY DEF GatewayInv, TypeOK, OthersKept, Running

LEMMA StepAlone == GatewayInv /\ DeletesAlone /\ [Next]_vars => DeletesAlone'
<1> SUFFICES ASSUME GatewayInv, DeletesAlone, [Next]_vars PROVE DeletesAlone'
  OBVIOUS
<1>0. /\ kill \in [Threads -> Kill] /\ agent \in [Agents -> Conn] /\ req \in [Requests -> Request]
      /\ sess \in [Tunnels -> Agents \cup {None}] /\ Handlers \subseteq Threads
      /\ handler \in [Handlers -> Handler]
  BY DEF GatewayInv, TypeOK, Threads
<1>1. ASSUME NEW c \in Agents, AgentNext(c) PROVE DeletesAlone'
  <2>1. UNCHANGED <<row, meterVars, req, handler, kill, life>>
    BY <1>1 DEF AgentNext, Connect, AttachValidates, AttachRefused, AttachRegisters, AttachRejected,
       CloseReplaced, SessionLost, Watch
  <2>2. \A b \in Agents : agent'[b].step = "validated" =>
            /\ agent'[b].tunnel = agent[b].tunnel
            /\ agent[b].step = "validated" \/ ~Removing(agent[b].tunnel)
    <3>1. CASE AttachValidates(c)
      BY <1>0, <3>1 DEF AttachValidates, Conn
    <3>2. CASE AttachRegisters(c)
      <4>1. \A b \in Agents : \/ agent'[b] = agent[b]
                              \/ agent'[b] = [agent[b] EXCEPT !.step = "attached"]
                              \/ agent'[b] = [agent[b] EXCEPT !.step = "replaced"]
        BY <3>2 DEF AttachRegisters
      <4> QED BY <1>0, <4>1 DEF Conn
    <3>3. CASE AttachRefused(c) \/ AttachRejected(c) \/ Watch(c)
      BY <1>0, <3>3, NoConnIs DEF AttachRefused, AttachRejected, Watch
    <3>4. CASE CloseReplaced(c) \/ SessionLost(c)
      BY <1>0, <3>4 DEF CloseReplaced, SessionLost, Conn
    <3>5. ASSUME NEW t \in Tunnels, Connect(c, t)
          PROVE  \A b \in Agents : agent'[b].step = "validated" => agent'[b] = agent[b]
      <4>1. [step |-> "handshake", tunnel |-> t, open |-> TRUE].step = "handshake"
        OBVIOUS
      <4> QED BY <1>0, <3>5, <4>1 DEF Connect
    <3> QED BY <1>1, <3>1, <3>2, <3>3, <3>4, <3>5 DEF AgentNext
  <2>3. \A t \in Tunnels : Removing(t) => sess'[t] \in {None, sess[t]}
    <3>1. CASE AttachRegisters(c)
      <4>1. \A t \in Tunnels : Removing(t) => t # agent[c].tunnel
        BY <3>1 DEF AttachRegisters, DeletesAlone, Removing
      <4> QED BY <1>0, <3>1, <4>1 DEF AttachRegisters
    <3>2. CASE Watch(c)
      BY <1>0, <3>2 DEF Watch
    <3>3. CASE ~AttachRegisters(c) /\ ~Watch(c)
      BY <1>1, <3>3 DEF AgentNext, Connect, AttachValidates, AttachRefused, AttachRejected,
         CloseReplaced, SessionLost
    <3> QED BY <3>1, <3>2, <3>3
  <2>4. \A t \in Tunnels : Admitted(t)' = Admitted(t)
    BY <2>1 DEF Admitted
  <2> QED BY <2>1, <2>2, <2>3, <2>4, AloneFrame DEF meterVars
<1>2. ASSUME NEW r \in Requests, RequestNext(r) PROVE DeletesAlone'
  <2>1. \A c \in Agents : agent'[c].step = agent[c].step /\ agent'[c].tunnel = agent[c].tunnel
    <3>1. CASE OpenInterrupted(r)
      BY <1>0, <3>1 DEF OpenInterrupted, Conn
    <3>2. CASE ~OpenInterrupted(r)
      BY <1>2, <3>2, RegistryRests
    <3> QED BY <3>1, <3>2
  <2>2. \A x \in Threads : kill[x].step # "none" => kill'[x] = kill[x]
    <3>1. CASE OpenInterrupted(r)
      BY <3>1 DEF OpenInterrupted
    <3>2. CASE ~OpenInterrupted(r)
      BY <1>2, <3>2, RegistryRests, KillsKept
    <3> QED BY <3>1, <3>2
  <2>3. \A t \in Tunnels : Removing(t) => Admitted(t)' \subseteq Admitted(t)
    BY <1>2, RequestMoves DEF Admitted
  <2>4. \A t \in (dirty' \cup cached') \ (dirty \cup cached) : Admitted(t) # {}
    BY <1>2, RequestMoves DEF Admitted
  <2>5. UNCHANGED <<handler, sess>>
    BY <1>2, RequestMoves
  <2> QED BY <1>0, <2>1, <2>2, <2>3, <2>4, <2>5, AloneFrame
<1>3. ASSUME NEW h \in Handlers, HandlerNext(h) PROVE DeletesAlone'
  <2> DEFINE t == handler'[h].tunnel
  <2>1. /\ UNCHANGED <<req, life, sess, agent, attaching>> /\ Running(h)
        /\ \A g \in Handlers : g # h => handler'[g] = handler[g] /\ kill'[g] = kill[g]
        /\ dirty' \subseteq dirty /\ cached' \subseteq cached
    BY <1>0, <1>3, HandlerMoves
  <2>2. \A u : Admitted(u)' = Admitted(u)
    BY <2>1 DEF Admitted
  <2>3. handler[h].step \in {"removing", "drained"} =>
            /\ sess[handler[h].tunnel] = None
            /\ \A c \in Agents : agent[c].step = "validated" => agent[c].tunnel # handler[h].tunnel
    BY <2>1 DEF DeletesAlone, Running
  <2>4. handler'[h].step \in {"drained", "releasing"} =>
            /\ sess[t] = None
            /\ \A c \in Agents : agent[c].step = "validated" => agent[c].tunnel # t
            /\ handler'[h].step = "drained" => Admitted(t) = {} /\ t \notin dirty' \cup cached'
    BY <1>3, <2>3, HandlerMoves
  <2>5. handler'[h].step = "removing" =>
            /\ kill'[h].step = "cancel" /\ t \in kill'[h].batch
            /\ \A c \in Agents : agent[c].step # "validated"
    <3>1. handler'[h].step = "removing" =>
              attaching = None /\ kill'[h].step = "cancel" /\ t \in kill'[h].batch
      BY <1>3, HandlerMoves
    <3>2. attaching = None => \A c \in Agents : agent[c].step # "validated"
      BY GatewayAssumption DEF GatewayInv, Registered
    <3> QED BY <3>1, <3>2
  <2> HIDE DEF t
  <2>6. SUFFICES ASSUME NEW g \in Handlers, handler'[g].step \in {"removing", "drained", "releasing"}
                 PROVE  /\ \A c \in Agents : agent[c].step = "validated" => agent[c].tunnel # handler'[g].tunnel
                        /\ \/ sess[handler'[g].tunnel] = None
                           \/ /\ handler'[g].step = "removing"
                              /\ kill'[g].step \in {"cancel", "unmap"} /\ handler'[g].tunnel \in kill'[g].batch
                        /\ handler'[g].step = "drained" =>
                              /\ Admitted(handler'[g].tunnel) = {}
                              /\ handler'[g].tunnel \notin dirty' \cup cached'
    BY <2>1, <2>2 DEF DeletesAlone
  <2>7. CASE g = h
    BY <2>4, <2>5, <2>6, <2>7 DEF t
  <2>8. CASE g # h
    BY <2>1, <2>6, <2>8 DEF DeletesAlone
  <2> QED BY <2>7, <2>8
<1>4. ASSUME NEW x \in Threads, KillNext(x) PROVE DeletesAlone'
  <2>1. /\ UNCHANGED <<row, meterVars, handler>>
        /\ \A c \in Agents : agent'[c].step = agent[c].step /\ agent'[c].tunnel = agent[c].tunnel
        /\ \A r \in Requests : req'[r].step = req[r].step /\ req'[r].tunnel = req[r].tunnel
        /\ \A t \in Tunnels : sess'[t] \in {None, sess[t]}
    <3>1. CASE KillCancels(x)
      <4>1. \A r \in Requests : req'[r] = req[r] \/ req'[r] = [req[r] EXCEPT !.cancelled = TRUE]
        BY <3>1 DEF KillCancels
      <4> QED BY <1>0, <3>1, <4>1 DEF KillCancels, Request
    <3>2. CASE KillUnmaps(x)
      BY <1>0, <3>2 DEF KillUnmaps
    <3>3. CASE KillCloses(x)
      <4>1. \A c \in Agents : agent'[c] = agent[c] \/ agent'[c] = [agent[c] EXCEPT !.open = FALSE]
        BY <3>3 DEF KillCloses
      <4> QED BY <1>0, <3>3, <4>1 DEF KillCloses, Conn
    <3> QED BY <1>4, <3>1, <3>2, <3>3 DEF KillNext
  <2>2. \A t \in Tunnels : Admitted(t)' = Admitted(t)
    BY <2>1 DEF Admitted
  <2>3. \A h \in Handlers : kill[h].step \in {"cancel", "unmap"} =>
            \/ kill'[h].step \in {"cancel", "unmap"} /\ kill'[h].batch = kill[h].batch
            \/ \A t \in kill[h].batch : sess'[t] = None
    <3>1. CASE KillCancels(x)
      BY <1>0, <3>1 DEF KillCancels, Kill
    <3>2. CASE KillUnmaps(x)
      <4>1. \A t \in kill[x].batch : sess'[t] = None
        BY <1>0, <3>2 DEF KillUnmaps, Kill
      <4>2. \A h \in Threads : h # x => kill'[h] = kill[h]
        BY <1>0, <3>2 DEF KillUnmaps
      <4> QED BY <1>0, <4>1, <4>2
    <3>3. CASE KillCloses(x)
      BY <1>0, <3>3 DEF KillCloses
    <3> QED BY <1>4, <3>1, <3>2, <3>3 DEF KillNext
  <2> QED BY <2>1, <2>2, <2>3, AloneFrame DEF meterVars
<1>5. CASE \/ \E t \in Tunnels : DeviceDelete(t)
           \/ FlushTick \/ QueryFails \/ StopNext \/ UNCHANGED vars
  <2>1. UNCHANGED <<sess, agent, attaching>>
        /\ \A x \in Threads : kill[x].step # "none" => kill'[x] = kill[x]
    BY <1>5, RegistryRests, KillsKept
  <2>2. UNCHANGED handler /\ \A r \in Requests : req'[r].step = req[r].step /\ req'[r].tunnel = req[r].tunnel
    <3>1. CASE StopAdmission
      <4>1. \A r \in Requests : req'[r] = req[r] \/ req'[r] = [req[r] EXCEPT !.cancelled = TRUE]
        BY <3>1 DEF StopAdmission
      <4> QED BY <1>0, <3>1, <4>1 DEF StopAdmission, Request
    <3>2. CASE ~StopAdmission
      BY <1>5, <3>2 DEF DeviceDelete, FlushTick, QueryFails, StopNext, StopSessions, AwaitWatchers,
         AwaitHandlers, FinalFlush, vars
    <3> QED BY <3>1, <3>2
  <2>3. dirty' \subseteq dirty /\ cached' \subseteq cached
    <3>1. CASE FlushTick \/ FinalFlush
      <4>1. /\ dirty \subseteq Tunnels /\ stops \subseteq dirty /\ TypeOK
            /\ Worker \in Threads /\ Stopper \in Threads
        BY DEF GatewayInv, TypeOK, Threads
      <4> QED BY <3>1, <4>1, FlushIs DEF FlushTick, FinalFlush
    <3>2. CASE ~FlushTick /\ ~FinalFlush
      BY <1>5, <3>2 DEF DeviceDelete, QueryFails, StopNext, StopAdmission, StopSessions, AwaitWatchers,
         AwaitHandlers, vars, meterVars
    <3> QED BY <3>1, <3>2
  <2>4. \A t \in Tunnels : Admitted(t)' = Admitted(t)
    BY <2>2 DEF Admitted
  <2> QED BY <1>0, <2>1, <2>2, <2>3, <2>4, AloneFrame
<1>6. CASE Restart
  BY <1>6 DEF Restart, DeletesAlone, NoHandler
<1> QED BY <1>1, <1>2, <1>3, <1>4, <1>5, <1>6 DEF Next

\* A DELETE waits for the tunnel it is about to remove to have no session, no
\* request and no bytes, and keeps it that way until the row is gone.
THEOREM DeletesStayAlone == Spec => [](GatewayInv /\ DeletesAlone)
<1>1. Init => DeletesAlone
  BY DEF Init, DeletesAlone, NoHandler
<1>2. GatewayInv /\ DeletesAlone /\ [Next]_vars => DeletesAlone'
  BY StepAlone
<1> QED BY <1>1, <1>2, GatewayInvariant, PTL DEF Spec

\* How a row becomes "gone".
LEMMA RowGoes ==
  ASSUME GatewayInv, DeletesAlone, [Next]_vars,
         NEW t \in Tunnels, row[t] # "gone", row'[t] = "gone", ~DeviceDelete(t)
  PROVE  Admitted(t) = {} /\ t \notin dirty \cup cached
<1>0. TypeOK /\ dirty \subseteq Tunnels /\ stops \subseteq dirty /\ Worker \in Threads /\ Stopper \in Threads
  BY DEF GatewayInv, TypeOK, Threads
<1>1. CASE \E h \in Handlers : HandlerNext(h)
  <2>1. PICK h \in Handlers : HandlerNext(h)
    BY <1>1
  <2>2. handler[h].step = "drained" /\ t = handler[h].tunnel
    BY <2>1, HandlerMoves DEF Stopped, GatewayInv, Named
  <2> QED BY <2>2 DEF DeletesAlone
<1>2. CASE \E r \in Requests : RequestNext(r)
  BY <1>2, RequestMoves DEF Stopped
<1>3. CASE FlushTick \/ FinalFlush
  BY <1>0, <1>3, FlushIs DEF FlushTick, FinalFlush
<1>4. CASE \E u \in Tunnels : DeviceDelete(u)
  BY <1>4 DEF DeviceDelete, GatewayInv, TypeOK
<1>5. ASSUME UNCHANGED row PROVE FALSE
  BY <1>5
<1>6. ASSUME NEW c \in Agents, AgentNext(c) PROVE UNCHANGED row
  BY <1>6 DEF AgentNext, Connect, AttachValidates, AttachRefused, AttachRegisters, AttachRejected,
     CloseReplaced, SessionLost, Watch
<1>7. ASSUME NEW x \in Threads, KillNext(x) PROVE UNCHANGED row
  BY <1>7 DEF KillNext, KillCancels, KillUnmaps, KillCloses
<1>8. ASSUME (StopNext /\ ~FinalFlush) \/ QueryFails \/ Restart \/ UNCHANGED vars PROVE UNCHANGED row
  BY <1>8 DEF StopNext, StopAdmission, StopSessions, AwaitWatchers, AwaitHandlers, QueryFails, Restart, vars
<1> QED BY <1>1, <1>2, <1>3, <1>4, <1>5, <1>6, <1>7, <1>8 DEF Next

\* Unless a device goes, a row is removed only when no request of its tunnel is
\* live and the meter holds nothing of it (tunnels.go, deleteTunnel).
THEOREM DeletesAreDrained == ASSUME ~DeviceDeletes PROVE Spec => DeleteDrained
<1>1. ASSUME GatewayInv, DeletesAlone, [Next]_vars
      PROVE  \A t \in Tunnels : row[t] # "gone" /\ row'[t] = "gone" =>
                Admitted(t) = {} /\ t \notin dirty \cup cached
  <2>1. \A t \in Tunnels : ~DeviceDelete(t)
    BY DEF DeviceDelete
  <2> QED BY <1>1, <2>1, RowGoes
<1>2. [](GatewayInv /\ DeletesAlone) /\ [][Next]_vars => DeleteDrained
  BY <1>1, PTL DEF DeleteDrained
<1> QED BY <1>2, DeletesStayAlone, PTL DEF Spec

-----------------------------------------------------------------------------
(* SessionsJustified and QuotaStopSticks                                   *)

\* The rows a step of the gateway may change: a flush stops active ones, a PATCH
\* writes its own, a DELETE or a device removes some.
RowMoves ==
    \A t \in Tunnels : row'[t] # row[t] =>
        \/ \E x \in Threads : Stopped(t, x)
        \/ \E h \in Handlers :
              /\ handler[h].step = "loaded" /\ t = handler[h].tunnel
              /\ row[t] # "gone" /\ row'[t] = handler[h].status
              /\ handler'[h] = [handler[h] EXCEPT !.step = "committed"]
        \/ \E h \in Handlers : handler[h].step = "drained" /\ t = handler[h].tunnel /\ row'[t] = "gone"
        \/ DeviceDeletes /\ row'[t] = "gone"

\* A PATCH that has written "disabled" ends in the Kill of its tunnel.
ForgetKept ==
    \A h \in Handlers : handler[h].step \in {"committed", "called"} /\ handler[h].status = "disabled" =>
        \/ /\ handler'[h].step \in {"committed", "called"}
           /\ handler'[h].tunnel = handler[h].tunnel /\ handler'[h].status = "disabled"
        \/ kill'[h].step = "cancel" /\ handler[h].tunnel \in kill'[h].batch \cup kill'[h].rest

LEMMA RowsMove ==
  ASSUME GatewayInv,
         \/ \E c \in Agents : AgentNext(c)
         \/ \E x \in Threads : KillNext(x)
         \/ \E r \in Requests : RequestNext(r)
         \/ \E h \in Handlers : HandlerNext(h)
         \/ \E t \in Tunnels : DeviceDelete(t)
         \/ FlushTick \/ QueryFails \/ StopNext \/ UNCHANGED vars
  PROVE  RowMoves /\ ForgetKept
<1>0. /\ TypeOK /\ dirty \subseteq Tunnels /\ stops \subseteq dirty /\ kill \in [Threads -> Kill]
      /\ row \in [Tunnels -> Statuses]
      /\ Worker \in Threads /\ Stopper \in Threads
      /\ Requests \subseteq Threads /\ Handlers \subseteq Threads
  BY DEF GatewayInv, TypeOK, Threads
<1>1. ASSUME NEW h \in Handlers, HandlerNext(h) PROVE RowMoves /\ ForgetKept
  <2>1. RowMoves
    BY <1>0, <1>1, HandlerMoves DEF RowMoves
  <2>2. ForgetKept
    BY <1>1, HandlerMoves DEF ForgetKept
  <2> QED BY <2>1, <2>2
<1>2. ASSUME UNCHANGED handler PROVE ForgetKept
  BY <1>2 DEF ForgetKept
<1>3. ASSUME UNCHANGED <<row, handler>> PROVE RowMoves /\ ForgetKept
  BY <1>2, <1>3 DEF RowMoves
<1>4. ASSUME NEW r \in Requests, RequestNext(r) PROVE RowMoves /\ ForgetKept
  BY <1>0, <1>2, <1>4, RequestMoves DEF RowMoves
<1>5. ASSUME FlushTick \/ FinalFlush PROVE RowMoves /\ ForgetKept
  <2>1. PICK x \in {Worker, Stopper} : Flush(x, dirty, stops, ActiveIn(req), FALSE) /\ UNCHANGED handler
    BY <1>5 DEF FlushTick, FinalFlush
  <2>2. x \in Threads
    BY <1>0
  <2>3. PICK next : /\ Fresh(next) /\ kill' = [kill EXCEPT ![x] = next]
                    /\ \A t \in Tunnels : row'[t] # row[t] =>
                          /\ row[t] = "active" /\ row'[t] = "quota_exceeded"
                          /\ next.step = "cancel" /\ t \in next.batch \cup next.rest
    BY <1>0, <2>1, <2>2, FlushIs
  <2>4. \A t \in Tunnels : row'[t] # row[t] => Stopped(t, x)
    BY <1>0, <2>2, <2>3 DEF Stopped
  <2> QED BY <1>2, <2>1, <2>2, <2>4 DEF RowMoves
<1>6. ASSUME NEW t \in Tunnels, DeviceDelete(t) PROVE RowMoves /\ ForgetKept
  <2>1. DeviceDeletes /\ UNCHANGED handler /\ row' = [row EXCEPT ![t] = "gone"]
    BY <1>6 DEF DeviceDelete
  <2> QED BY <1>0, <1>2, <2>1 DEF RowMoves
<1>7. ASSUME NEW c \in Agents, AgentNext(c) PROVE UNCHANGED <<row, handler>>
  BY <1>7 DEF AgentNext, Connect, AttachValidates, AttachRefused, AttachRegisters, AttachRejected,
     CloseReplaced, SessionLost, Watch
<1>8. ASSUME NEW x \in Threads, KillNext(x) PROVE UNCHANGED <<row, handler>>
  BY <1>8 DEF KillNext, KillCancels, KillUnmaps, KillCloses
<1>9. ASSUME (StopNext /\ ~FinalFlush) \/ QueryFails \/ UNCHANGED vars
      PROVE  UNCHANGED <<row, handler>>
  BY <1>9 DEF StopNext, StopAdmission, StopSessions, AwaitWatchers, AwaitHandlers, QueryFails, vars
<1> QED BY <1>1, <1>3, <1>4, <1>5, <1>6, <1>7, <1>8, <1>9

\* Where no Kill is cut short, what will be killed will be.
LEMMA KillsStillCome ==
  ASSUME ForgetKept, NEW t \in Tunnels,
         \A x \in Threads : t \in kill[x].rest =>
            t \in kill'[x].rest \/ (t \in kill'[x].batch /\ kill'[x].step = "cancel")
  PROVE  /\ /\ KillComing(t)
            /\ \A x \in Threads : t \in kill[x].batch /\ kill[x].step \in {"cancel", "unmap"} =>
                  t \in kill'[x].batch /\ kill'[x].step \in {"cancel", "unmap"}
            => KillComing(t)'
         /\ /\ KillAhead(t)
            /\ \A x \in Threads : t \in kill[x].batch /\ kill[x].step = "cancel" =>
                  t \in kill'[x].batch /\ kill'[x].step = "cancel"
            => KillAhead(t)'
<1>1. Handlers \subseteq Threads
  BY DEF Threads
<1> QED BY <1>1 DEF KillComing, KillAhead, ForgetKept

\* Sessions stay accounted for where none is registered and no Kill makes progress.
LEMMA AccountedFrame ==
  ASSUME GatewayInv, DeletesAlone, SessionsAccounted, RowMoves, ForgetKept,
         \A x \in Threads : kill[x].step # "none" => kill'[x] = kill[x],
         \A t \in Tunnels : sess'[t] # None => sess[t] # None,
         \A c \in Agents : agent'[c].step = "validated" =>
            /\ agent[c].step = "validated" \/ row'[agent[c].tunnel] = "active"
            /\ agent'[c].tunnel = agent[c].tunnel
  PROVE  SessionsAccounted'
<1>1. \A x \in Threads : kill[x].step = "none" => kill[x].rest = {} /\ kill[x].batch = {}
  BY DEF GatewayInv, OneKillEach, Running, NoKill
<1>2. \A t \in Tunnels : KillComing(t) => KillComing(t)'
  BY <1>1, KillsStillCome
<1>3. \A t \in Tunnels : KillAhead(t) => KillAhead(t)'
  BY <1>1, KillsStillCome
<1>4. \A t \in Tunnels : KillAhead(t) => KillComing(t)
  BY DEF KillAhead, KillComing
<1>5. \A t \in Tunnels : row'[t] = row[t] => (Slipped(t) => Slipped(t)')
  BY DEF Slipped
<1>6. ASSUME NEW t \in Tunnels, row'[t] # row[t], row'[t] # "active"
      PROVE  \/ KillAhead(t)' \/ Slipped(t)'
             \/ /\ sess[t] = None
                /\ \A c \in Agents : agent[c].step = "validated" => agent[c].tunnel # t
  <2>1. CASE \E x \in Threads : Stopped(t, x)
    BY <2>1 DEF Stopped, KillAhead
  <2>2. ASSUME NEW h \in Handlers, handler[h].step = "loaded", t = handler[h].tunnel,
               row[t] # "gone", row'[t] = handler[h].status,
               handler'[h] = [handler[h] EXCEPT !.step = "committed"]
        PROVE  KillAhead(t)' \/ Slipped(t)'
    <3>1. /\ handler'[h].step = "committed" /\ handler'[h].tunnel = t
          /\ handler'[h].status = handler[h].status /\ handler[h].status \in Statuses
          /\ handler[h].status # "gone"
          /\ "keep" \notin StatusFields => handler[h].status \in {"active", "disabled"}
      BY <2>2 DEF GatewayInv, TypeOK, Named, Handler
    <3>2. CASE handler[h].status = "disabled"
      BY <3>1, <3>2 DEF KillAhead
    <3>3. CASE handler[h].status = "quota_exceeded"
      BY <2>2, <3>1, <3>3 DEF Slipped
    <3> QED BY <1>6, <2>2, <3>1, <3>2, <3>3 DEF Statuses
  <2>3. CASE \E h \in Handlers : handler[h].step = "drained" /\ t = handler[h].tunnel
    BY <2>3 DEF DeletesAlone
  <2>4. CASE DeviceDeletes /\ row'[t] = "gone"
    BY <2>4 DEF Slipped
  <2> QED BY <1>6, <2>1, <2>2, <2>3, <2>4 DEF RowMoves
<1>7. \A t \in Tunnels : KillAhead(t)' => KillComing(t)'
  BY DEF KillAhead, KillComing
<1>8. \A t \in Tunnels : sess'[t] # None /\ row'[t] # "active" => KillComing(t)' \/ Slipped(t)'
  BY <1>2, <1>5, <1>6, <1>7 DEF SessionsAccounted
<1>9. ASSUME NEW c \in Agents, agent'[c].step = "validated", row'[agent'[c].tunnel] # "active"
      PROVE  \E t \in Tunnels : t = agent'[c].tunnel /\ (KillAhead(t)' \/ Slipped(t)')
  <2>1. PICK t \in Tunnels : t = agent'[c].tunnel /\ t = agent[c].tunnel /\ agent[c].step = "validated"
    BY <1>9 DEF GatewayInv, Named
  <2>2. row[t] # "active" => KillAhead(t) \/ Slipped(t)
    BY <2>1 DEF SessionsAccounted
  <2> QED BY <1>3, <1>5, <1>6, <1>9, <2>1, <2>2
<1>10. \A c \in Agents : agent'[c].step = "validated" /\ row'[agent'[c].tunnel] # "active" =>
          KillAhead(agent[c].tunnel)' \/ Slipped(agent[c].tunnel)'
  BY <1>9 DEF KillAhead, Slipped
<1> QED BY <1>8, <1>10 DEF SessionsAccounted

LEMMA StepAccounted ==
  ASSUME GatewayInv, DeletesAlone, SessionsAccounted, [Next]_vars PROVE SessionsAccounted'
<1>0. /\ kill \in [Threads -> Kill] /\ agent \in [Agents -> Conn]
      /\ sess \in [Tunnels -> Agents \cup {None}] /\ None \notin Agents
  BY GatewayAssumption DEF GatewayInv, TypeOK
<1>1. ASSUME NEW c \in Agents, AgentNext(c) PROVE SessionsAccounted'
  <2>1. RowMoves /\ ForgetKept
    BY <1>1, RowsMove
  <2>2. UNCHANGED <<row, handler, kill>>
    BY <1>1 DEF AgentNext, Connect, AttachValidates, AttachRefused, AttachRegisters, AttachRejected,
       CloseReplaced, SessionLost, Watch
  <2>3. CASE AttachRegisters(c)
    <3>1. \A b \in Agents : agent'[b].step # "validated"
      <4>1. /\ \A b \in Agents : \/ b # c /\ agent'[b] = agent[b]
                                 \/ agent'[b] = [agent[b] EXCEPT !.step = "attached"]
                                 \/ agent'[b] = [agent[b] EXCEPT !.step = "replaced"]
            /\ agent[c].step = "validated"
        BY <2>3 DEF AttachRegisters
      <4>2. \A b \in Agents : b # c => agent[b].step # "validated"
        BY <4>1 DEF GatewayInv, Registered
      <4> QED BY <1>0, <4>1, <4>2 DEF Conn
    <3>2. \A t \in Tunnels : KillAhead(t) => KillComing(t)
      BY DEF KillAhead, KillComing
    <3>3. \A t \in Tunnels : (KillComing(t) => KillComing(t)') /\ (Slipped(t) => Slipped(t)')
      BY <2>2 DEF KillComing, Slipped
    <3>4. \A t \in Tunnels : sess'[t] # None => sess[t] # None \/ (t = agent[c].tunnel /\ agent[c].step = "validated")
      BY <1>0, <2>3 DEF AttachRegisters
    <3>5. \A t \in Tunnels : sess'[t] # None /\ row'[t] # "active" => KillComing(t)' \/ Slipped(t)'
      BY <2>2, <3>2, <3>3, <3>4 DEF SessionsAccounted
    <3> QED BY <3>1, <3>5 DEF SessionsAccounted
  <2>4. ASSUME NEW a \in Conn, agent' = [agent EXCEPT ![c] = a],
               a.step = "validated" => /\ agent[c].step = "validated" \/ row[agent[c].tunnel] = "active"
                                       /\ a.tunnel = agent[c].tunnel,
               \A t \in Tunnels : sess'[t] # None => sess[t] # None
        PROVE  SessionsAccounted'
    <3>1. \A b \in Agents : agent'[b].step = "validated" =>
            /\ agent[b].step = "validated" \/ row'[agent[b].tunnel] = "active"
            /\ agent'[b].tunnel = agent[b].tunnel
      BY <1>0, <2>2, <2>4
    <3> QED BY <2>1, <2>2, <2>4, <3>1, AccountedFrame
  <2>5. CASE AttachRefused(c) \/ AttachRejected(c) \/ Watch(c)
    <3>1. agent' = [agent EXCEPT ![c] = NoConn] /\ \A t \in Tunnels : sess'[t] # None => sess[t] # None
      BY <2>5 DEF AttachRefused, AttachRejected, Watch
    <3> QED BY <2>4, <3>1, NoConnIs
  <2>6. CASE CloseReplaced(c) \/ SessionLost(c)
    <3> DEFINE a == [agent[c] EXCEPT !.open = FALSE]
    <3>1. a \in Conn /\ a.step = agent[c].step /\ a.tunnel = agent[c].tunnel
      BY ConnIs
    <3>2. agent' = [agent EXCEPT ![c] = a] /\ UNCHANGED sess
      BY <2>6 DEF CloseReplaced, SessionLost
    <3> HIDE DEF a
    <3> QED BY <2>4, <3>1, <3>2
  <2>7. CASE AttachValidates(c)
    <3>1. [agent[c] EXCEPT !.step = "validated"] \in Conn
          /\ [agent[c] EXCEPT !.step = "validated"].tunnel = agent[c].tunnel
      BY ConnIs
    <3> QED BY <2>4, <2>7, <3>1 DEF AttachValidates
  <2>8. ASSUME NEW t \in Tunnels, Connect(c, t) PROVE SessionsAccounted'
    <3> DEFINE a == [step |-> "handshake", tunnel |-> t, open |-> TRUE]
    <3>1. a \in Conn /\ a.step = "handshake"
      BY DEF Conn
    <3>2. agent' = [agent EXCEPT ![c] = a] /\ UNCHANGED sess
      BY <2>8 DEF Connect
    <3> HIDE DEF a
    <3> QED BY <2>4, <3>1, <3>2
  <2> QED BY <1>1, <2>3, <2>5, <2>6, <2>7, <2>8 DEF AgentNext
<1>2. ASSUME \/ \E r \in Requests : RequestNext(r) /\ ~OpenInterrupted(r)
             \/ \E h \in Handlers : HandlerNext(h)
             \/ \E t \in Tunnels : DeviceDelete(t)
             \/ FlushTick \/ QueryFails \/ StopNext \/ UNCHANGED vars
      PROVE  SessionsAccounted'
  <2>1. UNCHANGED <<sess, agent, attaching>> /\ RowMoves /\ ForgetKept
        /\ \A x \in Threads : kill[x].step # "none" => kill'[x] = kill[x]
    BY <1>2, RegistryRests, KillsKept, RowsMove
  <2> QED BY <2>1, AccountedFrame
<1>3. ASSUME NEW r \in Requests, OpenInterrupted(r) PROVE SessionsAccounted'
  <2>1. RowMoves /\ ForgetKept
    BY <1>3, RowsMove DEF RequestNext
  <2>2. \A c \in Agents : agent'[c].step = agent[c].step /\ agent'[c].tunnel = agent[c].tunnel
    BY <1>0, <1>3 DEF OpenInterrupted, Conn
  <2>3. UNCHANGED <<sess, kill>>
    BY <1>3 DEF OpenInterrupted
  <2> QED BY <2>1, <2>2, <2>3, AccountedFrame
<1>4. ASSUME NEW x \in Threads, KillNext(x) PROVE SessionsAccounted'
  <2>0. UNCHANGED <<row, handler>> /\ RowMoves /\ ForgetKept /\ kill[x] \in Kill
        /\ kill[x].rest \subseteq Tunnels
    BY <1>0, <1>4, RowsMove DEF KillNext, KillCancels, KillUnmaps, KillCloses, Kill
  <2>1. CASE KillCancels(x)
    <3>1. \A c \in Agents : agent[c].step # "validated"
      BY <1>0, <2>1 DEF KillCancels, AdmissionFree, GatewayInv, Registered
    <3>2. /\ kill'[x].step = "unmap" /\ kill'[x].batch = kill[x].batch /\ kill'[x].rest = kill[x].rest
          /\ \A y \in Threads : y # x => kill'[y] = kill[y]
          /\ UNCHANGED <<sess, agent>>
      BY <1>0, <2>0, <2>1 DEF KillCancels, Kill
    <3>3. \A t \in Tunnels : KillComing(t) => KillComing(t)'
      BY <2>0, <3>2, KillsStillCome
    <3>4. \A t \in Tunnels : Slipped(t) => Slipped(t)'
      BY <2>0 DEF Slipped
    <3> QED BY <2>0, <3>1, <3>2, <3>3, <3>4 DEF SessionsAccounted
  <2>2. CASE KillUnmaps(x)
    <3>1. /\ kill'[x].step = "close" /\ kill'[x].rest = kill[x].rest /\ kill[x].step = "unmap"
          /\ \A y \in Threads : y # x => kill'[y] = kill[y]
          /\ UNCHANGED agent
          /\ \A t \in Tunnels : sess'[t] = IF t \in kill[x].batch THEN None ELSE sess[t]
      BY <1>0, <2>0, <2>2 DEF KillUnmaps, Kill
    <3>2. \A t \in Tunnels : sess'[t] # None => (KillComing(t) => KillComing(t)')
      BY <2>0, <3>1, KillsStillCome
    <3>3. \A t \in Tunnels : KillAhead(t) => KillAhead(t)'
      BY <2>0, <3>1, KillsStillCome
    <3>4. \A t \in Tunnels : Slipped(t) => Slipped(t)'
      BY <2>0 DEF Slipped
    <3>5. \A c \in Agents : agent[c].step = "validated" => agent[c].tunnel \in Tunnels
      BY DEF GatewayInv, Named
    <3>6. \A t \in Tunnels : sess'[t] # None /\ row'[t] # "active" => KillComing(t)' \/ Slipped(t)'
      BY <2>0, <3>1, <3>2, <3>4 DEF SessionsAccounted
    <3>7. ASSUME NEW c \in Agents, agent[c].step = "validated", row[agent[c].tunnel] # "active",
                 NEW t \in Tunnels, t = agent[c].tunnel
          PROVE  KillAhead(t)' \/ Slipped(t)'
      BY <3>3, <3>4, <3>7 DEF SessionsAccounted
    <3>8. \A c \in Agents : agent'[c].step = "validated" /\ row'[agent'[c].tunnel] # "active" =>
            KillAhead(agent[c].tunnel)' \/ Slipped(agent[c].tunnel)'
      BY <2>0, <3>1, <3>5, <3>7 DEF KillAhead, Slipped
    <3> QED BY <3>6, <3>8 DEF SessionsAccounted
  <2>3. CASE KillCloses(x)
    <3>1. PICK next \in KillEach(kill[x].rest) : kill' = [kill EXCEPT ![x] = next]
      BY <2>3 DEF KillCloses
    <3>2. \A t \in kill[x].rest : next.step = "cancel" /\ t \in next.batch \cup next.rest
      BY <2>0, <3>1, KillEachIs
    <3>3. /\ UNCHANGED sess /\ kill[x].step = "close" /\ kill'[x] = next
          /\ \A y \in Threads : y # x => kill'[y] = kill[y]
          /\ \A c \in Agents : agent'[c].step = agent[c].step /\ agent'[c].tunnel = agent[c].tunnel
      <4>1. \A c \in Agents : agent'[c] = agent[c] \/ agent'[c] = [agent[c] EXCEPT !.open = FALSE]
        BY <2>3 DEF KillCloses
      <4> QED BY <1>0, <2>3, <3>1, <4>1 DEF KillCloses, Conn
    <3>4. \A t \in Tunnels : (KillComing(t) => KillComing(t)') /\ (KillAhead(t) => KillAhead(t)')
      BY <2>0, <3>2, <3>3, KillsStillCome
    <3>5. \A t \in Tunnels : Slipped(t) => Slipped(t)'
      BY <2>0 DEF Slipped
    <3>6. \A t \in Tunnels : sess'[t] # None /\ row'[t] # "active" => KillComing(t)' \/ Slipped(t)'
      BY <2>0, <3>3, <3>4, <3>5 DEF SessionsAccounted
    <3>7. ASSUME NEW c \in Agents, agent'[c].step = "validated", row'[agent'[c].tunnel] # "active"
          PROVE  \E t \in Tunnels : t = agent'[c].tunnel /\ (KillAhead(t)' \/ Slipped(t)')
      <4>1. PICK t \in Tunnels : t = agent'[c].tunnel /\ t = agent[c].tunnel /\ agent[c].step = "validated"
        BY <3>3, <3>7 DEF GatewayInv, Named
      <4> QED BY <2>0, <3>4, <3>5, <3>7, <4>1 DEF SessionsAccounted
    <3>8. \A c \in Agents : agent'[c].step = "validated" /\ row'[agent'[c].tunnel] # "active" =>
            KillAhead(agent[c].tunnel)' \/ Slipped(agent[c].tunnel)'
      BY <3>7 DEF KillAhead, Slipped
    <3> QED BY <3>6, <3>8 DEF SessionsAccounted
  <2> QED BY <1>4, <2>1, <2>2, <2>3 DEF KillNext
<1>5. CASE Restart
  BY <1>5, NoConnIs DEF Restart, SessionsAccounted
<1> QED BY <1>1, <1>2, <1>3, <1>4, <1>5 DEF Next

\* Every session of a tunnel that is not active any more is about to be killed,
\* or the row slipped past it in one of the two ways Slipped names.
THEOREM SessionsAreAccounted == Spec => []SessionsAccounted
<1>1. Init => SessionsAccounted
  BY NoConnIs DEF Init, SessionsAccounted
<1>2. GatewayInv /\ DeletesAlone /\ SessionsAccounted /\ [Next]_vars => SessionsAccounted'
  BY StepAccounted
<1> QED BY <1>1, <1>2, DeletesStayAlone, PTL DEF Spec

\* Without deleted devices, and without PATCHes that repeat the status they read,
\* an Attach that races a change of its row never slips past it (gateway.go).
THEOREM SessionsAreJustified ==
  ASSUME "keep" \notin StatusFields, ~DeviceDeletes PROVE Spec => []SessionsJustified
<1>1. SessionsAccounted => SessionsJustified
  BY DEF SessionsAccounted, SessionsJustified, Slipped
<1> QED BY <1>1, SessionsAreAccounted, PTL

-----------------------------------------------------------------------------
(* ShutdownQuiet                                                           *)

LEMMA StepDrain ==
  ASSUME GatewayInv, DrainQuiet, [Next]_vars PROVE DrainQuiet'
<1>0. /\ kill \in [Threads -> Kill] /\ agent \in [Agents -> Conn] /\ req \in [Requests -> Request]
      /\ Worker \in Threads /\ Stopper \in Threads /\ Handlers \subseteq Threads
      /\ Stopper \notin Handlers /\ Stopper # Worker
      /\ TypeOK /\ dirty \subseteq Tunnels /\ stops \subseteq dirty
  BY GatewayAssumption DEF GatewayInv, TypeOK, Threads
<1>1. ASSUME UNCHANGED <<life, handler>>,
             \A c \in Agents : agent'[c].step = agent[c].step,
             life \in {"draining", "done"} =>
                /\ \A r \in Requests : req'[r].step = req[r].step
                /\ \A x \in Threads : Running(x) => kill'[x] = kill[x],
             life = "done" => dirty' = dirty /\ (failure => failure')
      PROVE  DrainQuiet'
  BY <1>0, <1>1 DEF DrainQuiet, Running
<1>2. ASSUME NEW c \in Agents, AgentNext(c) PROVE DrainQuiet'
  <2>1. UNCHANGED <<row, meterVars, req, handler, kill, life>>
    BY <1>2 DEF AgentNext, Connect, AttachValidates, AttachRefused, AttachRegisters, AttachRejected,
       CloseReplaced, SessionLost, Watch
  <2>2. life \in {"waiting", "draining", "done"} =>
            \A b \in Agents : /\ agent'[b].step \notin {"attached", "replaced"}
                              /\ agent[b].step = "idle" => agent'[b].step = "idle"
    <3>1. ASSUME life \in {"waiting", "draining", "done"}, NEW a \in Conn, agent' = [agent EXCEPT ![c] = a],
                 a.step \notin {"attached", "replaced"} \/ a.step = agent[c].step,
                 agent[c].step = "idle" => a.step = "idle"
          PROVE  \A b \in Agents : /\ agent'[b].step \notin {"attached", "replaced"}
                                   /\ agent[b].step = "idle" => agent'[b].step = "idle"
      BY <1>0, <3>1 DEF DrainQuiet
    <3>2. CASE AttachRefused(c) \/ AttachRejected(c) \/ Watch(c)
      <4>1. agent' = [agent EXCEPT ![c] = NoConn]
        BY <3>2 DEF AttachRefused, AttachRejected, Watch
      <4> QED BY <3>1, <4>1, NoConnIs
    <3>3. CASE CloseReplaced(c) \/ SessionLost(c)
      <4> DEFINE a == [agent[c] EXCEPT !.open = FALSE]
      <4>1. a \in Conn /\ a.step = agent[c].step
        BY ConnIs
      <4>2. agent' = [agent EXCEPT ![c] = a]
        BY <3>3 DEF CloseReplaced, SessionLost
      <4> HIDE DEF a
      <4> QED BY <3>1, <4>1, <4>2
    <3>4. CASE AttachValidates(c)
      <4> DEFINE a == [agent[c] EXCEPT !.step = "validated"]
      <4>1. a \in Conn /\ a.step = "validated"
        BY ConnIs
      <4>2. agent' = [agent EXCEPT ![c] = a] /\ agent[c].step = "handshake"
        BY <3>4 DEF AttachValidates
      <4> HIDE DEF a
      <4> QED BY <3>1, <4>1, <4>2
    <3>5. CASE AttachRegisters(c) \/ \E t \in Tunnels : Connect(c, t)
      BY <3>5 DEF AttachRegisters, Closing, Connect
    <3> QED BY <1>2, <3>2, <3>3, <3>4, <3>5 DEF AgentNext
  <2> QED BY <2>1, <2>2 DEF DrainQuiet, meterVars, Running
<1>3. ASSUME NEW r \in Requests, RequestNext(r) PROVE DrainQuiet'
  <2>1. UNCHANGED <<life, handler>> /\ (req[r].step = "idle" => life = "run")
    BY <1>3, RequestMoves
  <2>2. life \notin {"draining", "done"}
    BY <2>1 DEF DrainQuiet
  <2>3. \A c \in Agents : agent'[c].step = agent[c].step
    <3>1. CASE OpenInterrupted(r)
      BY <1>0, <3>1 DEF OpenInterrupted, Conn
    <3>2. CASE ~OpenInterrupted(r)
      BY <1>3, <3>2, RegistryRests
    <3> QED BY <3>1, <3>2
  <2> QED BY <1>1, <2>1, <2>2, <2>3
<1>4. ASSUME NEW h \in Handlers, HandlerNext(h) PROVE DrainQuiet'
  <2>1. UNCHANGED <<life, agent>> /\ (handler[h].step = "idle" => life = "run")
    BY <1>4, HandlerMoves
  <2>2. life \notin {"draining", "done"}
    BY <2>1 DEF DrainQuiet
  <2> QED BY <2>1, <2>2 DEF DrainQuiet
<1>5. ASSUME NEW x \in Threads, KillNext(x) PROVE DrainQuiet'
  <2>1. UNCHANGED <<row, meterVars, handler, life>>
    BY <1>5 DEF KillNext, KillCancels, KillUnmaps, KillCloses
  <2>2. \A c \in Agents : agent'[c].step = agent[c].step
    <3>1. \A c \in Agents : agent'[c] = agent[c] \/ agent'[c] = [agent[c] EXCEPT !.open = FALSE]
      BY <1>5 DEF KillNext, KillCancels, KillUnmaps, KillCloses
    <3> QED BY <1>0, <3>1 DEF Conn
  <2>3. \A r \in Requests : req'[r].step = req[r].step
    <3>1. \A r \in Requests : req'[r] = req[r] \/ req'[r] = [req[r] EXCEPT !.cancelled = TRUE]
      BY <1>5 DEF KillNext, KillCancels, KillUnmaps, KillCloses
    <3> QED BY <1>0, <3>1 DEF Request
  <2>4. \A y \in Threads : Running(y) => kill'[y] = kill[y]
    BY <1>0, <1>5 DEF KillNext, KillCancels, KillUnmaps, KillCloses, Running
  <2> QED BY <1>1, <2>1, <2>2, <2>3, <2>4 DEF meterVars
<1>6. ASSUME (\E t \in Tunnels : DeviceDelete(t)) \/ QueryFails \/ UNCHANGED vars PROVE DrainQuiet'
  BY <1>1, <1>6 DEF DeviceDelete, QueryFails, vars, meterVars
<1>7. CASE FlushTick \/ StopAdmission \/ StopSessions \/ Restart
  BY <1>7 DEF FlushTick, StopAdmission, StopSessions, Restart, DrainQuiet
<1>8. CASE AwaitWatchers \/ AwaitHandlers
  BY <1>8 DEF AwaitWatchers, AwaitHandlers, DrainQuiet, Running
<1>9. CASE FinalFlush
  <2>1. dirty' = {} \/ failure'
    BY <1>0, <1>9, FlushIs DEF FinalFlush
  <2>2. PICK next : kill' = [kill EXCEPT ![Stopper] = next]
    BY <1>0, <1>9, FlushIs DEF FinalFlush
  <2>3. kill'[Worker] = kill[Worker] /\ \A h \in Handlers : kill'[h] = kill[h]
    BY <1>0, <2>2
  <2> QED BY <1>9, <2>1, <2>3 DEF FinalFlush, DrainQuiet, Running
<1> QED BY <1>2, <1>3, <1>4, <1>5, <1>6, <1>7, <1>8, <1>9 DEF Next, StopNext

\* Once the drain has waited for the watchers no session registers again, and
\* when its last flush is done nobody is left to touch the database.
THEOREM ShutdownStaysQuiet == Spec => []ShutdownQuiet
<1>1. Init => DrainQuiet
  BY DEF Init, DrainQuiet
<1>2. GatewayInv /\ DrainQuiet /\ [Next]_vars => DrainQuiet'
  BY StepDrain
<1>3. GatewayInv /\ DrainQuiet => ShutdownQuiet
  <2>1. life = "done" /\ GatewayInv => \A r \in Requests : req[r].step = "idle" => Running(r)
    BY DEF GatewayInv, OneKillEach, KillingSteps
  <2> QED BY <2>1 DEF DrainQuiet, ShutdownQuiet, Threads
<1> QED BY <1>1, <1>2, <1>3, GatewayInvariant, PTL DEF Spec
=============================================================================
