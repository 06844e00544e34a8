------------------------------ MODULE AgentLink ------------------------------
(***************************************************************************)
(* The agent's side of the tunnels (internal/tunnel/agent.go) and the loop *)
(* that drives it: heartbeats bring the controller's tunnel list, Reconcile*)
(* starts and cancels one goroutine per tunnel, and each goroutine dials,  *)
(* serves and redials until it is cancelled.  The gateway is TunnelGateway *)
(* seen from outside: a handshake, a registry of one session per tunnel,   *)
(* and Kill, each in one step.                                             *)
(*                                                                         *)
(* A link is one WebSocket with the yamux session on it.  Its two ends     *)
(* fail separately: `open` is the controller's end, `agent` the agent's.   *)
(***************************************************************************)
EXTENDS Naturals, FiniteSets

CONSTANTS
    Tunnels,    \* tunnels of this device
    Targets,    \* local services a tunnel can name
    Allowed,    \* those inside the agent's dial policy
    Runs,       \* identities of run goroutines
    Links,      \* identities of connections
    None,       \* no target, no goroutine, no connection
    AgentSlots, \* capacity of agentSlots
    MaxEdits,   \* bound on the owner's edits
    MaxFaults   \* bound on lost connections, failed queries and restarts

ASSUME LinkAssumption ==
    /\ Allowed \subseteq Targets
    /\ None \notin Targets \cup Runs \cup Links
    /\ AgentSlots \in Nat \ {0} /\ MaxEdits \in Nat /\ MaxFaults \in Nat

VARIABLES
    row,    \* the target of each active tunnel row; None if it is not active
    beat,   \* the tunnel list of an answered heartbeat, waiting for Reconcile
    conns,  \* Client.conns: the goroutine of each wanted tunnel
    run,    \* the run goroutines
    link,   \* the connections
    sess,   \* Gateway.sess
    edits,  \* edits made so far
    faults  \* faults so far

vars == <<row, beat, conns, run, link, sess, edits, faults>>
bounds == <<edits, faults>>

List == [Tunnels -> Targets \cup {None}]
NoList == [answered |-> FALSE, list |-> [t \in Tunnels |-> None]]

Run == [step: {"free", "dialing", "serving", "waiting"}, tunnel: Tunnels \cup {None},
        target: Targets \cup {None}, cancelled: BOOLEAN, link: Links \cup {None}]
NoRun == [step |-> "free", tunnel |-> None, target |-> None, cancelled |-> FALSE, link |-> None]

Link == [step: {"idle", "handshake", "registered"}, tunnel: Tunnels \cup {None},
         open: BOOLEAN, agent: BOOLEAN]
NoLink == [step |-> "idle", tunnel |-> None, open |-> FALSE, agent |-> FALSE]

Init ==
    /\ row \in List
    /\ beat = NoList
    /\ conns = [t \in Tunnels |-> None]
    /\ run = [r \in Runs |-> NoRun]
    /\ link = [l \in Links |-> NoLink]
    /\ sess = [t \in Tunnels |-> None]
    /\ edits = 0 /\ faults = 0

Fault == faults < MaxFaults /\ faults' = faults + 1

-----------------------------------------------------------------------------
(* The controller                                                          *)

\* The owner changes a row.  A tunnel that stops being active is killed, one
\* whose target changes keeps its session until the agent hears of it.
OwnerEdits(t, target) ==
    /\ edits < MaxEdits
    /\ row[t] # target
    /\ edits' = edits + 1
    /\ row' = [row EXCEPT ![t] = target]
    /\ sess' = IF target = None THEN [sess EXCEPT ![t] = None] ELSE sess
    /\ link' = IF target = None /\ sess[t] # None THEN [link EXCEPT ![sess[t]].open = FALSE] ELSE link
    /\ UNCHANGED <<beat, conns, run, faults>>

\* handleAgentHeartbeat lists the device's active tunnels.
HeartbeatAnswered ==
    /\ ~beat.answered
    /\ beat' = [answered |-> TRUE, list |-> row]
    /\ UNCHANGED <<row, conns, run, link, sess, bounds>>

\* A failed query or scan only shortens the list of an answer that says ok.
HeartbeatTruncated ==
    /\ ~beat.answered
    /\ Fault
    /\ \E lost \in SUBSET Tunnels \ {{}} :
          beat' = [answered |-> TRUE, list |-> [t \in Tunnels |-> IF t \in lost THEN None ELSE row[t]]]
    /\ UNCHANGED <<row, conns, run, link, sess, edits>>

\* Attach; the session it replaces is closed by a goroutine of its own.
Attach(l) ==
    /\ link[l].step = "handshake"
    /\ row[link[l].tunnel] # None
    /\ link' = [link EXCEPT ![l].step = "registered"]
    /\ sess' = [sess EXCEPT ![link[l].tunnel] = l]
    /\ UNCHANGED <<row, beat, conns, run, bounds>>

AttachRefused(l) ==
    /\ link[l].step = "handshake"
    /\ row[link[l].tunnel] = None
    /\ link' = [link EXCEPT ![l].step = "idle", ![l].open = FALSE]
    /\ UNCHANGED <<row, beat, conns, run, sess, bounds>>

CloseReplaced(l) ==
    /\ link[l].step = "registered" /\ link[l].open
    /\ sess[link[l].tunnel] # l
    /\ link' = [link EXCEPT ![l].open = FALSE]
    /\ UNCHANGED <<row, beat, conns, run, sess, bounds>>

\* A read error or the keepalive tells the controller that the agent is gone.
AgentGone(l) ==
    /\ link[l].step = "registered" /\ link[l].open
    /\ ~link[l].agent
    /\ link' = [link EXCEPT ![l].open = FALSE]
    /\ UNCHANGED <<row, beat, conns, run, sess, bounds>>

\* Seeded fault: the watcher leaves a dead session in the registry.
WatchForgets(l) ==
    /\ link[l].step = "registered" /\ ~link[l].open
    /\ link' = [link EXCEPT ![l].step = "idle"]
    /\ UNCHANGED <<row, beat, conns, run, sess, bounds>>

\* The watcher of a closed session unregisters it, its handler frees the slot.
Watch(l) ==
    /\ link[l].step = "registered" /\ ~link[l].open
    /\ link' = [link EXCEPT ![l].step = "idle"]
    /\ sess' = [t \in Tunnels |-> IF sess[t] = l THEN None ELSE sess[t]]
    /\ UNCHANGED <<row, beat, conns, run, bounds>>

-----------------------------------------------------------------------------
(* The agent                                                               *)

\* What a list asks for once the local dial policy has had its say.
Want(list, t) == IF list[t] \in Allowed THEN list[t] ELSE None

\* Seeded fault: a tunnel that is still listed keeps its goroutine as it is.
WithdrawnOnly(list) == {t \in Tunnels : conns[t] # None /\ Want(list, t) = None}

\* Goroutines that the list no longer wants, or wants with another target.
Withdrawn(list) == {t \in Tunnels : conns[t] # None /\ run[conns[t]].target # Want(list, t)}

Started(list) ==
    {t \in Tunnels : Want(list, t) # None /\ (conns[t] = None \/ t \in Withdrawn(list))}

\* Seeded fault: a goroutine is dropped from conns without being cancelled.
CancelledUnlessRestarted(list, r) == \E t \in Withdrawn(list) \ Started(list) : conns[t] = r

Cancelled(list, r) == \E t \in Withdrawn(list) : conns[t] = r

Reconcile ==
    LET list == beat.list
        free == {r \in Runs : run[r].step = "free"}
    IN /\ beat.answered
       /\ \E fresh \in [Started(list) -> free] :
             /\ \A t, u \in Started(list) : fresh[t] = fresh[u] => t = u
             /\ conns' = [t \in Tunnels |->
                    IF t \in Started(list) THEN fresh[t]
                    ELSE IF t \in Withdrawn(list) THEN None ELSE conns[t]]
             /\ run' = [r \in Runs |->
                    IF \E t \in Started(list) : fresh[t] = r
                    THEN LET t == CHOOSE t \in Started(list) : fresh[t] = r
                         IN [NoRun EXCEPT !.step = "dialing", !.tunnel = t, !.target = Want(list, t)]
                    ELSE [run[r] EXCEPT !.cancelled = @ \/ Cancelled(list, r)]]
       /\ beat' = NoList
       /\ UNCHANGED <<row, link, sess, bounds>>

\* Where a goroutine goes when serveOnce returns: away if it was cancelled.
AfterServe(r) == IF run[r].cancelled THEN NoRun ELSE [run[r] EXCEPT !.step = "waiting", !.link = None]

Slots == {l \in Links : link[l].step # "idle"}
FreeLinks == {l \in Links : ~link[l].agent /\ link[l].step = "idle" /\ \A r \in Runs : run[r].link # l}

\* handleTunnelConnect accepts and the agent starts serving...
DialSucceeds(r, l) ==
    /\ run[r].step = "dialing" /\ ~run[r].cancelled
    /\ row[run[r].tunnel] # None
    /\ Cardinality(Slots) < AgentSlots
    /\ link' = [link EXCEPT ![l] =
            [step |-> "handshake", tunnel |-> run[r].tunnel, open |-> TRUE, agent |-> TRUE]]
    /\ run' = [run EXCEPT ![r].step = "serving", ![r].link = l]
    /\ UNCHANGED <<row, beat, conns, sess, bounds>>

\* ... or the agent, cancelled or cut off, never learns that it was accepted.
DialLost(r, l) ==
    /\ run[r].step = "dialing"
    /\ row[run[r].tunnel] # None
    /\ Cardinality(Slots) < AgentSlots
    /\ IF run[r].cancelled THEN UNCHANGED faults ELSE Fault
    /\ link' = [link EXCEPT ![l] =
            [step |-> "handshake", tunnel |-> run[r].tunnel, open |-> TRUE, agent |-> FALSE]]
    /\ run' = [run EXCEPT ![r] = AfterServe(r)]
    /\ UNCHANGED <<row, beat, conns, sess, edits>>

\* The row is not active, the slots are taken, or the dial was cancelled.
DialRefused(r) ==
    /\ run[r].step = "dialing"
    /\ \/ row[run[r].tunnel] = None
       \/ Cardinality(Slots) >= AgentSlots
       \/ run[r].cancelled
    /\ run' = [run EXCEPT ![r] = AfterServe(r)]
    /\ UNCHANGED <<row, beat, conns, link, sess, bounds>>

\* Accept fails: the controller closed the session, or the goroutine was cancelled.
ServeEnds(r) ==
    /\ run[r].step = "serving"
    /\ ~link[run[r].link].open \/ run[r].cancelled
    /\ link' = [link EXCEPT ![run[r].link].agent = FALSE]
    /\ run' = [run EXCEPT ![r] = AfterServe(r)]
    /\ UNCHANGED <<row, beat, conns, sess, bounds>>

\* The connection breaks; the controller finds out in its own time.
ConnectionBreaks(r) ==
    /\ run[r].step = "serving"
    /\ Fault
    /\ link' = [link EXCEPT ![run[r].link].agent = FALSE]
    /\ run' = [run EXCEPT ![r] = AfterServe(r)]
    /\ UNCHANGED <<row, beat, conns, sess, edits>>

\* The backoff passes, or the cancellation cuts it short.
Redial(r) ==
    /\ run[r].step = "waiting"
    /\ run' = [run EXCEPT ![r] = IF run[r].cancelled THEN NoRun ELSE [run[r] EXCEPT !.step = "dialing"]]
    /\ UNCHANGED <<row, beat, conns, link, sess, bounds>>

\* The agent process ends and starts again: Close, or no chance to.
AgentRestarts ==
    /\ Fault
    /\ beat' = NoList
    /\ conns' = [t \in Tunnels |-> None]
    /\ run' = [r \in Runs |-> NoRun]
    /\ link' = [l \in Links |-> [link[l] EXCEPT !.agent = FALSE]]
    /\ UNCHANGED <<row, sess, edits>>

ControllerRestarts ==
    /\ Fault
    /\ sess' = [t \in Tunnels |-> None]
    /\ link' = [l \in Links |-> [link[l] EXCEPT !.step = "idle", !.open = FALSE]]
    /\ UNCHANGED <<row, beat, conns, run, edits>>

-----------------------------------------------------------------------------
RunNext(r) ==
    \/ \E l \in FreeLinks : DialSucceeds(r, l) \/ DialLost(r, l)
    \/ DialRefused(r) \/ ServeEnds(r) \/ ConnectionBreaks(r) \/ Redial(r)

LinkNext(l) == Attach(l) \/ AttachRefused(l) \/ CloseReplaced(l) \/ AgentGone(l) \/ Watch(l)

Next ==
    \/ \E t \in Tunnels, target \in Targets \cup {None} : OwnerEdits(t, target)
    \/ HeartbeatAnswered \/ HeartbeatTruncated \/ Reconcile
    \/ \E r \in Runs : RunNext(r)
    \/ \E l \in Links : LinkNext(l)
    \/ AgentRestarts \/ ControllerRestarts

Spec == Init /\ [][Next]_vars

(* The heartbeat loop never stops, goroutines that can run do, and a dial  *)
(* the controller is ready to accept is not lost forever: faults and edits *)
(* are finite.                                                             *)
RunStep(r) ==
    \/ \E l \in FreeLinks : DialSucceeds(r, l)
    \/ DialRefused(r) \/ ServeEnds(r) \/ Redial(r)

Fairness ==
    /\ WF_vars(HeartbeatAnswered) /\ WF_vars(Reconcile)
    /\ \A r \in Runs : WF_vars(RunStep(r))
    /\ \A l \in Links : WF_vars(LinkNext(l))

FairSpec == Spec /\ Fairness

-----------------------------------------------------------------------------
(* What the agent promises                                                 *)

\* The variables keep their types, and the registry names live sessions, each
\* under its own tunnel.
TypeOK ==
    /\ row \in List
    /\ beat.answered \in BOOLEAN /\ beat.list \in List
    /\ conns \in [Tunnels -> Runs \cup {None}]
    /\ run \in [Runs -> Run]
    /\ link \in [Links -> Link]
    /\ sess \in [Tunnels -> Links \cup {None}]
    /\ edits \in 0..MaxEdits /\ faults \in 0..MaxFaults
    /\ \A t \in Tunnels : sess[t] # None =>
          link[sess[t]].step = "registered" /\ link[sess[t]].tunnel = t

\* A goroutine that nobody has cancelled is the one conns has for its tunnel,
\* so that Reconcile and Close can still reach it, and it pipes to a target the
\* local policy allows: whatever lists arrive, none redials behind their back.
RunsTracked ==
    \A r \in Runs : run[r].step # "free" /\ ~run[r].cancelled =>
        conns[run[r].tunnel] = r /\ run[r].target \in Allowed

\* A tunnel the controller believes in is served, by a goroutine that Reconcile
\* knows and with the row's target, and no other tunnel is.
Agreed(t) ==
    IF row[t] \in Allowed
    THEN \E r \in Runs :
            /\ conns[t] = r /\ run[r].step = "serving" /\ run[r].target = row[t]
            /\ sess[t] = run[r].link /\ link[sess[t]].open
    ELSE sess[t] = None /\ conns[t] = None

\* Once owners stop editing and the network recovers, heartbeats, redials,
\* replaced sessions and late handshakes settle: the registry and the agent
\* agree on every tunnel and stay so, with no two goroutines replacing each
\* other's session for ever and no slot left behind by a dead one.
Settles == <>[](\A t \in Tunnels : Agreed(t))
=============================================================================
