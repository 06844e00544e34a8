---------------------------- MODULE AgentLinkProofs ----------------------------
(***************************************************************************)
(* Type correctness of AgentLink, that Reconcile keeps track of every      *)
(* goroutine it has started, and that no connection is leaked, for any     *)
(* number of tunnels, goroutines, links, edits and faults.                 *)
(***************************************************************************)
EXTENDS AgentLink, FiniteSetTheorems, TLAPS

\* A goroutine that exists belongs to a tunnel.
RunsBelong == \A r \in Runs : run[r].step # "free" => run[r].tunnel \in Tunnels

LinkInv == TypeOK /\ RunsBelong /\ RunsTracked

\* What Init sets up.
LEMMA LinkInit == Init => LinkInv
  BY LinkAssumption
  DEF LinkAssumption, Init, LinkInv, TypeOK, RunsBelong, RunsTracked, List, NoList, Run, NoRun,
      Link, NoLink

\* Changing one field of a goroutine or of a link keeps its type.
LEMMA RunFields ==
    ASSUME NEW x \in Run
    PROVE  /\ \A b \in BOOLEAN : [x EXCEPT !.cancelled = b] \in Run
           /\ [x EXCEPT !.step = "dialing"] \in Run
           /\ \A l \in Links : [x EXCEPT !.step = "serving", !.link = l] \in Run
  BY DEF Run

LEMMA LinkFields ==
    ASSUME NEW x \in Link
    PROVE  /\ [x EXCEPT !.open = FALSE] \in Link
           /\ [x EXCEPT !.agent = FALSE] \in Link
           /\ [x EXCEPT !.step = "registered"] \in Link
           /\ [x EXCEPT !.step = "idle"] \in Link
           /\ [x EXCEPT !.step = "idle", !.open = FALSE] \in Link
  BY DEF Link

\* A goroutine leaving serveOnce keeps its type, its tunnel and its target.
LEMMA AfterServeType ==
    ASSUME NEW r \in Runs, run \in [Runs -> Run]
    PROVE  /\ AfterServe(r) \in Run
           /\ AfterServe(r).step # "free" =>
                 /\ run[r].cancelled = FALSE /\ AfterServe(r).cancelled = FALSE
                 /\ AfterServe(r).tunnel = run[r].tunnel /\ AfterServe(r).target = run[r].target
  BY DEF AfterServe, Run, NoRun

\* The steps of one goroutine: none of them starts, renames or uncancels one.
LEMMA RunPreserves ==
    ASSUME LinkInv, NEW r \in Runs, run[r].step # "free",
           run' = [run EXCEPT ![r] = run'[r]], run'[r] \in Run, UNCHANGED conns,
           run'[r].step # "free" =>
               /\ run'[r].cancelled = run[r].cancelled
               /\ run'[r].tunnel = run[r].tunnel /\ run'[r].target = run[r].target
    PROVE  run' \in [Runs -> Run] /\ RunsBelong' /\ RunsTracked'
  BY DEF LinkInv, TypeOK, RunsBelong, RunsTracked

\* Reconcile gives every tunnel it starts a goroutine of its own, and leaves no
\* goroutine uncancelled that it takes out of conns.
LEMMA ReconcilePreserves == LinkInv /\ Reconcile => LinkInv'
<1> SUFFICES ASSUME LinkInv, Reconcile PROVE LinkInv'
  OBVIOUS
<1> DEFINE list == beat.list
           free == {r \in Runs : run[r].step = "free"}
<1> USE DEF LinkInv
<1>1. PICK fresh \in [Started(list) -> free] :
        /\ \A t, u \in Started(list) : fresh[t] = fresh[u] => t = u
        /\ conns' = [t \in Tunnels |->
               IF t \in Started(list) THEN fresh[t]
               ELSE IF t \in Withdrawn(list) THEN None ELSE conns[t]]
        /\ run' = [r \in Runs |->
               IF \E t \in Started(list) : fresh[t] = r
               THEN LET t == CHOOSE t \in Started(list) : fresh[t] = r
                    IN [NoRun EXCEPT !.step = "dialing", !.tunnel = t, !.target = Want(list, t)]
               ELSE [run[r] EXCEPT !.cancelled = @ \/ Cancelled(list, r)]]
  BY DEF Reconcile
<1>2. beat' = NoList /\ UNCHANGED <<row, link, sess, edits, faults>>
  BY DEF Reconcile, bounds
<1>3. \A t \in Started(list) :
          /\ t \in Tunnels /\ fresh[t] \in Runs
          /\ Want(list, t) \in Allowed /\ Want(list, t) \in Targets
  BY LinkAssumption DEF Started, Want, LinkAssumption
<1>4. ASSUME NEW t \in Started(list)
      PROVE  run'[fresh[t]] =
                [NoRun EXCEPT !.step = "dialing", !.tunnel = t, !.target = Want(list, t)]
  <2>1. (CHOOSE u \in Started(list) : fresh[u] = fresh[t]) = t
    BY <1>1
  <2> QED BY <1>1, <1>3, <2>1
<1>5. ASSUME NEW r \in Runs, \A t \in Started(list) : fresh[t] # r
      PROVE  run'[r] = [run[r] EXCEPT !.cancelled = @ \/ Cancelled(list, r)]
  BY <1>1, <1>5
<1>6. ASSUME NEW r \in Runs PROVE run'[r] \in Run
  <2>1. CASE \E t \in Started(list) : fresh[t] = r
    <3>1. PICK t \in Started(list) : fresh[t] = r
      BY <2>1
    <3>2. run'[r] = [NoRun EXCEPT !.step = "dialing", !.tunnel = t, !.target = Want(list, t)]
      BY <3>1, <1>4
    <3>3. t \in Tunnels /\ Want(list, t) \in Targets
      BY <1>3
    <3> HIDE DEF list
    <3> QED BY <3>2, <3>3 DEF Run, NoRun
  <2>2. CASE \A t \in Started(list) : fresh[t] # r
    <3>1. run[r] \in Run /\ Cancelled(list, r) \in BOOLEAN
      BY DEF TypeOK, Cancelled
    <3>2. run[r].cancelled \in BOOLEAN
      BY <3>1 DEF Run
    <3> DEFINE b == run[r].cancelled \/ Cancelled(list, r)
    <3>3. b \in BOOLEAN
      BY <3>1, <3>2
    <3>4. run'[r] = [run[r] EXCEPT !.cancelled = b]
      BY <2>2, <1>5
    <3> QED BY <3>1, <3>3, <3>4, RunFields
  <2> QED BY <2>1, <2>2
<1>7. run' \in [Runs -> Run]
  BY <1>1, <1>6
<1>8. conns' \in [Tunnels -> Runs \cup {None}]
  BY <1>1, <1>3 DEF TypeOK
<1>9. ASSUME NEW r \in Runs, run'[r].step # "free", ~run'[r].cancelled
      PROVE  conns'[run'[r].tunnel] = r /\ run'[r].target \in Allowed
  <2>1. CASE \E t \in Started(list) : fresh[t] = r
    <3>1. PICK t \in Started(list) : fresh[t] = r
      BY <2>1
    <3>2. run'[r].tunnel = t /\ run'[r].target = Want(list, t)
      BY <3>1, <1>4 DEF NoRun
    <3> QED BY <3>1, <3>2, <1>1, <1>3
  <2>2. CASE \A t \in Started(list) : fresh[t] # r
    <3>1. run[r] \in Run
      BY DEF TypeOK
    <3>2. /\ run'[r].step = run[r].step /\ run'[r].tunnel = run[r].tunnel
          /\ run'[r].target = run[r].target
          /\ run'[r].cancelled = (run[r].cancelled \/ Cancelled(list, r))
      BY <2>2, <1>5, <3>1 DEF Run
    <3>3. ~run[r].cancelled /\ ~Cancelled(list, r)
      BY <3>2, <1>9
    <3>4. /\ conns[run[r].tunnel] = r /\ run[r].target \in Allowed
          /\ run[r].tunnel \in Tunnels
      BY <3>2, <3>3, <1>9 DEF RunsTracked, RunsBelong
    <3>5. run[r].tunnel \notin Withdrawn(list)
      BY <3>3, <3>4 DEF Cancelled
    <3>6. run[r].tunnel \notin Started(list)
      BY <3>4, <3>5, LinkAssumption DEF Started, LinkAssumption
    <3> QED BY <3>2, <3>4, <3>5, <3>6, <1>1
  <2> QED BY <2>1, <2>2
<1>10. ASSUME NEW r \in Runs, run'[r].step # "free"
       PROVE  run'[r].tunnel \in Tunnels
  <2>1. CASE \E t \in Started(list) : fresh[t] = r
    <3>1. PICK t \in Started(list) : fresh[t] = r
      BY <2>1
    <3>2. run'[r].tunnel = t
      BY <3>1, <1>4 DEF NoRun
    <3> QED BY <3>1, <3>2, <1>3
  <2>2. CASE \A t \in Started(list) : fresh[t] # r
    <3>1. run[r] \in Run
      BY DEF TypeOK
    <3>2. run'[r].step = run[r].step /\ run'[r].tunnel = run[r].tunnel
      BY <2>2, <1>5, <3>1 DEF Run
    <3> QED BY <3>2, <1>10 DEF RunsBelong
  <2> QED BY <2>1, <2>2
<1>11. RunsTracked' /\ RunsBelong'
  BY <1>9, <1>10 DEF RunsTracked, RunsBelong
<1>12. TypeOK'
  BY <1>2, <1>7, <1>8 DEF TypeOK, NoList, List
<1> QED BY <1>11, <1>12

\* A new link is not in the registry: nobody is served over a dead session.
LEMMA DialPreserves ==
    ASSUME LinkInv, NEW r \in Runs, NEW l \in FreeLinks, NEW b \in BOOLEAN,
           run[r].step = "dialing",
           link' = [link EXCEPT ![l] =
               [step |-> "handshake", tunnel |-> run[r].tunnel, open |-> TRUE, agent |-> b]],
           UNCHANGED sess
    PROVE  /\ link' \in [Links -> Link]
           /\ \A t \in Tunnels : sess'[t] # None =>
                 link'[sess'[t]].step = "registered" /\ link'[sess'[t]].tunnel = t
<1>1. l \in Links /\ link[l].step = "idle"
  BY DEF FreeLinks
<1>2. run[r].tunnel \in Tunnels
  BY DEF LinkInv, RunsBelong
<1> QED BY <1>1, <1>2 DEF LinkInv, TypeOK, Link

\* Every other step keeps the invariant.
LEMMA LinkStep == LinkInv /\ [Next]_vars => LinkInv'
<1> SUFFICES ASSUME LinkInv, [Next]_vars PROVE LinkInv'
  OBVIOUS
<1>types. /\ run \in [Runs -> Run] /\ link \in [Links -> Link]
          /\ sess \in [Tunnels -> Links \cup {None}] /\ None \notin Links
          /\ edits \in Nat /\ faults \in Nat /\ edits <= MaxEdits /\ faults <= MaxFaults
  BY LinkAssumption DEF LinkInv, TypeOK, LinkAssumption
<1>1. ASSUME NEW t \in Tunnels, NEW target \in Targets \cup {None}, OwnerEdits(t, target)
      PROVE  LinkInv'
  <2>1. /\ row' \in List /\ edits' \in 0..MaxEdits /\ sess' \in [Tunnels -> Links \cup {None}]
        /\ link' \in [Links -> Link] /\ UNCHANGED <<beat, conns, run, faults>>
    <3>1. row' \in List
      BY <1>1 DEF OwnerEdits, LinkInv, TypeOK, List
    <3>2. edits' \in 0..MaxEdits
      BY <1>1, <1>types, LinkAssumption DEF OwnerEdits, LinkAssumption
    <3>3. sess' \in [Tunnels -> Links \cup {None}]
      BY <1>1, <1>types DEF OwnerEdits
    <3>4. link' \in [Links -> Link]
      BY <1>1, <1>types, LinkFields DEF OwnerEdits
    <3> QED BY <1>1, <3>1, <3>2, <3>3, <3>4 DEF OwnerEdits
  <2>2. \A u \in Tunnels : sess'[u] # None =>
            link'[sess'[u]].step = "registered" /\ link'[sess'[u]].tunnel = u
    BY <1>1, <1>types DEF OwnerEdits, LinkInv, TypeOK, Link
  <2> QED BY <2>1, <2>2 DEF LinkInv, TypeOK, RunsBelong, RunsTracked
<1>2. CASE HeartbeatAnswered
  BY <1>2 DEF HeartbeatAnswered, LinkInv, TypeOK, RunsBelong, RunsTracked, List, bounds
<1>3. CASE HeartbeatTruncated
  <2>1. PICK lost \in SUBSET Tunnels \ {{}} :
          beat' = [answered |-> TRUE,
                   list |-> [t \in Tunnels |-> IF t \in lost THEN None ELSE row[t]]]
    BY <1>3 DEF HeartbeatTruncated
  <2>2. beat'.answered \in BOOLEAN /\ beat'.list \in List
    BY <2>1 DEF LinkInv, TypeOK, List
  <2>3. faults' \in 0..MaxFaults /\ UNCHANGED <<row, conns, run, link, sess, edits>>
    BY <1>3, <1>types, LinkAssumption DEF HeartbeatTruncated, Fault, LinkAssumption
  <2> QED BY <2>2, <2>3 DEF LinkInv, TypeOK, RunsBelong, RunsTracked
<1>4. CASE Reconcile
  BY <1>4, ReconcilePreserves
<1>5. ASSUME NEW r \in Runs, NEW l \in FreeLinks, DialSucceeds(r, l) PROVE LinkInv'
  <2>1. /\ run'[r] = [run[r] EXCEPT !.step = "serving", !.link = l]
        /\ run' = [run EXCEPT ![r] = run'[r]] /\ l \in Links
        /\ UNCHANGED <<row, beat, conns, sess, edits, faults>>
    BY <1>5, <1>types DEF DialSucceeds, FreeLinks, bounds
  <2>2. run' \in [Runs -> Run] /\ RunsBelong' /\ RunsTracked'
    <3>1. run'[r] \in Run
      <4>1. run[r] \in Run /\ l \in Links
        BY <2>1, <1>types
      <4>2. [run[r] EXCEPT !.step = "serving", !.link = l] \in Run
        BY <4>1, RunFields
      <4> QED BY <2>1, <4>2
    <3>2. /\ run'[r].cancelled = run[r].cancelled
          /\ run'[r].tunnel = run[r].tunnel /\ run'[r].target = run[r].target
      BY <2>1, <1>types DEF Run
    <3> QED BY <1>5, <2>1, <3>1, <3>2, RunPreserves DEF DialSucceeds
  <2>3. /\ link' \in [Links -> Link]
        /\ \A t \in Tunnels : sess'[t] # None =>
              link'[sess'[t]].step = "registered" /\ link'[sess'[t]].tunnel = t
    BY <1>5, <2>1, DialPreserves DEF DialSucceeds
  <2> QED BY <2>1, <2>2, <2>3 DEF LinkInv, TypeOK
<1>6. ASSUME NEW r \in Runs, NEW l \in FreeLinks, DialLost(r, l) PROVE LinkInv'
  <2>1. /\ run'[r] = AfterServe(r) /\ run' = [run EXCEPT ![r] = run'[r]]
        /\ UNCHANGED <<row, beat, conns, sess, edits>> /\ faults' \in 0..MaxFaults
    BY <1>6, <1>types, LinkAssumption DEF DialLost, Fault, LinkAssumption
  <2>2. run' \in [Runs -> Run] /\ RunsBelong' /\ RunsTracked'
    BY <1>6, <2>1, <1>types, RunPreserves, AfterServeType DEF DialLost
  <2>3. /\ link' \in [Links -> Link]
        /\ \A t \in Tunnels : sess'[t] # None =>
              link'[sess'[t]].step = "registered" /\ link'[sess'[t]].tunnel = t
    BY <1>6, <2>1, DialPreserves DEF DialLost
  <2> QED BY <2>1, <2>2, <2>3 DEF LinkInv, TypeOK
<1>7. ASSUME NEW r \in Runs, DialRefused(r) PROVE LinkInv'
  <2>1. /\ run'[r] = AfterServe(r) /\ run' = [run EXCEPT ![r] = run'[r]]
        /\ UNCHANGED <<row, beat, conns, link, sess, edits, faults>>
    BY <1>7, <1>types DEF DialRefused, bounds
  <2>2. run' \in [Runs -> Run] /\ RunsBelong' /\ RunsTracked'
    BY <1>7, <2>1, <1>types, RunPreserves, AfterServeType DEF DialRefused
  <2> QED BY <2>1, <2>2 DEF LinkInv, TypeOK
<1>8. ASSUME NEW r \in Runs, ServeEnds(r) \/ ConnectionBreaks(r) PROVE LinkInv'
  <2>1. /\ run'[r] = AfterServe(r) /\ run' = [run EXCEPT ![r] = run'[r]]
        /\ link' = [link EXCEPT ![run[r].link].agent = FALSE]
        /\ UNCHANGED <<row, beat, conns, sess, edits>> /\ faults' \in 0..MaxFaults
        /\ run[r].step = "serving"
    BY <1>8, <1>types, LinkAssumption DEF ServeEnds, ConnectionBreaks, Fault, bounds, LinkAssumption
  <2>2. run' \in [Runs -> Run] /\ RunsBelong' /\ RunsTracked'
    BY <2>1, <1>types, RunPreserves, AfterServeType
  <2>3. /\ link' \in [Links -> Link]
        /\ \A t \in Tunnels : sess'[t] # None =>
              link'[sess'[t]].step = "registered" /\ link'[sess'[t]].tunnel = t
    <3>1. link' \in [Links -> Link]
      BY <2>1, <1>types, LinkFields
    <3>2. \A l \in Links : link'[l].step = link[l].step /\ link'[l].tunnel = link[l].tunnel
      BY <2>1, <1>types DEF Link
    <3> QED BY <2>1, <3>1, <3>2, <1>types DEF LinkInv, TypeOK
  <2> QED BY <2>1, <2>2, <2>3 DEF LinkInv, TypeOK
<1>9. ASSUME NEW r \in Runs, Redial(r) PROVE LinkInv'
  <2>1. /\ run'[r] = IF run[r].cancelled THEN NoRun ELSE [run[r] EXCEPT !.step = "dialing"]
        /\ run' = [run EXCEPT ![r] = run'[r]]
        /\ UNCHANGED <<row, beat, conns, link, sess, edits, faults>>
    BY <1>9, <1>types DEF Redial, bounds
  <2>2. run' \in [Runs -> Run] /\ RunsBelong' /\ RunsTracked'
    <3>0. run[r] \in Run
      BY <1>types
    <3>1. run'[r] \in Run
      <4>1. NoRun \in Run
        BY DEF Run, NoRun
      <4>2. [run[r] EXCEPT !.step = "dialing"] \in Run
        BY <3>0, RunFields
      <4> QED BY <2>1, <4>1, <4>2
    <3>2. run'[r].step # "free" =>
              /\ run'[r].cancelled = run[r].cancelled
              /\ run'[r].tunnel = run[r].tunnel /\ run'[r].target = run[r].target
      <4>1. NoRun.step = "free"
        BY DEF NoRun
      <4>2. LET d == [run[r] EXCEPT !.step = "dialing"]
            IN /\ d.cancelled = run[r].cancelled
               /\ d.tunnel = run[r].tunnel /\ d.target = run[r].target
        BY <3>0 DEF Run
      <4> QED BY <2>1, <4>1, <4>2
    <3> QED BY <1>9, <2>1, <3>1, <3>2, RunPreserves DEF Redial
  <2> QED BY <2>1, <2>2 DEF LinkInv, TypeOK
<1>10. ASSUME NEW l \in Links, LinkNext(l) PROVE LinkInv'
  <2>1. /\ link' \in [Links -> Link] /\ sess' \in [Tunnels -> Links \cup {None}]
        /\ UNCHANGED <<row, beat, conns, run, edits, faults>>
    <3>1. link' \in [Links -> Link]
      <4>1. link[l] \in Link
        BY <1>types
      <4>2. PICK x \in Link : link' = [link EXCEPT ![l] = x]
        <5>1. CASE Attach(l)
          BY <4>1, <5>1, LinkFields DEF Attach
        <5>2. CASE AttachRefused(l)
          BY <4>1, <5>2, LinkFields DEF AttachRefused
        <5>3. CASE CloseReplaced(l)
          BY <4>1, <5>3, LinkFields DEF CloseReplaced
        <5>4. CASE AgentGone(l)
          BY <4>1, <5>4, LinkFields DEF AgentGone
        <5>5. CASE Watch(l)
          BY <4>1, <5>5, LinkFields DEF Watch
        <5> QED BY <1>10, <5>1, <5>2, <5>3, <5>4, <5>5 DEF LinkNext
      <4> QED BY <4>2, <1>types
    <3>2. sess' \in [Tunnels -> Links \cup {None}]
      BY <1>10, <1>types
      DEF LinkNext, Attach, AttachRefused, CloseReplaced, AgentGone, Watch
    <3> QED BY <1>10, <3>1, <3>2
            DEF LinkNext, Attach, AttachRefused, CloseReplaced, AgentGone, Watch, bounds
  <2>2. \A t \in Tunnels : sess'[t] # None =>
            link'[sess'[t]].step = "registered" /\ link'[sess'[t]].tunnel = t
    BY <1>10, <1>types
    DEF LinkNext, Attach, AttachRefused, CloseReplaced, AgentGone, Watch, LinkInv, TypeOK, Link
  <2> QED BY <2>1, <2>2 DEF LinkInv, TypeOK, RunsBelong, RunsTracked
<1>11. CASE AgentRestarts
  <2>1. /\ run' = [r \in Runs |-> NoRun] /\ conns' = [t \in Tunnels |-> None]
        /\ link' = [l \in Links |-> [link[l] EXCEPT !.agent = FALSE]]
        /\ beat' = NoList /\ UNCHANGED <<row, sess, edits>> /\ faults' \in 0..MaxFaults
    BY <1>11, <1>types, LinkAssumption DEF AgentRestarts, Fault, LinkAssumption
  <2>2. link' \in [Links -> Link]
    BY <2>1, <1>types, LinkFields
  <2>3. \A l \in Links : link'[l].step = link[l].step /\ link'[l].tunnel = link[l].tunnel
    BY <2>1, <1>types DEF Link
  <2>4. run' \in [Runs -> Run] /\ RunsBelong' /\ RunsTracked'
    BY <2>1 DEF Run, NoRun, RunsBelong, RunsTracked
  <2>5. /\ conns' \in [Tunnels -> Runs \cup {None}]
        /\ beat'.answered \in BOOLEAN /\ beat'.list \in List
    BY <2>1 DEF NoList, List
  <2>6. \A t \in Tunnels : sess'[t] # None =>
            link'[sess'[t]].step = "registered" /\ link'[sess'[t]].tunnel = t
    BY <2>1, <2>3, <1>types DEF LinkInv, TypeOK
  <2> QED BY <2>1, <2>2, <2>4, <2>5, <2>6 DEF LinkInv, TypeOK
<1>12. CASE ControllerRestarts
  <2>1. /\ sess' = [t \in Tunnels |-> None]
        /\ link' = [l \in Links |-> [link[l] EXCEPT !.step = "idle", !.open = FALSE]]
        /\ UNCHANGED <<row, beat, conns, run, edits>> /\ faults' \in 0..MaxFaults
    <3>1. Fault
      BY <1>12 DEF ControllerRestarts
    <3>2. faults' \in 0..MaxFaults
      BY <3>1, <1>types, LinkAssumption DEF Fault, LinkAssumption
    <3> QED BY <1>12, <3>2 DEF ControllerRestarts
  <2>2. link' \in [Links -> Link]
    BY <2>1, <1>types, LinkFields
  <2>3. sess' \in [Tunnels -> Links \cup {None}] /\ \A t \in Tunnels : sess'[t] = None
    BY <2>1
  <2> QED BY <2>1, <2>2, <2>3 DEF LinkInv, TypeOK, RunsBelong, RunsTracked
<1>13. CASE UNCHANGED vars
  BY <1>13 DEF vars, LinkInv, TypeOK, RunsBelong, RunsTracked
<1> QED BY <1>1, <1>2, <1>3, <1>4, <1>5, <1>6, <1>7, <1>8, <1>9, <1>10, <1>11, <1>12, <1>13
        DEF Next, RunNext

\* The inductive invariant holds throughout.
THEOREM LinkInvariant == Spec => []LinkInv
<1>1. Init => LinkInv
  BY LinkInit
<1>2. LinkInv /\ [Next]_vars => LinkInv'
  BY LinkStep
<1> QED BY <1>1, <1>2, PTL DEF Spec

\* The registry of every reachable state names live sessions of the right tunnel.
THEOREM LinkTypes == Spec => []TypeOK
<1>1. LinkInv => TypeOK
  BY DEF LinkInv
<1> QED BY <1>1, LinkInvariant, PTL

\* No goroutine redials behind the back of Reconcile, and none pipes to a target
\* outside the local dial policy (agent.go:66).
THEOREM EveryRunTracked == Spec => []RunsTracked
<1>1. LinkInv => RunsTracked
  BY DEF LinkInv
<1> QED BY <1>1, LinkInvariant, PTL

-----------------------------------------------------------------------------
(* Connections                                                             *)

\* A connection is alive at the agent's end as long as exactly one goroutine serves
\* it, and it is one of that goroutine's tunnel.
LinksOwned ==
    /\ \A r \in Runs : IF run[r].step = "serving"
          THEN /\ run[r].link \in Links /\ link[run[r].link].agent
               /\ link[run[r].link].tunnel = run[r].tunnel
          ELSE run[r].link = None
    /\ \A l \in Links : link[l].agent => \E r \in Runs : run[r].link = l
    /\ \A r, q \in Runs : run[r].link = run[q].link /\ run[r].link # None => r = q

\* The connections that hold one of the controller's slots.
SlotsBounded == IsFiniteSet(Slots) /\ Cardinality(Slots) <= AgentSlots

\* A step that gives no goroutine a connection and takes none from one.
LEMMA OwnedKept ==
    ASSUME LinksOwned,
           \A r \in Runs : /\ run'[r].link = run[r].link
                           /\ run'[r].step = "serving" <=> run[r].step = "serving"
                           /\ run[r].step = "serving" => run'[r].tunnel = run[r].tunnel,
           \A l \in Links : link'[l].agent = link[l].agent /\ link'[l].tunnel = link[l].tunnel
    PROVE  LinksOwned'
  BY DEF LinksOwned

\* A goroutine is done with its connection, if it has one.
LEMMA OwnedEnds ==
    ASSUME LinkInv, LinksOwned, NEW r \in Runs,
           run'[r].step # "serving" /\ run'[r].link = None,
           \A q \in Runs \ {r} : run'[q] = run[q],
           \A l \in Links : l # run[r].link =>
               /\ link'[l].agent = link[l].agent
               /\ link'[l].tunnel = link[l].tunnel \/ \A q \in Runs : run[q].link # l,
           run[r].link # None => ~link'[run[r].link].agent
    PROVE  LinksOwned'
<1>1. ASSUME NEW q \in Runs, run'[q].step = "serving"
      PROVE  /\ run'[q].link \in Links /\ link'[run'[q].link].agent
             /\ link'[run'[q].link].tunnel = run'[q].tunnel
  <2>1. q # r /\ run'[q] = run[q]
    BY <1>1
  <2>2. /\ run[q].link \in Links /\ link[run[q].link].agent
        /\ link[run[q].link].tunnel = run[q].tunnel
    BY <1>1, <2>1 DEF LinksOwned
  <2>3. run[q].link # run[r].link
    BY <2>1, <2>2, LinkAssumption DEF LinksOwned
  <2> QED BY <2>1, <2>2, <2>3
<1>2. ASSUME NEW q \in Runs, run'[q].step # "serving" PROVE run'[q].link = None
  BY <1>2 DEF LinksOwned
<1>3. ASSUME NEW l \in Links, link'[l].agent PROVE \E q \in Runs : run'[q].link = l
  <2>1. l # run[r].link
    BY <1>3, LinkAssumption
  <2>2. PICK q \in Runs : run[q].link = l
    BY <1>3, <2>1 DEF LinksOwned
  <2> QED BY <2>1, <2>2
<1>4. ASSUME NEW p \in Runs, NEW q \in Runs, run'[p].link = run'[q].link, run'[p].link # None
      PROVE  p = q
  <2>1. p # r /\ q # r
    BY <1>4
  <2> QED BY <1>4, <2>1 DEF LinksOwned
<1> QED BY <1>1, <1>2, <1>3, <1>4 DEF LinksOwned

\* A slot is only taken by a dial, which looks at the limit first.
LEMMA SlotsKept ==
    ASSUME SlotsBounded, Slots' \subseteq Slots
    PROVE  SlotsBounded'
<1>1. IsFiniteSet(Slots') /\ Cardinality(Slots') <= Cardinality(Slots)
  BY FS_Subset DEF SlotsBounded
<1>2. Cardinality(Slots) \in Nat /\ Cardinality(Slots') \in Nat
  BY <1>1, FS_CardinalityType DEF SlotsBounded
<1> QED BY <1>1, <1>2, LinkAssumption DEF SlotsBounded

LEMMA SlotTaken ==
    ASSUME LinkInv, SlotsBounded, Cardinality(Slots) < AgentSlots,
           NEW l \in Links, NEW x, link' = [link EXCEPT ![l] = x]
    PROVE  SlotsBounded'
<1>1. Slots' \subseteq Slots \cup {l}
  BY DEF Slots, LinkInv, TypeOK
<1>2. /\ IsFiniteSet(Slots \cup {l}) /\ Cardinality(Slots) \in Nat
      /\ Cardinality(Slots \cup {l}) \in Nat
      /\ Cardinality(Slots \cup {l}) <= Cardinality(Slots) + 1
  <2>1. IsFiniteSet(Slots) /\ Cardinality(Slots) \in Nat
    BY FS_CardinalityType DEF SlotsBounded
  <2>2. IsFiniteSet(Slots \cup {l}) /\ Cardinality(Slots \cup {l}) \in Nat
    BY <2>1, FS_AddElement, FS_CardinalityType
  <2>3. Cardinality(Slots \cup {l}) = Cardinality(Slots)
          \/ Cardinality(Slots \cup {l}) = Cardinality(Slots) + 1
    BY <2>1, FS_AddElement
  <2> QED BY <2>1, <2>2, <2>3
<1>3. IsFiniteSet(Slots') /\ Cardinality(Slots') <= Cardinality(Slots \cup {l})
      /\ Cardinality(Slots') \in Nat
  BY <1>1, <1>2, FS_Subset, FS_CardinalityType
<1> QED BY <1>2, <1>3, LinkAssumption DEF SlotsBounded

\* Reconcile starts goroutines that have no connection yet, and cancels others.
LEMMA ReconcileOwned == ASSUME LinkInv, LinksOwned, Reconcile PROVE LinksOwned'
<1> DEFINE list == beat.list
           free == {r \in Runs : run[r].step = "free"}
<1>1. PICK fresh \in [Started(list) -> free] :
        run' = [r \in Runs |->
               IF \E t \in Started(list) : fresh[t] = r
               THEN LET t == CHOOSE t \in Started(list) : fresh[t] = r
                    IN [NoRun EXCEPT !.step = "dialing", !.tunnel = t, !.target = Want(list, t)]
               ELSE [run[r] EXCEPT !.cancelled = @ \/ Cancelled(list, r)]]
  BY DEF Reconcile
<1>2. link' = link
  BY DEF Reconcile
<1>3. ASSUME NEW r \in Runs
      PROVE  /\ run'[r].link = run[r].link
             /\ run'[r].step = "serving" <=> run[r].step = "serving"
             /\ run[r].step = "serving" => run'[r].tunnel = run[r].tunnel
  <2>0. run[r] \in Run
    BY DEF LinkInv, TypeOK
  <2>1. CASE \E t \in Started(list) : fresh[t] = r
    <3>1. PICK t : run'[r] = [NoRun EXCEPT !.step = "dialing", !.tunnel = t,
                                           !.target = Want(list, t)]
      BY <1>1, <2>1
    <3>2. run'[r].step = "dialing" /\ run'[r].link = None
      BY <3>1 DEF NoRun
    <3>3. run[r].step = "free"
      BY <2>1
    <3> QED BY <3>2, <3>3 DEF LinksOwned
  <2>2. CASE ~\E t \in Started(list) : fresh[t] = r
    <3>1. PICK b : run'[r] = [run[r] EXCEPT !.cancelled = b]
      BY <1>1, <2>2
    <3> QED BY <2>0, <3>1 DEF Run
  <2> QED BY <2>1, <2>2
<1> QED BY <1>2, <1>3, OwnedKept

\* After serveOnce a goroutine has no connection.
LEMMA AfterServeUnlinked ==
    ASSUME NEW r \in Runs, run \in [Runs -> Run]
    PROVE  AfterServe(r).step # "serving" /\ AfterServe(r).link = None
<1>1. CASE run[r].cancelled
  BY <1>1 DEF AfterServe, NoRun
<1>2. CASE ~run[r].cancelled
  BY <1>2 DEF AfterServe, Run
<1> QED BY <1>1, <1>2

LEMMA DialOwned ==
    ASSUME LinkInv, LinksOwned, SlotsBounded, NEW r \in Runs, NEW l \in FreeLinks,
           DialSucceeds(r, l) \/ DialLost(r, l)
    PROVE  LinksOwned' /\ SlotsBounded'
<1>0. /\ run \in [Runs -> Run] /\ link \in [Links -> Link] /\ None \notin Links /\ l \in Links
      /\ ~link[l].agent /\ \A q \in Runs : run[q].link # l
  BY LinkAssumption DEF LinkInv, TypeOK, FreeLinks
<1>1. SlotsBounded'
  <2>1. PICK x : link' = [link EXCEPT ![l] = x] /\ Cardinality(Slots) < AgentSlots
    BY DEF DialSucceeds, DialLost
  <2> QED BY <1>0, <2>1, SlotTaken
<1>2. run[r].step = "dialing" /\ run[r].link = None
  BY DEF DialSucceeds, DialLost, LinksOwned
<1>3. \A m \in Links \ {l} : link'[m] = link[m]
  BY <1>0 DEF DialSucceeds, DialLost
<1>4. CASE DialSucceeds(r, l)
  <2>1. link'[l].agent /\ link'[l].tunnel = run[r].tunnel
    BY <1>0, <1>4 DEF DialSucceeds
  <2>2. run'[r].step = "serving" /\ run'[r].link = l /\ run'[r].tunnel = run[r].tunnel
    BY <1>0, <1>4 DEF DialSucceeds, Run
  <2>3. \A q \in Runs \ {r} : run'[q] = run[q]
    BY <1>0, <1>4 DEF DialSucceeds
  <2>4. ASSUME NEW q \in Runs
        PROVE  IF run'[q].step = "serving"
               THEN /\ run'[q].link \in Links /\ link'[run'[q].link].agent
                    /\ link'[run'[q].link].tunnel = run'[q].tunnel
               ELSE run'[q].link = None
    <3>1. CASE q = r
      BY <1>0, <2>1, <2>2, <3>1
    <3>2. CASE q # r
      <4>1. run'[q] = run[q] /\ run[q].link # l
        BY <1>0, <2>3, <3>2
      <4> QED BY <1>3, <4>1 DEF LinksOwned
    <3> QED BY <3>1, <3>2
  <2>5. ASSUME NEW m \in Links, link'[m].agent PROVE \E q \in Runs : run'[q].link = m
    <3>1. CASE m = l
      BY <2>2, <3>1
    <3>2. CASE m # l
      <4>1. PICK q \in Runs : run[q].link = m
        BY <1>3, <2>5, <3>2 DEF LinksOwned
      <4>2. q # r
        BY <1>0, <1>2, <4>1
      <4> QED BY <2>3, <4>1, <4>2
    <3> QED BY <3>1, <3>2
  <2>6. ASSUME NEW p \in Runs, NEW q \in Runs, run'[p].link = run'[q].link, run'[p].link # None
        PROVE  p = q
    <3>1. CASE p = r \/ q = r
      BY <1>0, <2>2, <2>3, <2>6, <3>1
    <3>2. CASE p # r /\ q # r
      BY <2>3, <2>6, <3>2 DEF LinksOwned
    <3> QED BY <3>1, <3>2
  <2>7. LinksOwned'
    BY <2>4, <2>5, <2>6 DEF LinksOwned
  <2> QED BY <1>1, <2>7
<1>5. CASE DialLost(r, l)
  <2>1. run'[r] = AfterServe(r) /\ \A q \in Runs \ {r} : run'[q] = run[q]
    BY <1>0, <1>5 DEF DialLost
  <2>2. link'[l].agent = FALSE
    BY <1>0, <1>5 DEF DialLost
  <2>3. ASSUME NEW m \in Links
        PROVE  /\ link'[m].agent = link[m].agent
               /\ link'[m].tunnel = link[m].tunnel \/ \A q \in Runs : run[q].link # m
    <3>1. CASE m = l
      <4>1. link[l].agent = FALSE
        BY <1>0 DEF Link
      <4> QED BY <1>0, <2>2, <3>1, <4>1
    <3>2. CASE m # l
      BY <1>3, <3>2
    <3> QED BY <3>1, <3>2
  <2>4. run'[r].step # "serving" /\ run'[r].link = None
    BY <1>0, <2>1, AfterServeUnlinked
  <2>5. LinksOwned'
    BY <1>2, <2>1, <2>3, <2>4, OwnedEnds
  <2> QED BY <1>1, <2>5
<1> QED BY <1>4, <1>5

LEMMA OwnedStep ==
    ASSUME LinkInv, LinksOwned, SlotsBounded, [Next]_vars
    PROVE  LinksOwned' /\ SlotsBounded'
<1>0. /\ run \in [Runs -> Run] /\ link \in [Links -> Link] /\ None \notin Links
      /\ sess \in [Tunnels -> Links \cup {None}]
  BY LinkAssumption DEF LinkInv, TypeOK
<1>a. ASSUME run' = run,
             \A l \in Links : /\ link'[l].agent = link[l].agent /\ link'[l].tunnel = link[l].tunnel
                              /\ link[l].step = "idle" => link'[l].step = "idle"
      PROVE  LinksOwned' /\ SlotsBounded'
  <2>1. LinksOwned'
    BY <1>a, OwnedKept
  <2>2. Slots' \subseteq Slots
    BY <1>a DEF Slots
  <2> QED BY <2>1, <2>2, SlotsKept
<1>b. ASSUME link' = link PROVE SlotsBounded'
  <2>1. Slots' \subseteq Slots
    BY <1>b DEF Slots
  <2> QED BY <2>1, SlotsKept
<1>1. ASSUME NEW t \in Tunnels, NEW target \in Targets \cup {None}, OwnerEdits(t, target)
      PROVE  LinksOwned' /\ SlotsBounded'
  <2>1. run' = run /\ (link' = link \/ link' = [link EXCEPT ![sess[t]].open = FALSE])
    BY <1>1 DEF OwnerEdits
  <2>2. \A l \in Links : /\ link'[l].agent = link[l].agent /\ link'[l].tunnel = link[l].tunnel
                         /\ link[l].step = "idle" => link'[l].step = "idle"
    BY <1>0, <2>1 DEF Link
  <2> QED BY <1>a, <2>1, <2>2
<1>2. CASE HeartbeatAnswered \/ HeartbeatTruncated \/ UNCHANGED vars
  <2>1. run' = run /\ link' = link
    BY <1>2 DEF HeartbeatAnswered, HeartbeatTruncated, vars
  <2> QED BY <1>a, <2>1
<1>3. CASE Reconcile
  <2>1. link' = link
    BY <1>3 DEF Reconcile
  <2> QED BY <1>3, <1>b, <2>1, ReconcileOwned
<1>4. ASSUME NEW r \in Runs, NEW l \in FreeLinks, DialSucceeds(r, l) \/ DialLost(r, l)
      PROVE  LinksOwned' /\ SlotsBounded'
  BY <1>4, DialOwned
<1>5. ASSUME NEW r \in Runs, DialRefused(r) \/ Redial(r)
      PROVE  LinksOwned' /\ SlotsBounded'
  <2>1. link' = link /\ run[r].step # "serving" /\ run[r].link = None
    BY <1>5 DEF DialRefused, Redial, LinksOwned
  <2>2. \A q \in Runs \ {r} : run'[q] = run[q]
    BY <1>0, <1>5 DEF DialRefused, Redial
  <2>3. run'[r].step # "serving" /\ run'[r].link = None
    <3>1. CASE DialRefused(r)
      <4>1. run'[r] = AfterServe(r)
        BY <1>0, <3>1 DEF DialRefused
      <4> QED BY <1>0, <4>1, AfterServeUnlinked
    <3>2. CASE Redial(r)
      <4>1. run'[r] = NoRun \/ run'[r] = [run[r] EXCEPT !.step = "dialing"]
        BY <1>0, <3>2 DEF Redial
      <4>2. NoRun.step = "free" /\ NoRun.link = None
        BY DEF NoRun
      <4>3. run[r] \in Run
        BY <1>0
      <4> QED BY <2>1, <4>1, <4>2, <4>3 DEF Run
    <3> QED BY <1>5, <3>1, <3>2
  <2>4. LinksOwned'
    BY <2>1, <2>2, <2>3, OwnedEnds
  <2> QED BY <1>b, <2>1, <2>4
<1>6. ASSUME NEW r \in Runs, ServeEnds(r) \/ ConnectionBreaks(r)
      PROVE  LinksOwned' /\ SlotsBounded'
  <2>1. /\ run[r].step = "serving" /\ run' = [run EXCEPT ![r] = AfterServe(r)]
        /\ link' = [link EXCEPT ![run[r].link].agent = FALSE]
    BY <1>6 DEF ServeEnds, ConnectionBreaks
  <2>2. run[r].link \in Links
    BY <2>1 DEF LinksOwned
  <2>3. run'[r].step # "serving" /\ run'[r].link = None /\ \A q \in Runs \ {r} : run'[q] = run[q]
    BY <1>0, <2>1, AfterServeUnlinked
  <2>4. /\ ~link'[run[r].link].agent
        /\ \A l \in Links \ {run[r].link} : link'[l] = link[l]
        /\ Slots' \subseteq Slots
    BY <1>0, <2>1, <2>2 DEF Link, Slots
  <2>5. LinksOwned'
    BY <2>3, <2>4, OwnedEnds
  <2> QED BY <2>4, <2>5, SlotsKept
<1>7. ASSUME NEW l \in Links, LinkNext(l) PROVE LinksOwned' /\ SlotsBounded'
  <2>1. run' = run
    BY <1>7 DEF LinkNext, Attach, AttachRefused, CloseReplaced, AgentGone, Watch
  <2>2. \/ link' = [link EXCEPT ![l].step = "registered"] /\ link[l].step = "handshake"
        \/ link' = [link EXCEPT ![l].step = "idle", ![l].open = FALSE]
        \/ link' = [link EXCEPT ![l].open = FALSE]
        \/ link' = [link EXCEPT ![l].step = "idle"]
    BY <1>7 DEF LinkNext, Attach, AttachRefused, CloseReplaced, AgentGone, Watch
  <2>3. \A m \in Links : /\ link'[m].agent = link[m].agent /\ link'[m].tunnel = link[m].tunnel
                         /\ link[m].step = "idle" => link'[m].step = "idle"
    BY <1>0, <2>2 DEF Link
  <2> QED BY <1>a, <2>1, <2>3
<1>8. CASE AgentRestarts
  <2>1. /\ run' = [r \in Runs |-> NoRun]
        /\ link' = [l \in Links |-> [link[l] EXCEPT !.agent = FALSE]]
    BY <1>8 DEF AgentRestarts
  <2>2. \A r \in Runs : run'[r].step # "serving" /\ run'[r].link = None
    BY <2>1 DEF NoRun
  <2>3. \A l \in Links : ~link'[l].agent /\ link'[l].step = link[l].step
    BY <1>0, <2>1 DEF Link
  <2>4. LinksOwned'
    BY <2>2, <2>3 DEF LinksOwned
  <2>5. Slots' \subseteq Slots
    BY <2>3 DEF Slots
  <2> QED BY <2>4, <2>5, SlotsKept
<1>9. CASE ControllerRestarts
  <2>1. run' = run /\ link' = [l \in Links |-> [link[l] EXCEPT !.step = "idle", !.open = FALSE]]
    BY <1>9 DEF ControllerRestarts
  <2>2. \A m \in Links : /\ link'[m].agent = link[m].agent /\ link'[m].tunnel = link[m].tunnel
                         /\ link[m].step = "idle" => link'[m].step = "idle"
    BY <1>0, <2>1 DEF Link
  <2> QED BY <1>a, <2>1, <2>2
<1> QED BY <1>1, <1>2, <1>3, <1>4, <1>5, <1>6, <1>7, <1>8, <1>9 DEF Next, RunNext

\* The agent leaks no connection: whatever cancellations, broken connections and restarts
\* overlap, each that is alive at its end has one goroutine that will close it (agent.go,
\* serveOnce), and the controller never holds more than agentSlots (gateway.go).
THEOREM LinksAreOwned == Spec => [](LinksOwned /\ SlotsBounded)
<1>1. Init => LinksOwned /\ SlotsBounded
  <2> SUFFICES ASSUME Init PROVE LinksOwned /\ SlotsBounded
    OBVIOUS
  <2>1. LinksOwned
    BY DEF Init, LinksOwned, NoRun, NoLink
  <2>2. Slots = {}
    BY DEF Init, Slots, NoLink
  <2>3. Cardinality(Slots) = 0 /\ IsFiniteSet(Slots)
    BY <2>2, FS_EmptySet
  <2> QED BY <2>1, <2>3, LinkAssumption DEF SlotsBounded
<1>2. LinkInv /\ LinksOwned /\ SlotsBounded /\ [Next]_vars => LinksOwned' /\ SlotsBounded'
  BY OwnedStep
<1> QED BY <1>1, <1>2, LinkInvariant, PTL DEF Spec
=============================================================================
