# Verification of MeshBridge

TLA+ models of the concurrent core of MeshBridge: the controller that exposes
services behind agents as public tunnels, the traffic meter that bills and limits
them, the agent that dials out and serves them, the stream transport in between,
the handlers that make accounts, sessions and codes, the pure routing decisions,
and the resumable receiver of the transfer library. TLC checks each model on a
small instance; TLAPS proves the most important safety properties for every value
of the parameters. `PROJECT.json` lists every run, property, seeded fault, source
line and theorem; this page says what they mean.

Commands, from this directory:

    tlc -workers 2 -config meter_quota.cfg MCUsageMeter.tla
    tlapm UsageMeterProofs.tla

## 1. The system

| Part | Where | State it keeps |
|---|---|---|
| Traffic meter | `internal/tunnel/meter.go` | an entry per tunnel and month (total, unflushed delta, reserved bytes, budget, stop and warn marks), a balance per month for all tunnels, the pending sum, a latched failure |
| Tunnel gateway | `internal/tunnel/gateway.go` | one agent session per tunnel, admission slots, the cancel functions of live requests, tunnels being removed, agent slots, a settings cache, limiters |
| Stream transport | `internal/tunnel/transport.go` | per request: a yamux stream, a writer goroutine, a read deadline, a cancellation callback |
| Agent | `internal/tunnel/agent.go`, `cmd/meshbridge-agent` | one goroutine per wanted tunnel, its target, its connection |
| Handlers | `internal/api` | rows: tunnels, usage, devices, users, tokens, codes, grants |
| Server process | `cmd/meshbridge-server` | flush worker, shutdown, HTTP servers |
| Transfer library | `internal/transfer` | part file, state file (bitmap), destination |
| Accounts, identities, SSO | `internal/api/setup.go`, `google.go`, `project_sso.go`, `internal/mailer` | users, codes, tokens, identities, grants |
| Pure decisions | `internal/scheduler`, `relay`, `probe`, `policy` | none (the policy file) |

How they meet. A visitor's request is admitted by the gateway, which asks the
meter for a handle; every read and write of its body reserves bytes at the meter,
does its I/O without a lock and settles what it moved. The request travels over a
yamux stream of the session that the tunnel's agent dialled. The agent learns from
heartbeats which tunnels it should serve. PATCH and DELETE handlers, a used-up
budget, a meter failure and a shutdown all tear sessions and requests down while
agents redial and visitors arrive. Device deletion removes tunnels by a foreign key
and tells nobody. The only synchronisation is `Gateway.mu`, `admissionMu`, `openMu`,
`usageMeter.mu` and SQLite transactions on one connection; callbacks and goroutines
run between any two of their critical sections.

What is hard here, and why the models look as they do: decisions made under one
lock and used under another (quota stop, attach, PATCH of a row read earlier); bytes
in memory that a crash forgets and a failed flush must not count twice; sessions
that register while they are being killed; goroutines that must end although the
other side never answers; and a file that must be whole whenever it has its name.

## 2. Modules

    ByteSums ── UsageMeter ── refines ──> TrafficLedger     Transfer ── refines ──> AtomicFile
                    └── UsageMeterProofs                        └── TransferProofs
    TunnelGateway ── TunnelGatewayProofs
         │ seen from outside
    AgentLink ── AgentLinkProofs                    StreamTransport ── StreamTransportProofs
    ControlPlane ─┬─ Codes
                  ├─ Accounts ── AccountsProofs     } side by side in ControlPlaneParts
                  ├─ Sessions                       } ── ControlPlaneProofs
                  └─ VisitorGate                                              Routing

Each `MC…` module is an instance for TLC. Every action is one critical section, one
SQL statement or transaction, one file-system call or one I/O. `PROJECT.json` maps
each definition to its lines. In several modules a definition whose comment begins with
"Seeded fault" is a plausible bug in the definition after it; it is used by no
specification, and stands there so that each property can be shown to notice one.

**UsageMeter** is `meter.go` with the rows `tunnels.status`, `monthly_quota_bytes`
and `tunnel_usage`, and with the handlers that change those rows. `Begin` opens a
request; `Reserve` and `ReserveRefused` are `meter.reserve`; `Settle` is
`meter.settle` with the flush it may force; `CloseHandle` and `CloseFlush` are
`requestMeter.close`; `FlushTick` is the worker; `PatchLoad`, `PatchCommit`,
`UpdateQuota` and `PatchRearm` are the four steps of a PATCH between which anything
may run; `OwnerDelete` is the drained DELETE, `DeviceDelete` the cascade,
`NextMonth` the calendar, `Restart` a crash. A flush either commits everything,
stops the tunnels that are due and prunes clean entries, or latches the failure.
Directions are added up, and 16 KiB and 256 KiB are the parameters `Chunk` and
`FlushBytes`.

**TrafficLedger** is what the meter promises: promise within the budget, settle,
make durable all at once, forget only on a crash.

**TunnelGateway** has a record for every agent connection, visitor request and
handler, with the point it has reached, and one for the progress of `Kill` in every
thread (it takes three critical sections: cancel the jobs, take the sessions out of the
registry, close them). Attach validates under one lock and registers under another;
requests are admitted, register their cancel function and pick their session in
separate steps; DELETE blocks admission, kills, drains and only then removes the row;
the shutdown goes through its five phases. The meter is reduced to which tunnels are
cached, dirty and due to be stopped.

**AgentLink** is the other end: heartbeats answered with a list that is applied later
(`HeartbeatAnswered`, `Reconcile`), answers cut short by a failing query
(`HeartbeatTruncated`), goroutines that dial, are refused, serve, lose their
connection and redial, connections whose two ends fail separately, and restarts of both
programs. The gateway is reduced to a handshake, a registry and slots.

**StreamTransport** is `openStream` and `RoundTrip`: opens counted against the two limits while
sessions close under them, the writer goroutine, the deadline on headers, the race of the
cancellation callback with the headers, and the body that is handed out. The agent may be
late with everything.

**ControlPlane** has the constants of the four modules that follow. In each of them a request is a
record of its local variables and of the statement it has reached; every SQL statement or transaction is an
action, others run in between, and any statement may fail or the client may leave. The four share no
variable: what one means to another (a code that proves an address, a password that was reset) is a
free choice there. `ControlPlaneParts` therefore runs one of them at a time, from a common initial state, and states
their properties together.

**Codes** is `SendCode` and `CheckCode` of the mailer: a row inserted before the mail leaves and
withdrawn if it does not, a row selected, compared, and only then counted or consumed (`Select`,
`CountMiss`, `Pass`).

**Accounts** is how accounts appear and are opened: `SetupInitial` to `SetupWrites`, `Register` to
`RegisterWrites`, `PasswordReset` to `ResetWrites`, the Google sign-in in its three lookups (`ByIdentity`,
`ByAddress`, `RegistrationOpen`) and two transactions (`LinkGoogleIdentity`, `CreateGoogleUser`),
linking and unlinking of one's own identity, and `create-admin`.

**Sessions** is the rows of `api_tokens` and `sso_grants` with their cascades: a login that has verified a
password and not yet inserted its token, a grant that is redeemed and whose project session is inserted in
another statement or undone (`Complete`, `CompleteInsert`, `RevokeGrant`), logout in two steps, and
the password reset that deletes what there is. The grant store is the SSO library's; `Exchange` models it
from its use.

**VisitorGate** is what a visitor passes before he is proxied: `Gateway.setting` with its version check
(`CacheMiss`, `ReadSetting`, `StoreSetting`, `ReadAgain`) against the settings PUT (`PutWrites`,
`PutResets`), the latched failure of the meter, and the access key with `attemptLimiter`, which is asked
before the comparison and told after it.

**Routing** is the pure decisions as operators, with their theorems in the same module: the classes
of a path, `Decide`, the two ways the code decides that a relay's quota is used up, `DebounceRoute`, and the
grants that `Render` makes. It keeps no state, so there is nothing to run.

**Transfer** is the receiver as the library's tests drive it. Every file has the content a
running system sees and the one its disk holds: a crash keeps the first, a power loss
falls back on the second. **AtomicFile** is what it promises of the destination.

## 3. What is checked

| Run | Instance | What it shows |
|---|---|---|
| `meter_quota` | 1 tunnel, budget 5, 2 requests, 2 months, failing statements, device deletes, crashes | reservations are exactly the I/O in flight; an entry's total is the row plus its delta; the budget is never overspent; a spent budget has stopped its tunnel; a crash loses less than the flush threshold |
| `meter_shared` | 2 tunnels, 2 requests, a shared budget that changes between reservations | the shared budget is never overspent; the books agree (`SharedBooks`: the pending sum is the unflushed deltas, the month covers its tunnels, no bytes on a row that is gone); the meter implements the ledger; settled bytes become durable |
| `meter_patch` | 2 concurrent PATCHes, 1 request | the enforced budget is the row's once callbacks are done; one warning a month; a stop only at the budget in force, or by a mark left over from a lower one (section 6) |
| `gw_sessions` | 2 agent connections, 2 handlers, 1 request | no open session without an owner; a session of an inactive tunnel is about to be killed; the row goes after its last request and byte |
| `gw_live` | failing statements | an inactive tunnel loses its agent; a DELETE ends, in time or by its time-out, and what a kill cancels leaves; after a meter failure all sessions close and none comes back |
| `gw_shutdown` | a shutdown at any moment, crashes | nothing registers behind the drain, nobody uses SQLite after the last flush, and the drain completes |
| `agent_link` | 3 targets (one outside the policy), 2 goroutines, 2 links, 2 edits, 2 faults | no goroutine serves behind the agent's back; agent and controller end in agreement |
| `streams` | 2 requests, 2 sessions, one stream each and in all | the limits hold; a request that is over or cancelled leaves no stream, goroutine or callback behind, whatever the agent does |
| `transfer` | 3 chunks, 2 crashes or power losses | the state file is honest on disk too; the destination appears whole; after a success the verified file is on disk under one of its names; the transfer arrives |
| `control_plane` | 2 requests (3 visitors), 2 of every kind of row (3 tokens), 2 codes, 2 attempts, 1 reset, 1 grant a session, 1 failed read whose error is dropped | races exceed a limit by no more than the requests in progress, and a failed read by one (`RacesBounded`); every account keeps a way in, and changes on the right word only; no project session without its grant and platform session, and no grant in nobody's use; a reset ends the sessions of the old password, but those it is known to miss; no visitor passes a pause that was in force when he came |
| `meter_device_delete` | violation | deleting a device latches the meter's failure (section 6) |
| `gw_stop_undone` | violation | a PATCH of another field undoes a quota stop (section 6) |

**Bounds and why they are enough.** Two requests are what it takes for one to reserve
while the other settles or closes. A budget of 5 with chunks of 2 makes the last
reservation a partial one; 2 months exercise an operation that settles into the month
it reserved in, and pruning of the old month. `MaxTotal` bounds the bytes of a
tunnel and month, past both budget and flush threshold. Two PATCHes are needed for
commits and callbacks in opposite order. Two connections of one tunnel are needed
for replacement; a third one would be replaced the same way, by
the same pair of steps. Two handlers let a PATCH run into a DELETE. In `agent_link`
two goroutines are the least that can fight over a tunnel, and two edits can
withdraw and restore it; edits and faults are finite because the property is about
what happens once they end. Three chunks separate a chunk that is written, one that is
synced and one that is marked. In `streams` the two limits coincide in the
instance; the theorem covers the rest. In `control_plane` two requests are what a race takes, and a third visitor lets one change the
setting while one reads it and one passes; three tokens are a platform session, its project session, and a new
login. The kinds of rows have model values in common (`x1` is a visitor and a token, `y1` a mailbox, an address, a
Google subject, a user and a grant): no module compares two kinds, and the group of symmetries stays small. Two
attempts stand for five and eight, one grant a session for eight. `MaxTotal`, `LastMonth`, `MaxEdits`, `MaxFaults`,
`MaxCrashes`, `MaxCodes`, `MaxResets` and `MaxMisreads` are the only caps on counters, and each is a guard of the action that counts. Symmetry is used
in runs without liveness only.

**Deadlock** is checked everywhere but in `transfer`, where a receiver that is done stops.

## 4. Fairness

* The flush worker has a one-second ticker and recovers from failed flushes, so
  `FlushTick` is weakly fair. A handler that has begun a PATCH goes on to its end.
* In `TunnelGateway` a goroutine that wants `admissionMu` competes with others that
  keep taking it. `sync.Mutex` hands itself to a waiter that starves, so a
  goroutine enabled again and again does run: strong fairness, with one condition per
  goroutine, because it has one next step at a time. Visitors, agents, PATCHes and
  DELETEs need never come. An exchange may last for ever, even when its session is gone,
  unless it is cancelled: the gateway's server has no `ReadTimeout` and no `WriteTimeout`
  (`main.go:217`), and only a cancelled request gets deadlines on its visitor's connection
  (`gateway.go:624`). A request that registers behind the kill of a DELETE is not cancelled, so
  the drain need not end by itself; the five seconds that `PrepareDelete` waits do pass, and
  the step that gives up is fair.
* In `AgentLink` the heartbeat loop goes on for ever, goroutines that can run do, and a dial
  that the controller is ready to accept is not lost for ever. Owners and
  faults have no fairness; their number is bounded.
* In `StreamTransport` goroutines, callbacks and timers run. The agent owes nothing: an open, a
  write or a body is only bound to end once its session is gone or its deadline
  past. The thirty-second close timer of yamux is the fair action `Deregister`.
* In `Transfer` the receiver is restarted after a crash and keeps working.

## 5. What is proved

All proofs are for any finite set of tunnels, requests, months, runs, links, sessions or chunks
and any value of the limits, under the assumptions the component modules name.

**Every safety property that a passing run checks, invariant or action property, is the statement of a
theorem.** Seven theorems have a hypothesis beside the assumptions of their module. Each hypothesis is what the run of
that property instantiates, and none is there for the proof's sake: without it the property is false of the code, in
a way that section 6 describes.

| Hypothesis | Theorems | Without it |
|---|---|---|
| `~DeviceDeletes` | `BooksShared`, `OwnerDeletesAreSafe`, `DeletesAreDrained`, `SessionsAreJustified` | the cascade removes rows under bytes, requests and sessions (`meter_device_delete`) |
| `"keep" \notin StatusFields` | `SessionsAreJustified` | a PATCH writes back a status it read earlier (`gw_stop_undone`) |
| `{} \notin QuotaFields` | `BudgetCoherent`, `StopsJustified` | a PATCH writes back a budget it read earlier, and calls nobody |
| `Patchers = {}` | `ExhaustedStops` | a budget lowered below what was spent is never crossed |

`SessionsAreAccounted` and `BooksBalance` need none of them, and say how far the properties hold in general.

**UsageMeterProofs.** `MeterInv` conjoins types, `ReservationsMatchIO`, `LedgerMatchesRows` and
three facts they need: a handle in use belongs to a tunnel, an entry that is not loaded is blank
(so loading it starts from the row), and nothing is booked on a tunnel whose row is
gone. `ReservationsMatchIO` is what makes pruning safe and keeps byte counts
from going below zero; it is an equation between a field and a sum over operations in
flight. `ByteSums` writes a sum as the size of a set, so that the library's facts on finite sets give the lemmas
on sums with which the module begins (one changes by what one of its terms changes by, and so on). From `MeterInv`: `TypeCorrect`, `ReservationsSound`,
`LedgerSound`, and `QuotaSafe`, an action property: `Reserve` is the only step that raises what is
committed, and it does so within the budget it reads. On top of it, each with the strengthening that makes it inductive:

* `Books` (`BooksBalance`, `BooksShared`, `SharedSafe`): the pending sum is exactly what no flush has committed, and a
  loaded month covers the rows and deltas of its tunnels. It is why a flush that finds nothing pending may return at
  once, and why the shared limit holds however many entries draw on it. `GoneUnloaded` adds, for `BooksShared` and
  `OwnerDeletesAreSafe`, that a row the owner removed has nothing in memory.
* `CrashLossSmall` is inductive as it stands: a settlement that would reach the threshold flushes in its own critical
  section.
* `UnwarnedRows` (`OneWarning`): an entry that has not warned, or whose warning waits, has a row that records none, whatever is
  pruned, reloaded and re-armed in between.
* `StopInv` (`ExhaustedStops`): a spent entry is marked or its row stopped, and a row that is spent on disk is stopped.
  The second half is what survives pruning and a crash.
* `PatchesCallBack` (`BudgetCoherent`): a PATCH under way will call `UpdateQuota`, which reads the row under the
  meter's lock; so commits and callbacks may cross. `MarksClean` (`StopsJustified`): on a healthy meter a stop that waits has no
  uncommitted bytes, so that the budget was spent when it was marked.
* `LedgerImplemented`: every step of the meter is a step of `TrafficLedger` or a stutter, with the promises as the sum of
  what is held on a key. `DeltaInTotal` and `HeldSmall` are what the refinement needs beyond `MeterInv`.

**TunnelGatewayProofs.** `GatewayInv` has the types; that whatever is in use names its tunnel, and a PATCH a status
its row may have (`Named`); that the registry holds attached sessions only, and a session between the two halves of its
`Attach` is the one that holds the lock (`Registered`); and that a goroutine which is not killing has no victims left
(`OneKillEach`). Then, in this order:

* `SessionsOwned`: an open session is in the registry or in the hands of a goroutine that will close it. Inductive with
  `GatewayInv`, over the three critical sections of `Kill` and the two of `Attach`.
* `DeletesStayAlone`: from the moment a DELETE waits for its drain no session of the tunnel registers again, and once
  drained it has no request and no bytes. Hence `DeletesAreDrained`.
* `SessionsAreAccounted`: a session whose tunnel is not active is about to be killed, and one that is validated but not yet
  registered has a kill *ahead* of it that has not passed its place (`KillAhead`); otherwise the row slipped past
  the session in one of the two ways that `Slipped` names. Hence `SessionsAreJustified`.
* `ShutdownStaysQuiet`, from `DrainQuiet`: each phase of the shutdown leaves a kind of goroutine behind that cannot come back.

**AgentLinkProofs.** `LinkInv` conjoins the types, `RunsTracked`, and the fact that a run is recorded
only under its own tunnel. The last is why replacing one tunnel's goroutine cannot lose another's.
`LinksOwned` pairs goroutines and connections one to one: whoever serves holds a live connection of its own tunnel,
and a live connection has a holder. `SlotsBounded` counts those the controller has admitted; a dial looks at the limit
before it adds one. Together `LinksAreOwned`, which no run checks because it speaks of the proof's own definitions.

**TransferProofs.** `FileInv` says, for each step of Finalize, what part file and destination hold in
memory and on disk; above all that a synced part file is whole on disk, so that a rename that becomes
durable early publishes nothing partial, and one that is never synced leaves the whole file under its old name. It
gives `SuccessLosesNothing` and the refinement
`TransferIsAtomic`, step by step. `BitmapInv` adds that a marked chunk was on disk first, that a batch is marked
only when it is, and that without a pending rename the two views of the destination agree; hence `BitmapStaysHonest`.

**AccountsProofs.** A request decides on what it has read statements before. `AccountInv` says what of that still
holds when it acts (`Sound`): an account that exists keeps its role, and its password once it has one. That is why
unlinking on a password read earlier is safe, and why a claim made on an ordinary account is. `UsersKept` is the
reason, proved of every step. From it `EveryoneHasAWayIn`, the action property `ChangesAreEarned`, and `SetupsStayBounded`: every
administrator beyond those that overlapping setups make has cost a failed read.

**ControlPlaneProofs.** Each of the four modules has an inductive invariant that the others cannot disturb, and
`PlaneInv` is their conjunction; `PlaneTypes`, `RacesStayBounded`, `SessionsStayBacked`, `ResetsEndSessions` and
`PauseStaysObeyed` follow for the specification that TLC runs.

* `CodesInv`: a request between two statements works on a row of its own box, and a usable code was not passed. A request
  that is about to count a miss has been charged already: attempts *plus* the requests at `CountMiss` never grow
  by a step of one of those, and the row is refused to others at the limit. The same holds of uses and the requests at `Pass`.
* `SessionsInv`: only project sessions have a grant, and only logins are parents of grants, so a cascade ends after one
  step; a request that has redeemed a grant which still exists knows the user and password of the grant's parent
  (`VisitSound`), so the session it inserts belongs to that user, and is as old as the login behind it. Deletions and insertions have a
  lemma each (`DeletedKeeps`, `InsertKeeps`) that the handlers cite.
* `SettingInv`: a value read is current, outdated, or covered by the latched failure; a visitor who came to paused
  tunnels gets to the budget only if the failure will refuse him there. `LimiterInv`: without a block all failures are counted.

**Routing.** The scheduler multiplies a relay's quota by 0.95, the relay package divides by the quota, and both round.
`Usable` and `Reached` state exactly which counts pass the rounded comparisons (0.95 as a `float64` is `Critical` times
2^-53; a product or quotient rounds to the nearest `float64`), and `UsableIsAllowed` shows that they agree at every count
for quotas below 2^48 bytes. `LargeFilesKeepOffDERP` builds on it, and `PausedIsNotResumedOverDERP` on that. `ProjectsIsolated` says
what the rendered grants let a project reach, for any projects and any relay tags.

**StreamTransportProofs.** A claim on capacity is an open under way or a stream not yet gone. Only
`OpenStarts` makes one, below both limits; `LoadCoversClaims` shows that what `openStream` adds up is
never less than the number of claims, even while it counts a stream twice; a session that comes
back has none. Hence `StreamsStayBounded` for all limits, the thirty-two and
hundred-and-twenty-eight of the code included.

**Only model-checked** are the liveness properties, which are out of the prover's reach: `DirtyFlushed`, `DeleteEnds`,
`InactiveDisconnects`, `FailureClosesSessions`, `ShutdownCompletes`, `Settles`, `Arrives` and `AbandonedStreamsEnd`.

## 6. What the models brought to light

Two disagreements between code and documentation are kept as runs that TLC refutes:

* **`meter_device_delete`.** Deleting a device deletes its tunnels by cascade, with no drain
  (`internal/api/api.go:633`). If a tunnel has unflushed bytes, the next flush breaks the foreign key of
  `tunnel_usage` and latches the failure, for every tunnel.
* **`gw_stop_undone`.** A PATCH that leaves the status alone writes back the status it read at its
  start (`internal/api/tunnels.go:409`). A quota stop committed in between is undone.

Others show in the models and are described here without a run of their own:

* A visitor who stalls can hold a DELETE to its time-out: a request that registers its cancel function after the kill has
  called those that were there keeps a live context, and no deadline ends it when its session goes (`gateway.go:632`,
  `main.go:217`). The DELETE then answers an error and lets visitors in again; it removes nothing under a request.
* Finalize promises "fsync data, rename, fsync directory" (`transfer.go:225`), but drops the errors of opening and syncing the
  directory (`transfer.go:233`): it reports success, and a power loss may undo the rename. The data is not lost: the
  part file comes back whole (`SuccessKeepsData`).
* A PATCH without a quota writes back the quota it read, and calls no `UpdateQuota`
  (`tunnels.go:424`, `gateway.go:726`); a loaded entry then enforces another budget than the row's
  until it is reloaded. `meter_patch` therefore lets both PATCHes name a quota.
* A budget lowered below what was spent does not stop the tunnel (`gateway.go:728`; TUNNEL.md:83 says it is stopped at the
  limit). Nothing can be reserved any more, so no settlement of bytes crosses it. A settlement of *no* bytes, of an I/O that was
  in flight, only marks the entry (`meter.go:175`): with nothing pending the flush it asks for returns early
  (`meter.go:273`) and leaves the mark.
* That mark outlives the budget that set it. `UpdateQuota` does not take it back when the owner raises the budget
  (`gateway.go:728`), and the flush after the next settled byte writes `quota_exceeded` with the usage below the budget in
  force (`meter.go:323`). The proof of `StopsJustified` brought this up; the property names it as `LeftOverStop`. Nor does
  raising a budget re-arm the warning of an entry in memory.
* A device that is deleted keeps its session and its agent slot until its connection breaks.
* TUNNEL.md:77 gives 256 as the global limit on streams; the code has 128, of requests (`gateway.go:41`) and of streams (`gateway.go:272`).
* The agent's backoff goes to 64 s and is not reset by a success; its comment says 60 s
  (`agent.go:131`).
* A heartbeat whose tunnels query fails answers ok with a short list, and the agent takes tunnels down
  until the next heartbeat (`api.go:459`); `agent_link` shows that this heals.
* A visitor who leaves while his stream is opened closes the agent's whole session
  (`gateway.go:278`).
* Finalize checks for the destination and renames in two steps, so that a file created in between is
  overwritten (`transfer.go:201`); a state file left by another manifest with as many chunks keeps a transfer
  from finishing, but never publishes a wrong file.

Of the control plane:

* `CheckCode` "verifies and consumes a code" (`mailer.go:209`), in two statements: requests that run together may
  all pass with one code, and guess more often than the five attempts the same comment names.
  `RacesBounded` says by how much.
* Two initial setups at once may make two administrators, though setup is "only permitted while no admin exists"
  (`setup.go:129`). And the error of the COUNT of administrators is dropped (`setup.go:141`, and `setup.go:64` for sending
  the code): if it fails, there are none, and setup goes on beside one. In the same way a setting that cannot be read leaves
  registration open (`settings.go:19`) or the deployment's Google client in force (`google.go:32`). `misreads` counts these.
* A wrong code whose UPDATE fails is not counted (`mailer.go:230`): the five attempts bound counted misses.
* A login that has verified the old password inserts its token after a reset has deleted the others, and an error of that
  DELETE is ignored (`setup.go:289`). `create-admin` with a name that exists sets a password, revokes no session,
  and makes nobody an administrator (`main.go:312`).
* A grant stays behind when its project session cannot be inserted and the client has left: `revokeGrant` uses the
  request's context (`project_sso.go:241`).
* A Google address may claim an account "exactly once" (`google.go:147`); once the owner unlinks, another subject
  with the address may claim it again.
* `meter.failure` is never cleared: one setting that cannot be read refuses all visitors until the restart
  (`gateway.go:141`).
* `ClassifyStatusJSON` reports the first peer that matches in the order of a Go map (`probe.go:53`): with two matches
  any of their classes.
* Nothing refuses a relay whose tag is the tag of a project (`policy.go:106`): such a project is then reached by every other one, as a
  relay. `ProjectsIsolated` allows for it.
* For quotas above one and a half times 2^48 bytes there are counts at which the scheduler and the relay package disagree on whether a relay is used up.

## 7. What is not modelled

* Time: deadlines and tickers are actions that may happen, or are fair where section 4 says so.
* The contents of HTTP exchanges, WebSocket frames and yamux windows; routing by host, the cookie of the gate, the
  per-minute rate limiter, pacing of audit rows.
* Disabled accounts, expiry of sessions, the limits on the rate of codes, SMTP settings, the login limiter (it is the
  `attemptLimiter` with another window), the cached health answer; cryptography and the verification of Google's tokens.
* `WriteAtomic` and its snapshots: nothing calls them.
* Storage, configuration, secrets, audit rows, the headscale adapter, the command-line client, the web interface:
  sequential I/O or presentation.

## 8. Plan

In the order in which it pays:

1. **AgentLink**: the safety half of its agreement, that a goroutine serves only what a list named and the policy
   allows, through answers that are applied late.
2. **Lemmas of the refinements**: what `TrafficLedger` and `AtomicFile` promise, proved of them alone, so that it carries
   over to the meter and to the receiver.
3. **Health**: the probe that followers wait for, and a leader whose client leaves.
4. **Routing by host** and the cookie of the access gate, which stand between a visitor and `VisitorGate`.
