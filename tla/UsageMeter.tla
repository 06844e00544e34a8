----------------------------- MODULE UsageMeter -----------------------------
(***************************************************************************)
(* The gateway's traffic meter (internal/tunnel/meter.go) together with    *)
(* the rows of the tables it reads and writes and the handlers that change *)
(* those rows under it: PATCH (internal/api/tunnels.go), the owner's       *)
(* DELETE, and the device DELETE that cascades (internal/api/api.go).      *)
(*                                                                         *)
(* An operation of a live request reserves bytes, performs its I/O without *)
(* any lock, and settles the bytes it really moved.  Settled bytes stay in *)
(* memory until a flush commits all of them in one SQLite transaction.     *)
(* Every action below is one critical section of usageMeter.mu or one      *)
(* SQLite transaction; Restart is a process crash or a service restart.    *)
(*                                                                         *)
(* Byte counts of the two directions are added up (the code adds them too  *)
(* wherever it compares them) and the 16 KiB / 256 KiB constants are       *)
(* parameters.                                                             *)
(***************************************************************************)
EXTENDS Integers, FiniteSets, ByteSums

CONSTANTS
    Tunnels,       \* tunnel ids
    Nobody,        \* no tunnel
    Requests,      \* slots for live proxied requests
    Patchers,      \* concurrent PATCH /tunnels/{id} handlers
    Chunk,         \* meterChunk: the largest single reservation
    FlushBytes,    \* meterFlushBytes: settled bytes that force a flush
    Quotas,        \* initial monthly_quota_bytes values, 0 means unlimited
    QuotaFields,   \* quota fields of PATCH bodies: {q}, or {} if absent
    StatusFields,  \* status fields of PATCH bodies, "keep" if absent
    Limits,        \* tunnels_global_monthly_bytes values, 0 means unlimited
    LastMonth,     \* bound on the calendar
    MaxTotal,      \* bound on the bytes of one tunnel in one month
    FaultyDB,      \* whether SQLite statements may fail on their own
    DeviceDeletes  \* whether devices may be deleted

Months == 1..LastMonth
Keys == Tunnels \X Months          \* meterKey
Ops == Requests \X {"in", "out"}   \* one I/O per request and direction

ASSUME MeterAssumption ==
    /\ IsFiniteSet(Tunnels) /\ IsFiniteSet(Requests) /\ IsFiniteSet(Patchers)
    /\ Nobody \notin Tunnels
    /\ Chunk \in Nat \ {0}
    /\ FlushBytes \in Nat \ {0}
    /\ Quotas \subseteq Nat
    /\ \A q \in QuotaFields : q \subseteq Nat
    /\ StatusFields \subseteq {"keep", "active", "disabled"}
    /\ Limits \subseteq Nat
    /\ LastMonth \in Nat \ {0}
    /\ MaxTotal \in Nat
    /\ FaultyDB \in BOOLEAN
    /\ DeviceDeletes \in BOOLEAN

VARIABLES
    \* SQLite
    status,     \* tunnels.status; "gone" once the row is deleted
    quota,      \* tunnels.monthly_quota_bytes
    usage,      \* tunnel_usage.bytes_in + bytes_out per tunnel and month
    warnedRow,  \* tunnel_usage.warned
    \* usageMeter
    entry,      \* entries map
    balance,    \* months map
    pending,    \* settled bytes not yet committed
    failure,    \* the latched database failure
    now,        \* MonthKey(m.now())
    \* requestMeter handles and their I/O
    phase,      \* idle | open | closing
    owner,      \* tunnel of the handle
    held,       \* bytes reserved by an operation in flight, 0 if none
    heldMonth,  \* month of that reservation
    \* PATCH handlers
    patch

rowVars == <<status, quota, usage, warnedRow>>
memVars == <<entry, balance, pending, failure>>
reqVars == <<phase, owner, held, heldMonth>>
vars == <<rowVars, memVars, now, reqVars, patch>>

Statuses == {"active", "disabled", "quota_exceeded", "gone"}

Entry == [loaded: BOOLEAN, total: Nat, reserved: Nat, delta: Nat, quota: Nat,
          warned: BOOLEAN, warnPending: BOOLEAN, stopPending: BOOLEAN]
NoEntry == [loaded |-> FALSE, total |-> 0, reserved |-> 0, delta |-> 0, quota |-> 0,
            warned |-> FALSE, warnPending |-> FALSE, stopPending |-> FALSE]

Balance == [loaded: BOOLEAN, total: Nat, reserved: Nat, limit: Nat]
NoBalance == [loaded |-> FALSE, total |-> 0, reserved |-> 0, limit |-> 0]

Patch == [step: {"idle", "loaded", "callback", "rearm"}, tunnel: Tunnels \cup {Nobody},
          quota: Nat, status: Statuses \ {"gone"}, setsQuota: BOOLEAN, reenables: BOOLEAN]
NoPatch == [step |-> "idle", tunnel |-> Nobody, quota |-> 0, status |-> "active",
            setsQuota |-> FALSE, reenables |-> FALSE]

Init ==
    /\ status = [t \in Tunnels |-> "active"]
    /\ quota \in [Tunnels -> Quotas]
    /\ usage = [k \in Keys |-> 0]
    /\ warnedRow = [k \in Keys |-> FALSE]
    /\ entry = [k \in Keys |-> NoEntry]
    /\ balance = [m \in Months |-> NoBalance]
    /\ pending = 0
    /\ failure = FALSE
    /\ now = 1
    /\ phase = [r \in Requests |-> "idle"]
    /\ owner = [r \in Requests |-> Nobody]
    /\ held = [o \in Ops |-> 0]
    /\ heldMonth = [o \in Ops |-> 1]
    /\ patch = [p \in Patchers |-> NoPatch]

-----------------------------------------------------------------------------
(* Loading and pruning the caches                                          *)

MonthKeys(m) == Tunnels \X {m}

\* The month's balance, read from the table if it is not in memory.
LoadedBalance(m) ==
    IF balance[m].loaded THEN balance[m]
    ELSE [NoBalance EXCEPT !.loaded = TRUE, !.total = SumOver(usage, MonthKeys(m))]

\* Seeded fault: the row's warned flag is not read back.
LoadedEntryUnwarned(k) ==
    IF entry[k].loaded THEN entry[k]
    ELSE [NoEntry EXCEPT !.loaded = TRUE, !.total = usage[k], !.quota = quota[k[1]]]

\* The tunnel's entry, read from the rows if it is not in memory.
LoadedEntry(k) ==
    IF entry[k].loaded THEN entry[k]
    ELSE [NoEntry EXCEPT !.loaded = TRUE, !.total = usage[k], !.quota = quota[k[1]],
                         !.warned = warnedRow[k]]

\* Tunnels with a request that has not finished closing (the active map).
Active(ph) == {owner[r] : r \in {s \in Requests : ph[s] # "idle"}}

\* Seeded fault: an entry of a past month goes although I/O is booked on it.
PrunedUnderIO(ents, ph) ==
    [k \in Keys |-> IF ents[k].delta # 0 \/ (k[1] \in Active(ph) /\ k[2] = now)
                    THEN ents[k] ELSE NoEntry]

Pruned(ents, ph) ==
    [k \in Keys |->
        IF \/ ents[k].delta # 0
           \/ ents[k].reserved # 0
           \/ k[1] \in Active(ph) /\ k[2] = now
        THEN ents[k] ELSE NoEntry]

PrunedMonths(bals, ents) ==
    [m \in Months |->
        IF \/ m = now
           \/ bals[m].reserved # 0
           \/ \E k \in MonthKeys(m) : ents[k].loaded
        THEN bals[m] ELSE NoBalance]

-----------------------------------------------------------------------------
(* Flushing                                                                *)

Dirty(e) == e.delta # 0

\* A dirty entry whose tunnel row is gone: the upsert breaks its foreign key.
Orphaned(ents) == \E k \in Keys : Dirty(ents[k]) /\ status[k[1]] = "gone"

\* Seeded fault: committed deltas stay in memory.
ClearedFlagsOnly(ents) ==
    [k \in Keys |-> [ents[k] EXCEPT !.warnPending = FALSE, !.stopPending = FALSE]]

Cleared(ents) ==
    [k \in Keys |-> [ents[k] EXCEPT !.delta = 0, !.warnPending = FALSE, !.stopPending = FALSE]]

Commit(ents, bals, ph) ==
    /\ ~Orphaned(ents)
    /\ usage' = [k \in Keys |-> usage[k] + ents[k].delta]
    /\ warnedRow' = [k \in Keys |-> warnedRow[k] \/ (Dirty(ents[k]) /\ ents[k].warned)]
    /\ status' = [t \in Tunnels |->
            IF /\ status[t] = "active"
               /\ \E k \in Keys : k[1] = t /\ Dirty(ents[k]) /\ ents[k].stopPending
            THEN "quota_exceeded" ELSE status[t]]
    /\ entry' = Pruned(Cleared(ents), ph)
    /\ balance' = PrunedMonths(bals, entry')
    /\ pending' = 0
    /\ UNCHANGED failure

\* flushLocked on the given caches: nothing to write, committed, or failed.
Flush(ents, bals, pend, ph) ==
    \/ /\ pend = 0
       /\ entry' = Pruned(ents, ph)
       /\ balance' = PrunedMonths(bals, entry')
       /\ pending' = 0
       /\ UNCHANGED <<failure, status, usage, warnedRow>>
    \/ /\ pend # 0
       /\ Commit(ents, bals, ph)
    \/ /\ pend # 0
       /\ FaultyDB \/ Orphaned(ents)
       /\ failure' = TRUE
       /\ entry' = ents
       /\ balance' = bals
       /\ pending' = pend
       /\ UNCHANGED <<status, usage, warnedRow>>

-----------------------------------------------------------------------------
(* Request handles                                                         *)

Begin(r, t) ==
    /\ phase[r] = "idle"
    /\ phase' = [phase EXCEPT ![r] = "open"]
    /\ owner' = [owner EXCEPT ![r] = t]
    /\ UNCHANGED <<rowVars, memVars, now, held, heldMonth, patch>>

CanReserve(o) == phase[o[1]] = "open" /\ held[o] = 0 /\ ~failure

\* Seeded faults: bytes promised to other I/O are not counted against the
\* tunnel's budget, or against the shared one.
WantIgnoresPromised(n, e, b) ==
    LET capped == IF n > Chunk THEN Chunk ELSE n
        own == IF e.quota > 0 /\ capped > e.quota - e.total THEN e.quota - e.total ELSE capped
        shared == b.limit - b.total - b.reserved
    IN IF b.limit > 0 /\ own > shared THEN shared ELSE own
WantIgnoresShared(n, e, b) ==
    LET capped == IF n > Chunk THEN Chunk ELSE n
        room == e.quota - e.total - e.reserved
        own == IF e.quota > 0 /\ capped > room THEN room ELSE capped
    IN IF b.limit > 0 /\ own > b.limit - b.total THEN b.limit - b.total ELSE own

\* What is granted out of n bytes asked for.
Want(n, e, b) ==
    LET capped == IF n > Chunk THEN Chunk ELSE n
        room == e.quota - e.total - e.reserved
        own == IF e.quota > 0 /\ capped > room THEN room ELSE capped
        shared == b.limit - b.total - b.reserved
    IN IF b.limit > 0 /\ own > shared THEN shared ELSE own

\* The bytes a grant would leave spent or promised, kept below the bound.
Bounded(e, w) == e.total + e.reserved + w <= MaxTotal

Reserve(o, n, limit) ==
    LET k == <<owner[o[1]], now>>
        e == LoadedEntry(k)
        b == [LoadedBalance(now) EXCEPT !.limit = limit]
        w == Want(n, e, b)
    IN /\ CanReserve(o)
       /\ entry[k].loaded \/ status[k[1]] = "active"
       /\ w > 0
       /\ Bounded(e, w)
       /\ entry' = [entry EXCEPT ![k] = [e EXCEPT !.reserved = @ + w]]
       /\ balance' = [balance EXCEPT ![now] = [b EXCEPT !.reserved = @ + w]]
       /\ held' = [held EXCEPT ![o] = w]
       /\ heldMonth' = [heldMonth EXCEPT ![o] = now]
       /\ UNCHANGED <<rowVars, pending, failure, now, phase, owner, patch>>

\* ErrQuota, ErrGlobalQuota or ErrTunnelBusy: only the caches changed.
ReserveRefused(o, n, limit) ==
    LET k == <<owner[o[1]], now>>
        e == LoadedEntry(k)
        b == [LoadedBalance(now) EXCEPT !.limit = limit]
    IN /\ CanReserve(o)
       /\ entry[k].loaded \/ status[k[1]] = "active"
       /\ Want(n, e, b) <= 0
       /\ entry' = [entry EXCEPT ![k] = e]
       /\ balance' = [balance EXCEPT ![now] = b]
       /\ UNCHANGED <<rowVars, pending, failure, now, reqVars, patch>>

\* The entry is not loaded: no active row, a cancelled context or a database error.
ReserveUnloaded(o) ==
    LET k == <<owner[o[1]], now>>
    IN /\ CanReserve(o)
       /\ ~entry[k].loaded
       /\ \/ /\ balance' = [balance EXCEPT ![now] = LoadedBalance(now)]
             /\ UNCHANGED failure
          \/ /\ FaultyDB
             /\ balance' \in {balance, [balance EXCEPT ![now] = LoadedBalance(now)]}
             /\ failure' = TRUE
       /\ UNCHANGED <<rowVars, entry, pending, now, reqVars, patch>>

\* globalOverBudget, asked before every request, loads the balance too.
GlobalOverBudget ==
    /\ ~failure
    /\ ~balance[now].loaded
    /\ \/ /\ balance' = [balance EXCEPT ![now] = LoadedBalance(now)]
          /\ UNCHANGED failure
       \/ /\ FaultyDB
          /\ failure' = TRUE
          /\ UNCHANGED balance
    /\ UNCHANGED <<rowVars, entry, pending, now, reqVars, patch>>

\* Seeded faults: a settlement gives back a whole chunk; stops one byte late;
\* overwrites the delta of the one before; stops at the warning threshold.
SettledEntryWholeChunk(e, h, n) ==
    [e EXCEPT !.total = @ + n, !.reserved = @ - Chunk, !.delta = @ + n]
SettledEntryLateStop(e, h, n) ==
    [e EXCEPT !.total = @ + n, !.reserved = @ - h, !.delta = @ + n,
              !.stopPending = @ \/ (e.quota > 0 /\ e.total + n > e.quota)]
SettledEntryEarlyStop(e, h, n) ==
    [e EXCEPT !.total = @ + n, !.reserved = @ - h, !.delta = @ + n,
              !.stopPending = @ \/ (e.quota > 0 /\ e.total + n >= (e.quota * 8) \div 10)]

SettledEntry(e, h, n) ==
    LET total == e.total + n
        crossed == e.quota > 0 /\ ~e.warned /\ total >= (e.quota * 8) \div 10
    IN [e EXCEPT !.total = total, !.reserved = @ - h, !.delta = @ + n,
                 !.stopPending = @ \/ (e.quota > 0 /\ total >= e.quota),
                 !.warnPending = @ \/ crossed, !.warned = @ \/ crossed]

SettledBalance(b, h, n) == [b EXCEPT !.total = @ + n, !.reserved = @ - h]

\* Seeded fault: the threshold is passed before a flush.
MustFlushLate(e, b, pend) ==
    pend > FlushBytes \/ e.stopPending \/ (b.limit > 0 /\ b.total >= b.limit)

MustFlush(e, b, pend) ==
    \/ pend >= FlushBytes
    \/ e.stopPending
    \/ b.limit > 0 /\ b.total >= b.limit

\* The I/O of operation o moved n of its reserved bytes.
Settle(o, n) ==
    LET m == heldMonth[o]
        k == <<owner[o[1]], m>>
        e == SettledEntry(entry[k], held[o], n)
        b == SettledBalance(balance[m], held[o], n)
        ents == [entry EXCEPT ![k] = e]
        bals == [balance EXCEPT ![m] = b]
    IN /\ held[o] > 0
       /\ n <= held[o]
       /\ IF MustFlush(e, b, pending + n)
          THEN Flush(ents, bals, pending + n, phase)
          ELSE /\ entry' = ents
               /\ balance' = bals
               /\ pending' = pending + n
               /\ UNCHANGED <<rowVars, failure>>
       /\ held' = [held EXCEPT ![o] = 0]
       /\ heldMonth' = [heldMonth EXCEPT ![o] = 1]
       /\ UNCHANGED <<quota, now, phase, owner, patch>>

\* close() first shuts the handle for new reservations...
CloseHandle(r) ==
    /\ phase[r] = "open"
    /\ phase' = [phase EXCEPT ![r] = "closing"]
    /\ UNCHANGED <<rowVars, memVars, now, owner, held, heldMonth, patch>>

\* ... and, once its I/O has settled, retires it and flushes.
CloseFlush(r) ==
    /\ phase[r] = "closing"
    /\ \A o \in Ops : o[1] = r => held[o] = 0
    /\ phase' = [phase EXCEPT ![r] = "idle"]
    /\ owner' = [owner EXCEPT ![r] = Nobody]
    /\ Flush(entry, balance, pending, phase')
    /\ UNCHANGED <<quota, now, held, heldMonth, patch>>

\* Seeded fault: the worker leaves live tunnels to their handles.
FlushTickIdle ==
    /\ Active(phase) = {}
    /\ Flush(entry, balance, pending, phase)
    /\ UNCHANGED <<quota, now, reqVars, patch>>

\* The one-second worker.
FlushTick ==
    /\ Flush(entry, balance, pending, phase)
    /\ UNCHANGED <<quota, now, reqVars, patch>>

-----------------------------------------------------------------------------
(* The handlers that change the rows                                       *)

\* A PATCH reads the row and fixes every value it will write: a field absent
\* from the request ("keep") is written back as it was read.
PatchLoad(p, t, newStatus, newQuota) ==
    /\ patch[p].step = "idle"
    /\ status[t] # "gone"
    /\ patch' = [patch EXCEPT ![p] =
            [step |-> "loaded", tunnel |-> t,
             quota |-> IF newQuota = {} THEN quota[t] ELSE CHOOSE q \in newQuota : TRUE,
             status |-> IF newStatus = "keep" THEN status[t] ELSE newStatus,
             setsQuota |-> newQuota # {},
             reenables |-> newStatus = "active" /\ status[t] # "active"]]
    /\ UNCHANGED <<rowVars, memVars, now, reqVars>>

NextPatchStep(q) == IF q.setsQuota THEN "callback" ELSE IF q.reenables THEN "rearm" ELSE "idle"

PatchAt(p, step) == IF step = "idle" THEN NoPatch ELSE [patch[p] EXCEPT !.step = step]

\* The UPDATE, which matches no row once the tunnel is gone.
PatchCommit(p) ==
    LET q == patch[p]
        alive == status[q.tunnel] # "gone"
    IN /\ q.step = "loaded"
       /\ status' = IF alive THEN [status EXCEPT ![q.tunnel] = q.status] ELSE status
       /\ quota' = IF alive THEN [quota EXCEPT ![q.tunnel] = q.quota] ELSE quota
       /\ patch' = [patch EXCEPT ![p] = PatchAt(p, NextPatchStep(q))]
       /\ UNCHANGED <<usage, warnedRow, memVars, now, reqVars>>

PatchFails(p) ==
    /\ FaultyDB
    /\ patch[p].step = "loaded"
    /\ patch' = [patch EXCEPT ![p] = NoPatch]
    /\ UNCHANGED <<rowVars, memVars, now, reqVars>>

\* Seeded fault: the callback applies the value its own PATCH wrote.
UpdateQuotaStale(p) ==
    LET t == patch[p].tunnel
        next == IF patch[p].reenables THEN "rearm" ELSE "idle"
    IN /\ patch[p].step = "callback"
       /\ entry' = [k \in Keys |->
              IF status[t] # "gone" /\ k[1] = t /\ entry[k].loaded
              THEN [entry[k] EXCEPT !.quota = patch[p].quota] ELSE entry[k]]
       /\ patch' = [patch EXCEPT ![p] = PatchAt(p, next)]
       /\ UNCHANGED <<rowVars, balance, pending, failure, now, reqVars>>

\* UpdateQuota reads the current row under the meter's lock.
UpdateQuota(p) ==
    LET t == patch[p].tunnel
        next == IF patch[p].reenables THEN "rearm" ELSE "idle"
    IN /\ patch[p].step = "callback"
       /\ \/ /\ entry' = [k \in Keys |->
                    IF status[t] # "gone" /\ k[1] = t /\ entry[k].loaded
                    THEN [entry[k] EXCEPT !.quota = quota[t]] ELSE entry[k]]
             /\ UNCHANGED failure
          \/ /\ FaultyDB
             /\ failure' = TRUE
             /\ UNCHANGED entry
       /\ patch' = [patch EXCEPT ![p] = PatchAt(p, next)]
       /\ UNCHANGED <<rowVars, balance, pending, now, reqVars>>

\* A PATCH that re-enables the tunnel arms the month's warning again.
PatchRearm(p) ==
    LET t == patch[p].tunnel
    IN /\ patch[p].step = "rearm"
       /\ \/ warnedRow' = [warnedRow EXCEPT ![<<t, now>>] = FALSE]
          \/ FaultyDB /\ UNCHANGED warnedRow
       /\ patch' = [patch EXCEPT ![p] = NoPatch]
       /\ UNCHANGED <<status, quota, usage, memVars, now, reqVars>>

DropRow(t) ==
    /\ status' = [status EXCEPT ![t] = "gone"]
    /\ usage' = [k \in Keys |-> IF k[1] = t THEN 0 ELSE usage[k]]
    /\ warnedRow' = [k \in Keys |-> IF k[1] = t THEN FALSE ELSE warnedRow[k]]
    /\ UNCHANGED <<quota, memVars, now, reqVars, patch>>

\* Seeded fault: a handle that is still closing is not waited for.
DrainedTooEarly(t) == \A r \in Requests : owner[r] = t => phase[r] # "open"

\* No request of t is live and its last flush left nothing behind.
Drained(t) == t \notin Active(phase) /\ \A k \in Keys : k[1] = t => ~entry[k].loaded

\* DELETE /tunnels/{id}: PrepareDelete has drained the tunnel and refuses
\* while the meter is degraded.
OwnerDelete(t) ==
    /\ status[t] # "gone"
    /\ ~failure
    /\ Drained(t)
    /\ DropRow(t)

\* DELETE /devices/{id} cascades to the device's tunnels without draining.
DeviceDelete(t) ==
    /\ DeviceDeletes
    /\ status[t] # "gone"
    /\ DropRow(t)

-----------------------------------------------------------------------------
NextMonth ==
    /\ now < LastMonth
    /\ now' = now + 1
    /\ UNCHANGED <<rowVars, memVars, reqVars, patch>>

\* The process dies and a new one starts on the same database.
Restart ==
    /\ entry' = [k \in Keys |-> NoEntry]
    /\ balance' = [m \in Months |-> NoBalance]
    /\ pending' = 0
    /\ failure' = FALSE
    /\ phase' = [r \in Requests |-> "idle"]
    /\ owner' = [r \in Requests |-> Nobody]
    /\ held' = [o \in Ops |-> 0]
    /\ heldMonth' = [o \in Ops |-> 1]
    /\ patch' = [p \in Patchers |-> NoPatch]
    /\ UNCHANGED <<rowVars, now>>

RequestNext ==
    \/ \E r \in Requests : CloseHandle(r) \/ CloseFlush(r) \/ \E t \in Tunnels : Begin(r, t)
    \/ \E o \in Ops : ReserveUnloaded(o)
    \/ \E o \in Ops, n \in 1..Chunk + 1, limit \in Limits :
          Reserve(o, n, limit) \/ ReserveRefused(o, n, limit)
    \/ \E o \in Ops, n \in 0..Chunk : Settle(o, n)

PatchNext ==
    \E p \in Patchers :
        \/ PatchCommit(p) \/ PatchFails(p) \/ UpdateQuota(p) \/ PatchRearm(p)
        \/ \E t \in Tunnels, s \in StatusFields, q \in QuotaFields : PatchLoad(p, t, s, q)

Next ==
    \/ RequestNext
    \/ PatchNext
    \/ GlobalOverBudget
    \/ FlushTick
    \/ \E t \in Tunnels : OwnerDelete(t) \/ DeviceDelete(t)
    \/ NextMonth
    \/ Restart

Spec == Init /\ [][Next]_vars

\* The worker's ticker always fires again and a PATCH runs to its end; requests,
\* deletes and restarts need never come.
FairSpec ==
    /\ Spec
    /\ WF_vars(FlushTick)
    /\ \A p \in Patchers : WF_vars(PatchCommit(p) \/ UpdateQuota(p) \/ PatchRearm(p))

-----------------------------------------------------------------------------
(* What the meter promises                                                 *)

\* The variables keep their types; in particular no byte count of entries or
\* months goes below zero when settle gives a reservation back.
TypeOK ==
    /\ status \in [Tunnels -> Statuses]
    /\ quota \in [Tunnels -> Nat]
    /\ usage \in [Keys -> Nat]
    /\ warnedRow \in [Keys -> BOOLEAN]
    /\ entry \in [Keys -> Entry]
    /\ balance \in [Months -> Balance]
    /\ pending \in Nat
    /\ failure \in BOOLEAN
    /\ now \in Months
    /\ phase \in [Requests -> {"idle", "open", "closing"}]
    /\ owner \in [Requests -> Tunnels \cup {Nobody}]
    /\ held \in [Ops -> Nat]
    /\ heldMonth \in [Ops -> Months]
    /\ patch \in [Patchers -> Patch]

\* The operations in flight; those booked on key k, and those booked in month m.
InFlight == {o \in Ops : held[o] > 0}
OpsOn(k) == {o \in InFlight : owner[o[1]] = k[1] /\ heldMonth[o] = k[2]}
OpsIn(m) == {o \in InFlight : heldMonth[o] = m}

\* Every reserved byte of entries and months belongs to an operation in flight,
\* and the entry and balance it is booked on are still in memory when settle looks
\* them up, whatever flush, prune and the turn of the month did meanwhile.
ReservationsMatchIO ==
    /\ \A k \in Keys : entry[k].reserved = SumOver(held, OpsOn(k))
    /\ \A m \in Months : balance[m].reserved = SumOver(held, OpsIn(m))
    /\ \A o \in InFlight :
          entry[<<owner[o[1]], heldMonth[o]>>].loaded /\ balance[heldMonth[o]].loaded

Deltas == [k \in Keys |-> entry[k].delta]

\* An entry's total, against which reserve decides, is what tunnel_usage holds plus
\* the delta no flush has committed: nothing is counted twice or dropped by a
\* flush that fails, succeeds, prunes the entry or runs between two months.
LedgerMatchesRows ==
    \A k \in Keys : entry[k].loaded /\ status[k[1]] # "gone" =>
        entry[k].total = usage[k] + entry[k].delta

\* pending is the sum of all deltas, so that flushLocked may skip its transaction
\* when it is zero and prune what it then takes for clean.
PendingCountsDeltas == pending = SumOver(Deltas, Keys)

\* The shared balance, loaded once per month and then kept by settle alone, never
\* forgets bytes some tunnel was charged for, flushed or not.
MonthCoversTunnels ==
    \A m \in Months : balance[m].loaded =>
        balance[m].total >= SumOver(usage, MonthKeys(m)) + SumOver(Deltas, MonthKeys(m))

\* A crash of a healthy server loses less than meterFlushBytes of settled bytes
\* over all tunnels together (docs/RESOURCE_LIMITS.md), since settle flushes.
CrashLossBounded == ~failure => pending < FlushBytes

\* One warning a month: an entry has one to send only while the row records none,
\* although entries are pruned and reloaded and PATCH clears the row's flag.
WarnedOnce == \A k \in Keys : entry[k].warnPending => ~warnedRow[k]

\* Bytes spent or promised on a key, or in a month, whether or not the cache holds it.
Committed(k) == IF entry[k].loaded THEN entry[k].total + entry[k].reserved ELSE usage[k]
CommittedShared(m) ==
    IF balance[m].loaded THEN balance[m].total + balance[m].reserved
    ELSE SumOver(usage, MonthKeys(m))

\* No step takes the bytes a tunnel spent or was promised beyond its budget, however
\* many requests reserve, settle, close, flush and reload its entry at once.
QuotaNeverOverspent ==
    [][\A k \in Keys : Committed(k)' > Committed(k) =>
          entry'[k].quota = 0 \/ Committed(k)' <= entry'[k].quota]_vars

\* Nor beyond the shared budget, which all tunnels draw on and which the owner may
\* set between any two reservations.
SharedNeverOverspent ==
    [][\A m \in Months : CommittedShared(m)' > CommittedShared(m) =>
          balance'[m].limit = 0 \/ CommittedShared(m)' <= balance'[m].limit]_vars

\* A PATCH has committed a quota for t whose callback has yet to run.
QuotaInDoubt(t) == \E p \in Patchers : patch[p].tunnel = t /\ patch[p].step = "callback"

\* When no callback is due, the budget reserve enforces is the row's, in whatever
\* order concurrent PATCHes committed and called back (the comment of UpdateQuota).
QuotaCoherent ==
    ~failure => \A k \in Keys : entry[k].loaded /\ status[k[1]] # "gone" /\ ~QuotaInDoubt(k[1]) =>
        entry[k].quota = quota[k[1]]

\* No settled byte waits for a row that is gone: an owner's DELETE drains the tunnel
\* before its row goes, and while it waits nothing new is reserved.
NoOrphans == ~Orphaned(entry)

\* What tunnels owe the database and the month they share, together.
SharedBooks == PendingCountsDeltas /\ MonthCoversTunnels /\ NoOrphans

\* With a database that works, deleting tunnels never latches the meter's failure:
\* no flush comes too late for its foreign key (the comment of PrepareDelete).
DeletesKeepMeterReady == FaultyDB \/ ~failure

\* A settlement that moved nothing found the budget lowered below the total and
\* left a mark, which no flush has written or cleared since and no PATCH takes back.
LeftOverStop(t) == \E k \in Keys : k[1] = t /\ entry[k].stopPending /\ ~Dirty(entry[k])

\* A flush turns a tunnel to quota_exceeded only if its usage reached the budget
\* that is in force when it does, not one an owner has raised in the meantime,
\* but for the mark of a settlement of no bytes, which outlives that budget.
StopJustified ==
    [][\A t \in Tunnels :
          (/\ status[t] = "active" /\ status'[t] = "quota_exceeded"
           /\ patch' = patch /\ ~failure /\ ~QuotaInDoubt(t)) =>
              \/ \E k \in Keys : k[1] = t /\ quota[t] > 0 /\ usage'[k] >= quota[t]
              \/ LeftOverStop(t)]_vars

\* A tunnel whose loaded entry spent its budget is not left active: settle stops it
\* in the critical section that spends the last byte.
ExhaustedIsStopped ==
    ~failure => \A k \in Keys :
        entry[k].loaded /\ entry[k].quota > 0 /\ entry[k].total >= entry[k].quota =>
            status[k[1]] # "active"

\* The meter's caches, rows and operations in flight, seen as the ledger's.
Ledger == INSTANCE TrafficLedger WITH
    Unit <- Chunk,
    cap <- [k \in Keys |-> IF entry[k].loaded THEN entry[k].quota ELSE quota[k[1]]],
    durable <- usage,
    settled <- Deltas,
    promised <- [k \in Keys |-> SumOver(held, OpsOn(k))]

\* The meter implements the ledger: promises stay within the budget in force, settled
\* bytes become durable all together or stay settled, and only a crash forgets.
LedgerRefined == Ledger!LedgerSpec

\* Settled bytes do not wait for more traffic or for the request to end: the worker
\* commits them, or the failure is latched.
DirtyFlushed == \A k \in Keys : Dirty(entry[k]) ~> (~Dirty(entry[k]) \/ failure)
=============================================================================
