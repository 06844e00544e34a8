---------------------------- MODULE VisitorGate -----------------------------
(***************************************************************************)
(* What stands between a visitor and a tunnel (serveVisitor, gate, tryKey  *)
(* in internal/tunnel/gateway.go): the setting tunnels_enabled, read       *)
(* through a cache that the operator's PUT empties, the latched failure of *)
(* the meter, and the access key with its limiter.                         *)
(*                                                                         *)
(* The other settings are cached and written in the same way; of them only *)
(* the failing reads and writes matter here.  Requests are visitors of one *)
(* tunnel from one address, or PUTs of the settings.  The rate limit, the  *)
(* tunnel's status and the budget may refuse a visitor at any time.        *)
(***************************************************************************)
EXTENDS ControlPlane

VARIABLES
    enabled,   \* the row of tunnels_enabled, "on" by default
    cache,     \* the cached setting
    unapplied, \* the row was written after the cache was emptied last (history)
    failure,   \* meter.failure is set; it stays until a restart
    limiter,   \* attemptLimiter's entry for the tunnel and the address
    guesses,   \* wrong keys since the limiter has forgotten them last (history)
    doing      \* the requests

gateVars == <<enabled, cache, unapplied, failure, limiter, guesses, doing>>

Values == {"on", "off"}

\* outdated: setVersion has changed since the request noted it.
\* paused: tunnels were off, and nobody was changing that, when the visitor
\* came, and nobody has changed it since (history).
Doing == [step: {"idle", "setting", "read", "store", "budget", "gate", "key", "proxied", "put"},
          val: Values, outdated: BOOLEAN, paused: BOOLEAN]
Idle == [step |-> "idle", val |-> "on", outdated |-> FALSE, paused |-> FALSE]

\* blocked: until the end of the window.
Limiter == [count: 0 .. (KeyAttempts - 1), blocked: BOOLEAN]

Init ==
    /\ enabled = "on" /\ cache = "none" /\ unapplied = FALSE
    /\ failure = FALSE
    /\ limiter = [count |-> 0, blocked |-> FALSE] /\ guesses = 0
    /\ doing = [r \in Requests |-> Idle]

At(r, step) == doing[r].step = step
Goes(r, d) == doing' = [doing EXCEPT ![r] = d]
Proceeds(r, step) == Goes(r, [doing[r] EXCEPT !.step = step])
Ends(r) == Goes(r, Idle)

-----------------------------------------------------------------------------
(* The cached setting                                                      *)

\* handleTunnelSettingsPut writes the settings one by one ...
PutWrites(r, v) ==
    /\ At(r, "idle")
    /\ enabled' = v /\ unapplied' = TRUE
    /\ doing' = [q \in Requests |-> IF q = r THEN [Idle EXCEPT !.step = "put"]
                                    ELSE [doing[q] EXCEPT !.paused = FALSE]]
    /\ UNCHANGED <<cache, failure, limiter, guesses>>

\* ... and returns at once if one of them fails, ...
PutFails(r) ==
    /\ At(r, "put")
    /\ Ends(r)
    /\ UNCHANGED <<enabled, cache, unapplied, failure, limiter, guesses>>

\* ... else ResetSettings empties the cache and outdates the reads under way.
PutResets(r) ==
    /\ At(r, "put")
    /\ cache' = "none" /\ unapplied' = FALSE
    /\ doing' = [q \in Requests |-> IF q = r THEN Idle ELSE [doing[q] EXCEPT !.outdated = TRUE]]
    /\ UNCHANGED <<enabled, failure, limiter, guesses>>

Expires ==
    /\ cache # "none"
    /\ cache' = "none"
    /\ UNCHANGED <<enabled, unapplied, failure, limiter, guesses, doing>>

Visit(r) ==
    /\ At(r, "idle")
    /\ Goes(r, [Idle EXCEPT !.step = "setting", !.paused = enabled = "off" /\ ~unapplied])
    /\ UNCHANGED <<enabled, cache, unapplied, failure, limiter, guesses>>

\* Enabled() lets the visitor on or refuses it.
Decides(r, v) == IF v = "on" THEN Proceeds(r, "budget") ELSE Ends(r)

CacheHit(r) ==
    /\ At(r, "setting") /\ cache # "none"
    /\ Decides(r, cache)
    /\ UNCHANGED <<enabled, cache, unapplied, failure, limiter, guesses>>

CacheMiss(r) ==
    /\ At(r, "setting") /\ cache = "none"
    /\ Goes(r, [doing[r] EXCEPT !.step = "read", !.outdated = FALSE])
    /\ UNCHANGED <<enabled, cache, unapplied, failure, limiter, guesses>>

ReadSetting(r) ==
    /\ At(r, "read")
    /\ Goes(r, [doing[r] EXCEPT !.step = "store", !.val = enabled])
    /\ UNCHANGED <<enabled, cache, unapplied, failure, limiter, guesses>>

\* The default stands in for a setting that cannot be read.
ReadFails(r) ==
    /\ At(r, "read")
    /\ failure' = TRUE
    /\ Goes(r, [doing[r] EXCEPT !.step = "store", !.val = "on"])
    /\ UNCHANGED <<enabled, cache, unapplied, limiter, guesses>>

\* Seeded fault: a value read before the cache was emptied is stored.
StoreAnyway(r) == TRUE

Current(r) == ~doing[r].outdated

StoreSetting(r) ==
    /\ At(r, "store") /\ Current(r)
    /\ cache' = doing[r].val
    /\ Decides(r, doing[r].val)
    /\ UNCHANGED <<enabled, unapplied, failure, limiter, guesses>>

ReadAgain(r) ==
    /\ At(r, "store") /\ ~Current(r)
    /\ Proceeds(r, "setting")
    /\ UNCHANGED <<enabled, cache, unapplied, failure, limiter, guesses>>

\* A read of another setting, or of the meter, fails.
OtherFailure ==
    /\ ~failure
    /\ failure' = TRUE
    /\ UNCHANGED <<enabled, cache, unapplied, limiter, guesses, doing>>

-----------------------------------------------------------------------------
(* The meter, the key                                                      *)

\* globalOverBudget refuses everybody while the meter has failed.
UnderBudget(r) ==
    /\ At(r, "budget") /\ ~failure
    /\ Proceeds(r, "gate")
    /\ UNCHANGED <<enabled, cache, unapplied, failure, limiter, guesses>>

\* No key is required, or a cookie proves an earlier one.
GateOpen(r) ==
    /\ At(r, "gate")
    /\ Proceeds(r, "proxied")
    /\ UNCHANGED <<enabled, cache, unapplied, failure, limiter, guesses>>

TryKey(r) ==
    /\ At(r, "gate") /\ ~limiter.blocked
    /\ Proceeds(r, "key")
    /\ UNCHANGED <<enabled, cache, unapplied, failure, limiter, guesses>>

\* Seeded fault: the count goes on behind the block.
RecordedKeepsCount == [count |-> limiter.count + 1,
                       blocked |-> limiter.count + 1 >= KeyAttempts]

Recorded == IF limiter.count + 1 >= KeyAttempts
            THEN [count |-> 0, blocked |-> TRUE] ELSE [limiter EXCEPT !.count = @ + 1]

WrongKey(r) ==
    /\ At(r, "key")
    /\ limiter' = Recorded /\ guesses' = guesses + 1
    /\ Ends(r)
    /\ UNCHANGED <<enabled, cache, unapplied, failure>>

Forgotten == limiter' = [count |-> 0, blocked |-> FALSE] /\ guesses' = 0

\* A bearer key is good for this request; a form sets the cookie and redirects.
RightKey(r) ==
    /\ At(r, "key")
    /\ Forgotten
    /\ Proceeds(r, "proxied") \/ Ends(r)
    /\ UNCHANGED <<enabled, cache, unapplied, failure>>

\* The window passes; failures that did not fill it are still counted.
WindowPasses ==
    /\ limiter.blocked
    /\ limiter' = [limiter EXCEPT !.blocked = FALSE] /\ guesses' = 0
    /\ UNCHANGED <<enabled, cache, unapplied, failure, doing>>

\* A table of more than 10000 addresses is thrown away, blocks and all.
TableDropped ==
    /\ Forgotten
    /\ UNCHANGED <<enabled, cache, unapplied, failure, doing>>

\* Refused for any other reason, or answered.
Leaves(r) ==
    /\ doing[r].step \in {"setting", "budget", "gate", "proxied"}
    /\ Ends(r)
    /\ UNCHANGED <<enabled, cache, unapplied, failure, limiter, guesses>>

Next ==
    \/ \E r \in Requests :
        \/ \E v \in Values : PutWrites(r, v)
        \/ PutFails(r) \/ PutResets(r)
        \/ Visit(r) \/ CacheHit(r) \/ CacheMiss(r)
        \/ ReadSetting(r) \/ ReadFails(r) \/ StoreSetting(r) \/ ReadAgain(r)
        \/ UnderBudget(r) \/ GateOpen(r) \/ TryKey(r) \/ WrongKey(r) \/ RightKey(r)
        \/ Leaves(r)
    \/ Expires \/ OtherFailure \/ WindowPasses \/ TableDropped

Spec == Init /\ [][Next]_gateVars

-----------------------------------------------------------------------------
(* Properties                                                              *)

TypeOK ==
    /\ enabled \in Values /\ cache \in Values \cup {"none"}
    /\ unapplied \in BOOLEAN /\ failure \in BOOLEAN
    /\ limiter \in Limiter
    /\ guesses \in Nat
    /\ doing \in [Requests -> Doing]

\* What is cached is the row, or the row has been written and the cache will
\* be emptied (or the PUT has failed in between: until the entry expires), or
\* the row could not be read and the meter has latched that.
SettingFresh == cache # "none" => cache = enabled \/ unapplied \/ failure

\* Once the operator's PUT has returned, no visitor who comes passes paused
\* tunnels: neither a stale entry, nor a read that began before it, nor the
\* default that stands in for an unreadable setting lets one through.
PauseObeyed ==
    \A r \in Requests : doing[r].step \in {"gate", "key", "proxied"} => ~doing[r].paused

\* The limiter looks before the key is compared and counts after: visitors who
\* come together may exceed KeyAttemptLimit, but by no more than there are
\* others in progress.
KeyGuessesBounded ==
    guesses + Cardinality({r \in Requests : At(r, "key")})
        < KeyAttempts + Cardinality(Requests)
=============================================================================
