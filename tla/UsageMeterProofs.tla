-------------------------- MODULE UsageMeterProofs --------------------------
(***************************************************************************)
(* Theorems about UsageMeter for every number of tunnels, requests, PATCH  *)
(* handlers and months and every value of the byte constants.              *)
(***************************************************************************)
EXTENDS UsageMeter, FunctionTheorems, FiniteSetTheorems, TLAPS

-----------------------------------------------------------------------------
(* The sums of ByteSums, over any finite index set                         *)

\* The tokens of one index are as many as its value.
LEMMA OneIndex ==
    ASSUME NEW x, NEW n \in Nat
    PROVE  /\ IsFiniteSet({x} \X (1..n))
           /\ Cardinality({x} \X (1..n)) = n
<1>1. IsFiniteSet({x}) /\ Cardinality({x}) = 1
  BY FS_Singleton
<1>2. IsFiniteSet(1..n) /\ Cardinality(1..n) = n
  <2>1. IsFiniteSet(1..n) /\ Cardinality(1..n) = IF 1 > n THEN 0 ELSE n - 1 + 1
    BY FS_Interval
  <2> QED BY <2>1
<1>3. /\ IsFiniteSet({x} \X (1..n))
      /\ Cardinality({x} \X (1..n)) = Cardinality({x}) * Cardinality(1..n)
  BY <1>1, <1>2, FS_Product
<1> QED BY <1>1, <1>2, <1>3

\* The sum over a finite set is a natural number.
LEMMA SumIsNat ==
    ASSUME NEW S, IsFiniteSet(S), NEW f, \A x \in S : f[x] \in Nat
    PROVE  IsFiniteSet(Tokens(f, S)) /\ SumOver(f, S) \in Nat
<1> DEFINE part == [x \in S |-> {x} \X (1..f[x])]
           parts == {{x} \X (1..f[x]) : x \in S}
<1>1. part \in Surjection(S, parts)
  BY DEF Surjection
<1>2. IsFiniteSet(parts)
  BY <1>1, FS_Surjection
<1>3. \A T \in parts : IsFiniteSet(T)
  <2>1. \A x \in S : IsFiniteSet({x} \X (1..f[x]))
    BY OneIndex
  <2> QED BY <2>1
<1>4. IsFiniteSet(UNION parts)
  BY <1>2, <1>3, FS_UNION
<1> QED BY <1>4, FS_CardinalityType DEF Tokens, SumOver

\* Only the values on the set matter.
LEMMA SumSame ==
    ASSUME NEW S, NEW f, NEW g, \A x \in S : f[x] = g[x]
    PROVE  SumOver(f, S) = SumOver(g, S)
<1>1. Tokens(f, S) = Tokens(g, S)
  BY DEF Tokens
<1> QED BY <1>1 DEF SumOver

\* Adding an index adds its value.
LEMMA SumAdd ==
    ASSUME NEW S, IsFiniteSet(S), NEW x, x \notin S, NEW f,
           \A y \in S \cup {x} : f[y] \in Nat
    PROVE  SumOver(f, S \cup {x}) = SumOver(f, S) + f[x]
<1> DEFINE new == {x} \X (1..f[x])
<1>1. Tokens(f, S \cup {x}) = Tokens(f, S) \cup new
  BY DEF Tokens
<1>2. Tokens(f, S) \cap new = {}
  BY DEF Tokens
<1>3. IsFiniteSet(Tokens(f, S)) /\ Cardinality(Tokens(f, S)) \in Nat
  BY SumIsNat DEF SumOver
<1>4. f[x] \in Nat /\ IsFiniteSet(new) /\ Cardinality(new) = f[x]
  BY OneIndex
<1>5. Cardinality(Tokens(f, S) \cup new)
        = Cardinality(Tokens(f, S)) + Cardinality(new) - Cardinality(Tokens(f, S) \cap new)
  BY <1>3, <1>4, FS_Union
<1>6. Cardinality(Tokens(f, S) \cap new) = 0
  BY <1>2, FS_EmptySet
<1>7. Cardinality(Tokens(f, S \cup {x})) = Cardinality(Tokens(f, S)) + f[x] - 0
  BY <1>1, <1>4, <1>5, <1>6
<1> QED BY <1>3, <1>7 DEF SumOver

\* Changing one index changes the sum by the difference.
LEMMA SumUpdate ==
    ASSUME NEW S, IsFiniteSet(S), NEW x \in S, NEW f, NEW g,
           \A y \in S : f[y] \in Nat /\ g[y] \in Nat,
           \A y \in S \ {x} : g[y] = f[y]
    PROVE  SumOver(g, S) = SumOver(f, S) - f[x] + g[x]
<1> DEFINE R == S \ {x}
<1>1. IsFiniteSet(R) /\ x \notin R /\ S = R \cup {x}
  BY FS_RemoveElement
<1>2. SumOver(f, S) = SumOver(f, R) + f[x]
  BY <1>1, SumAdd
<1>3. SumOver(g, S) = SumOver(g, R) + g[x]
  BY <1>1, SumAdd
<1>4. SumOver(g, R) = SumOver(f, R)
  BY SumSame
<1>5. SumOver(f, R) \in Nat
  BY <1>1, SumIsNat
<1> QED BY <1>2, <1>3, <1>4, <1>5

\* Indices with value zero may be left out.
LEMMA SumDropZeros ==
    ASSUME NEW S, NEW T, T \subseteq S, NEW f, \A x \in S \ T : f[x] = 0
    PROVE  SumOver(f, T) = SumOver(f, S)
<1>1. \A x \in S \ T : 1..f[x] = {}
  OBVIOUS
<1>2. Tokens(f, T) = Tokens(f, S)
  BY <1>1 DEF Tokens
<1> QED BY <1>2 DEF SumOver

\* A sum of zeros is zero.
LEMMA SumZero ==
    ASSUME NEW S, NEW f, \A x \in S : f[x] = 0
    PROVE  SumOver(f, S) = 0
<1>1. Tokens(f, S) = {}
  BY DEF Tokens
<1> QED BY <1>1, FS_EmptySet DEF SumOver

\* A sum is at least each of its terms.
LEMMA SumAtLeast ==
    ASSUME NEW S, IsFiniteSet(S), NEW x \in S, NEW f, \A y \in S : f[y] \in Nat
    PROVE  f[x] <= SumOver(f, S)
<1> DEFINE R == S \ {x}
<1>1. IsFiniteSet(R) /\ x \notin R /\ S = R \cup {x}
  BY FS_RemoveElement
<1>2. SumOver(f, S) = SumOver(f, R) + f[x]
  BY <1>1, SumAdd
<1>3. SumOver(f, R) \in Nat
  BY <1>1, SumIsNat
<1> QED BY <1>2, <1>3

-----------------------------------------------------------------------------
(* The inductive invariant                                                 *)

\* A handle has an owner from begin to close, and only then I/O in flight.
HandlesOwned ==
    /\ \A r \in Requests : phase[r] # "idle" => owner[r] \in Tunnels
    /\ \A o \in InFlight : phase[o[1]] # "idle"

\* What is not in memory reads as the blank entry or balance.
UnloadedIsBlank ==
    /\ \A k \in Keys : entry[k].loaded \/ entry[k] = NoEntry
    /\ \A m \in Months : balance[m].loaded \/ balance[m] = NoBalance

\* The cascade removed the usage of a deleted tunnel.
GoneIsEmpty == \A k \in Keys : status[k[1]] = "gone" => usage[k] = 0

\* The inductive invariant.
MeterInv ==
    /\ TypeOK
    /\ HandlesOwned
    /\ UnloadedIsBlank
    /\ ReservationsMatchIO
    /\ LedgerMatchesRows
    /\ GoneIsEmpty

-----------------------------------------------------------------------------
(* Helpers                                                                 *)

\* The index sets of all sums are finite.
LEMMA FiniteIndexes ==
    /\ IsFiniteSet(Ops) /\ IsFiniteSet(Keys)
    /\ \A m \in Months : IsFiniteSet(MonthKeys(m))
<1>1. IsFiniteSet({"in", "out"})
  <2>1. IsFiniteSet({"in"} \cup {"out"})
    BY FS_Singleton, FS_Union
  <2> QED BY <2>1, {"in"} \cup {"out"} = {"in", "out"}
<1>2. IsFiniteSet(Months)
  BY MeterAssumption, FS_Interval DEF Months
<1>3. \A m \in Months : IsFiniteSet({m})
  BY FS_Singleton
<1> QED BY <1>1, <1>2, <1>3, MeterAssumption, FS_Product DEF Ops, Keys, MonthKeys

\* The sum of usage that LoadedBalance reads is a natural number.
LEMMA MonthSumIsNat ==
    ASSUME TypeOK, NEW m \in Months
    PROVE  SumOver(usage, MonthKeys(m)) \in Nat
<1>1. \A k \in MonthKeys(m) : usage[k] \in Nat
  BY DEF TypeOK, Keys, MonthKeys
<1> QED BY <1>1, FiniteIndexes, SumIsNat

\* Loading an entry keeps its reservation and its delta.
LEMMA LoadedEntryFacts ==
    ASSUME TypeOK, UnloadedIsBlank, NEW k \in Keys
    PROVE  /\ LoadedEntry(k) \in Entry
           /\ LoadedEntry(k).loaded
           /\ LoadedEntry(k).reserved = entry[k].reserved
           /\ LoadedEntry(k).delta = entry[k].delta
<1>1. CASE entry[k].loaded
  BY <1>1 DEF LoadedEntry, TypeOK, Entry
<1>2. CASE ~entry[k].loaded
  BY <1>2 DEF LoadedEntry, TypeOK, UnloadedIsBlank, Entry, NoEntry, Keys
<1> QED BY <1>1, <1>2

\* Loading a month keeps its reservation.
LEMMA LoadedBalanceFacts ==
    ASSUME TypeOK, UnloadedIsBlank, NEW m \in Months
    PROVE  /\ LoadedBalance(m) \in Balance
           /\ LoadedBalance(m).loaded
           /\ LoadedBalance(m).reserved = balance[m].reserved
<1>1. CASE balance[m].loaded
  BY <1>1 DEF LoadedBalance, TypeOK, Balance
<1>2. CASE ~balance[m].loaded
  BY <1>2, MonthSumIsNat DEF LoadedBalance, TypeOK, UnloadedIsBlank, Balance, NoBalance
<1> QED BY <1>1, <1>2

\* Well-formed caches: typed, and blank where nothing is in memory.
CachesOK(ents, bals, pend) ==
    /\ ents \in [Keys -> Entry] /\ \A k \in Keys : ents[k].loaded \/ ents[k] = NoEntry
    /\ bals \in [Months -> Balance] /\ \A m \in Months : bals[m].loaded \/ bals[m] = NoBalance
    /\ pend \in Nat

\* The step keeps the reservations of these caches and what they are booked on.
ReservedKept(ents, bals) ==
    /\ \A k \in Keys : entry'[k].reserved = ents[k].reserved
    /\ \A m \in Months : balance'[m].reserved = bals[m].reserved
    /\ \A k \in Keys : ents[k].reserved # 0 => entry'[k].loaded = ents[k].loaded
    /\ \A m \in Months : bals[m].reserved # 0 => balance'[m].loaded = bals[m].loaded

\* Whatever a flush does, typed caches stay typed, blank ones stay blank, and
\* every reservation is still booked on a cached entry and balance.
LEMMA FlushKeeps ==
    ASSUME TypeOK, NEW STATE ents, NEW STATE bals, NEW STATE pend, NEW ACTION ph,
           CachesOK(ents, bals, pend), Flush(ents, bals, pend, ph)
    PROVE  /\ CachesOK(entry, balance, pending)'
           /\ ReservedKept(ents, bals)
           /\ failure' \in BOOLEAN
           /\ status' \in [Tunnels -> Statuses]
           /\ usage' \in [Keys -> Nat] /\ warnedRow' \in [Keys -> BOOLEAN]
<1> USE DEF CachesOK, ReservedKept, TypeOK, Entry, NoEntry, Balance, NoBalance
<1>1. CASE pend = 0 /\ entry' = Pruned(ents, ph) /\ balance' = PrunedMonths(bals, entry')
           /\ pending' = 0 /\ UNCHANGED <<failure, status, usage, warnedRow>>
  BY <1>1 DEF Pruned, PrunedMonths
<1>2. CASE Commit(ents, bals, ph)
  <2> DEFINE clean == Cleared(ents)
  <2>1. clean \in [Keys -> Entry]
        /\ \A k \in Keys : clean[k].loaded = ents[k].loaded /\ clean[k].reserved = ents[k].reserved
    <3>1. ASSUME NEW k \in Keys
          PROVE  /\ clean[k] \in Entry
                 /\ clean[k].loaded = ents[k].loaded /\ clean[k].reserved = ents[k].reserved
      BY ents[k] \in Entry DEF Cleared
    <3> QED BY <3>1 DEF Cleared
  <2>2. \A k \in Keys : clean[k].loaded \/ clean[k] = NoEntry
    <3>1. ASSUME NEW k \in Keys, ents[k] = NoEntry
          PROVE  clean[k] = NoEntry
      <4>1. clean[k] = [NoEntry EXCEPT !.delta = 0, !.warnPending = FALSE, !.stopPending = FALSE]
        BY <3>1 DEF Cleared
      <4> QED BY <4>1
    <3> QED BY <2>1, <3>1
  <2>3. entry' = Pruned(clean, ph) /\ balance' = PrunedMonths(bals, entry')
        /\ pending' = 0 /\ failure' = failure
    BY <1>2 DEF Commit
  <2> HIDE DEF clean
  <2>4. /\ entry' \in [Keys -> Entry]
        /\ \A k \in Keys : entry'[k].loaded \/ entry'[k] = NoEntry
        /\ \A k \in Keys : entry'[k].reserved = ents[k].reserved
        /\ \A k \in Keys : ents[k].reserved # 0 => entry'[k].loaded = ents[k].loaded
    BY <2>1, <2>2, <2>3 DEF Pruned
  <2>5. /\ balance' \in [Months -> Balance]
        /\ \A m \in Months : balance'[m].loaded \/ balance'[m] = NoBalance
        /\ \A m \in Months : balance'[m].reserved = bals[m].reserved
        /\ \A m \in Months : bals[m].reserved # 0 => balance'[m].loaded = bals[m].loaded
    BY <2>3 DEF PrunedMonths
  <2>6. status' \in [Tunnels -> Statuses]
    BY <1>2 DEF Commit, Statuses
  <2>7. usage' \in [Keys -> Nat]
    <3>1. \A k \in Keys : usage[k] + ents[k].delta \in Nat
      OBVIOUS
    <3> QED BY <1>2, <3>1 DEF Commit
  <2>8. warnedRow' \in [Keys -> BOOLEAN]
    BY <1>2 DEF Commit, Dirty
  <2> QED BY <2>3, <2>4, <2>5, <2>6, <2>7, <2>8
<1>3. CASE failure' = TRUE /\ entry' = ents /\ balance' = bals /\ pending' = pend
           /\ UNCHANGED <<status, usage, warnedRow>>
  BY <1>3
<1> QED BY <1>1, <1>2, <1>3 DEF Flush

\* The part of the invariant that flushes need of the caches.
LEMMA MeterCaches ==
    TypeOK /\ UnloadedIsBlank <=> TypeOK /\ CachesOK(entry, balance, pending)
BY DEF TypeOK, UnloadedIsBlank, CachesOK

\* A flush keeps the caches and the table in agreement.
LEMMA FlushKeepsLedger ==
    ASSUME TypeOK, GoneIsEmpty,
           NEW STATE ents, ents \in [Keys -> Entry], \A k \in Keys : ents[k].loaded \/ ents[k] = NoEntry,
           \A k \in Keys : ents[k].loaded /\ status[k[1]] # "gone" =>
                ents[k].total = usage[k] + ents[k].delta,
           NEW STATE bals, NEW STATE pend, NEW ACTION ph, Flush(ents, bals, pend, ph)
    PROVE  LedgerMatchesRows' /\ GoneIsEmpty'
<1> USE DEF TypeOK, Entry, NoEntry, LedgerMatchesRows, GoneIsEmpty
<1>1. CASE entry' = Pruned(ents, ph) /\ UNCHANGED <<status, usage>>
  BY <1>1 DEF Pruned
<1>2. CASE Commit(ents, bals, ph)
  <2>1. SUFFICES ASSUME NEW k \in Keys
                 PROVE  /\ entry'[k].loaded /\ status'[k[1]] # "gone" =>
                             entry'[k].total = usage'[k] + entry'[k].delta
                        /\ status'[k[1]] = "gone" => usage'[k] = 0
    OBVIOUS
  <2>2. k[1] \in Tunnels
    BY DEF Keys
  <2>3. status'[k[1]] = "gone" <=> status[k[1]] = "gone"
    BY <1>2, <2>2 DEF Commit
  <2>4. usage'[k] = usage[k] + ents[k].delta /\ ents[k] \in Entry
    BY <1>2 DEF Commit
  <2>5. status[k[1]] = "gone" => ents[k].delta = 0
    BY <1>2 DEF Commit, Orphaned, Dirty
  <2>6. entry'[k].loaded =>
            entry'[k].total = ents[k].total /\ entry'[k].delta = 0 /\ ents[k].loaded
    <3>1. entry'[k] = Cleared(ents)[k] \/ entry'[k] = NoEntry
      BY <1>2 DEF Commit, Pruned
    <3>2. /\ Cleared(ents)[k].total = ents[k].total
          /\ Cleared(ents)[k].delta = 0
          /\ Cleared(ents)[k].loaded = ents[k].loaded
      BY <2>4 DEF Cleared
    <3>3. NoEntry.loaded = FALSE
      OBVIOUS
    <3> QED BY <3>1, <3>2, <3>3
  <2> QED BY <2>3, <2>4, <2>5, <2>6
<1>3. CASE entry' = ents /\ UNCHANGED <<status, usage>>
  BY <1>3
<1> QED BY <1>1, <1>2, <1>3 DEF Flush

-----------------------------------------------------------------------------
(* Reservations                                                            *)

\* The operations booked anywhere are finitely many.
LEMMA OpsFinite ==
    /\ \A k : IsFiniteSet(OpsOn(k))
    /\ \A m : IsFiniteSet(OpsIn(m))
<1>1. \A k : OpsOn(k) \in SUBSET Ops
  BY DEF OpsOn, InFlight
<1>2. \A m : OpsIn(m) \in SUBSET Ops
  BY DEF OpsIn, InFlight
<1> QED BY <1>1, <1>2, FiniteIndexes, FS_Subset

\* An operation in flight is covered by the reservations it is booked on.
LEMMA Booked ==
    ASSUME TypeOK, HandlesOwned, ReservationsMatchIO, NEW o \in InFlight
    PROVE  /\ owner[o[1]] \in Tunnels /\ heldMonth[o] \in Months
           /\ <<owner[o[1]], heldMonth[o]>> \in Keys
           /\ held[o] <= entry[<<owner[o[1]], heldMonth[o]>>].reserved
           /\ held[o] <= balance[heldMonth[o]].reserved
<1> DEFINE k == <<owner[o[1]], heldMonth[o]>>
           m == heldMonth[o]
<1>1. o \in Ops /\ o[1] \in Requests
  BY DEF InFlight, Ops
<1>2. owner[o[1]] \in Tunnels /\ m \in Months
  BY <1>1 DEF HandlesOwned, TypeOK
<1>3. k \in Keys
  BY <1>2 DEF Keys
<1>4. o \in OpsOn(k) /\ o \in OpsIn(m)
  BY DEF OpsOn, OpsIn
<1>5. \A x \in OpsOn(k) \cup OpsIn(m) : held[x] \in Nat
  BY DEF OpsOn, OpsIn, InFlight, TypeOK
<1>6. held[o] <= SumOver(held, OpsOn(k))
  BY <1>4, <1>5, OpsFinite, SumAtLeast
<1>7. held[o] <= SumOver(held, OpsIn(m))
  BY <1>4, <1>5, OpsFinite, SumAtLeast
<1> QED BY <1>2, <1>3, <1>6, <1>7 DEF ReservationsMatchIO

\* Steps that start and end no I/O and keep the reserved amounts.
LEMMA ReservationFrame ==
    ASSUME TypeOK, HandlesOwned, ReservationsMatchIO,
           held' = held, \A o \in InFlight : heldMonth'[o] = heldMonth[o] /\ owner'[o[1]] = owner[o[1]],
           \A k \in Keys : /\ entry'[k].reserved = entry[k].reserved
                           /\ entry[k].reserved # 0 => entry'[k].loaded = entry[k].loaded,
           \A m \in Months : /\ balance'[m].reserved = balance[m].reserved
                             /\ balance[m].reserved # 0 => balance'[m].loaded = balance[m].loaded
    PROVE  ReservationsMatchIO'
<1>1. InFlight' = InFlight
  BY DEF InFlight
<1>2. \A k : OpsOn(k)' = OpsOn(k)
  BY <1>1 DEF OpsOn
<1>3. \A m : OpsIn(m)' = OpsIn(m)
  BY <1>1 DEF OpsIn
<1>4. \A k \in Keys : entry'[k].reserved = SumOver(held, OpsOn(k))'
  BY <1>2 DEF ReservationsMatchIO
<1>5. \A m \in Months : balance'[m].reserved = SumOver(held, OpsIn(m))'
  BY <1>3 DEF ReservationsMatchIO
<1>6. \A o \in InFlight : entry'[<<owner[o[1]], heldMonth[o]>>].loaded /\ balance'[heldMonth[o]].loaded
  <2> SUFFICES ASSUME NEW o \in InFlight
               PROVE  entry'[<<owner[o[1]], heldMonth[o]>>].loaded /\ balance'[heldMonth[o]].loaded
    OBVIOUS
  <2>1. held[o] > 0 /\ held[o] \in Nat
    BY DEF InFlight, TypeOK
  <2>2. entry[<<owner[o[1]], heldMonth[o]>>].reserved # 0 /\ balance[heldMonth[o]].reserved # 0
    BY <2>1, Booked
  <2> QED BY <2>2, Booked DEF ReservationsMatchIO
<1> QED BY <1>1, <1>4, <1>5, <1>6 DEF ReservationsMatchIO

-----------------------------------------------------------------------------
(* The invariant holds initially and is kept by every action               *)

\* The first state: empty caches, nothing in flight.
LEMMA InitInv == Init => MeterInv
<1> SUFFICES ASSUME Init PROVE MeterInv
  OBVIOUS
<1>1. TypeOK
  <2>1. quota \in [Tunnels -> Nat] /\ now \in Months
    <3>1. quota \in [Tunnels -> Quotas] /\ Quotas \subseteq Nat
      BY MeterAssumption DEF Init
    <3>2. now \in Months
      BY MeterAssumption DEF Init, Months
    <3> QED BY <3>1, <3>2
  <2>2. entry \in [Keys -> Entry] /\ balance \in [Months -> Balance]
    BY DEF Init, Entry, NoEntry, Balance, NoBalance
  <2>3. patch \in [Patchers -> Patch]
    BY DEF Init, Patch, NoPatch, Statuses
  <2>4. heldMonth \in [Ops -> Months] /\ held \in [Ops -> Nat]
    BY MeterAssumption DEF Init, Months
  <2> QED BY <2>1, <2>2, <2>3, <2>4 DEF Init, TypeOK, Statuses
<1>2. HandlesOwned
  BY DEF Init, HandlesOwned, InFlight, Ops
<1>3. UnloadedIsBlank
  BY DEF Init, UnloadedIsBlank
<1>4. ReservationsMatchIO
  <2>1. InFlight = {}
    BY DEF Init, InFlight
  <2>2. (\A k : SumOver(held, OpsOn(k)) = 0) /\ (\A m : SumOver(held, OpsIn(m)) = 0)
    BY <2>1, SumZero DEF OpsOn, OpsIn
  <2> QED BY <2>1, <2>2 DEF Init, ReservationsMatchIO, NoEntry, NoBalance
<1>5. LedgerMatchesRows
  BY DEF Init, LedgerMatchesRows, NoEntry
<1>6. GoneIsEmpty
  BY DEF Init, GoneIsEmpty
<1> QED BY <1>1, <1>2, <1>3, <1>4, <1>5, <1>6 DEF MeterInv

\* Steps that leave the caches and the reservations alone keep the reservations.
LEMMA SameCaches ==
    ASSUME TypeOK, HandlesOwned, ReservationsMatchIO, UnloadedIsBlank,
           UNCHANGED <<entry, balance, held, heldMonth, owner>>
    PROVE  ReservationsMatchIO' /\ UnloadedIsBlank'
<1>1. ReservationsMatchIO'
  BY ReservationFrame DEF InFlight
<1>2. UnloadedIsBlank'
  BY DEF UnloadedIsBlank
<1> QED BY <1>1, <1>2

\* requestMeter.begin: a handle without I/O.
LEMMA BeginInv ==
    ASSUME MeterInv, NEW r \in Requests, NEW t \in Tunnels, Begin(r, t)
    PROVE  MeterInv'
<1> USE DEF MeterInv, Begin, rowVars, memVars
<1>1. TypeOK'
  BY DEF TypeOK
<1>2. HandlesOwned' /\ \A o \in InFlight : owner'[o[1]] = owner[o[1]]
  BY DEF HandlesOwned, InFlight, TypeOK, Ops
<1>3. ReservationsMatchIO'
  BY <1>2, ReservationFrame
<1>4. UnloadedIsBlank' /\ LedgerMatchesRows' /\ GoneIsEmpty'
  BY DEF UnloadedIsBlank, LedgerMatchesRows, GoneIsEmpty
<1> QED BY <1>1, <1>2, <1>3, <1>4

\* close() shuts the handle.
LEMMA CloseHandleInv ==
    ASSUME MeterInv, NEW r \in Requests, CloseHandle(r)
    PROVE  MeterInv'
<1> USE DEF MeterInv, CloseHandle, rowVars, memVars
<1>1. TypeOK'
  BY DEF TypeOK
<1>2. HandlesOwned'
  BY DEF HandlesOwned, InFlight, TypeOK, Ops
<1>3. ReservationsMatchIO' /\ UnloadedIsBlank'
  BY SameCaches
<1>4. LedgerMatchesRows' /\ GoneIsEmpty'
  BY DEF LedgerMatchesRows, GoneIsEmpty
<1> QED BY <1>1, <1>2, <1>3, <1>4

\* close() retires a handle whose I/O has settled and flushes.
LEMMA CloseFlushInv ==
    ASSUME MeterInv, NEW r \in Requests, CloseFlush(r)
    PROVE  MeterInv'
<1> USE DEF MeterInv, CloseFlush
<1>0. /\ CachesOK(entry, balance, pending)' /\ ReservedKept(entry, balance)
      /\ failure' \in BOOLEAN /\ status' \in [Tunnels -> Statuses]
      /\ usage' \in [Keys -> Nat] /\ warnedRow' \in [Keys -> BOOLEAN]
  BY MeterCaches, FlushKeeps
<1>1. \A o \in InFlight : o[1] # r /\ owner'[o[1]] = owner[o[1]]
  BY DEF InFlight, TypeOK, Ops
<1>2. TypeOK'
  BY <1>0 DEF TypeOK, CachesOK, reqVars
<1>3. HandlesOwned'
  BY <1>1 DEF HandlesOwned, InFlight, TypeOK, Ops
<1>4. UnloadedIsBlank'
  BY <1>0 DEF UnloadedIsBlank, CachesOK
<1>5. ReservationsMatchIO'
  BY <1>0, <1>1, ReservationFrame DEF ReservedKept
<1>6. LedgerMatchesRows' /\ GoneIsEmpty'
  BY FlushKeepsLedger DEF TypeOK, UnloadedIsBlank, LedgerMatchesRows
<1> QED BY <1>2, <1>3, <1>4, <1>5, <1>6

\* The worker's flush.
LEMMA FlushTickInv ==
    ASSUME MeterInv, FlushTick
    PROVE  MeterInv'
<1> USE DEF MeterInv, FlushTick, reqVars
<1>0. /\ CachesOK(entry, balance, pending)' /\ ReservedKept(entry, balance)
      /\ failure' \in BOOLEAN /\ status' \in [Tunnels -> Statuses]
      /\ usage' \in [Keys -> Nat] /\ warnedRow' \in [Keys -> BOOLEAN]
  BY MeterCaches, FlushKeeps
<1>1. TypeOK'
  BY <1>0 DEF TypeOK, CachesOK
<1>2. HandlesOwned'
  BY DEF HandlesOwned, InFlight
<1>3. UnloadedIsBlank'
  BY <1>0 DEF UnloadedIsBlank, CachesOK
<1>4. ReservationsMatchIO'
  BY <1>0, ReservationFrame DEF ReservedKept
<1>5. LedgerMatchesRows' /\ GoneIsEmpty'
  BY FlushKeepsLedger DEF TypeOK, UnloadedIsBlank, LedgerMatchesRows
<1> QED BY <1>1, <1>2, <1>3, <1>4, <1>5

\* Steps that only load caches, or only change rows, PATCH handlers or the clock.
LEMMA ReserveRefusedInv ==
    ASSUME MeterInv, NEW o \in Ops, NEW n \in Nat, NEW limit \in Limits, ReserveRefused(o, n, limit)
    PROVE  MeterInv'
<1> DEFINE k == <<owner[o[1]], now>>
           e == LoadedEntry(k)
           b == [LoadedBalance(now) EXCEPT !.limit = limit]
<1> USE DEF MeterInv
<1>1. o[1] \in Requests /\ owner[o[1]] \in Tunnels /\ k \in Keys /\ limit \in Nat
  BY MeterAssumption DEF ReserveRefused, CanReserve, HandlesOwned, Ops, Keys, TypeOK
<1>2. e \in Entry /\ e.loaded /\ e.reserved = entry[k].reserved /\ e.delta = entry[k].delta
  BY <1>1, LoadedEntryFacts
<1>3. b \in Balance /\ b.loaded /\ b.reserved = balance[now].reserved
  BY <1>1, LoadedBalanceFacts DEF TypeOK, Balance
<1>4. entry' = [entry EXCEPT ![k] = e] /\ balance' = [balance EXCEPT ![now] = b]
      /\ UNCHANGED <<rowVars, pending, failure, now, reqVars, patch>>
  BY DEF ReserveRefused
<1>5. e.loaded /\ status[k[1]] # "gone" => e.total = usage[k] + e.delta
  BY <1>1 DEF LoadedEntry, LedgerMatchesRows, TypeOK, NoEntry, Keys, Entry
<1> HIDE DEF k, e, b
<1>6. TypeOK'
  BY <1>1, <1>2, <1>3, <1>4 DEF TypeOK, rowVars, reqVars
<1>7. HandlesOwned'
  BY <1>4 DEF HandlesOwned, InFlight, reqVars
<1>8. UnloadedIsBlank'
  BY <1>2, <1>3, <1>4 DEF UnloadedIsBlank, TypeOK
<1>10. ReservationsMatchIO'
  <2>1. \A j \in Keys : entry'[j].reserved = entry[j].reserved
    BY <1>2, <1>4 DEF TypeOK
  <2>2. \A j \in Keys : entry[j].reserved # 0 => entry'[j].loaded = entry[j].loaded
    BY <1>2, <1>4 DEF TypeOK, UnloadedIsBlank, NoEntry, Entry
  <2>3. \A m \in Months : balance'[m].reserved = balance[m].reserved
    BY <1>3, <1>4 DEF TypeOK
  <2>4. \A m \in Months : balance[m].reserved # 0 => balance'[m].loaded = balance[m].loaded
    BY <1>3, <1>4 DEF TypeOK, UnloadedIsBlank, NoBalance, Balance
  <2> QED BY <1>4, <2>1, <2>2, <2>3, <2>4, ReservationFrame DEF reqVars
<1>11. LedgerMatchesRows' /\ GoneIsEmpty'
  BY <1>1, <1>4, <1>5 DEF LedgerMatchesRows, GoneIsEmpty, rowVars, TypeOK
<1> QED BY <1>6, <1>7, <1>8, <1>10, <1>11

\* reserve grants bytes: they are booked on an entry and a month it has loaded.
LEMMA ReserveInv ==
    ASSUME MeterInv, NEW o \in Ops, NEW n \in Nat, NEW limit \in Limits, Reserve(o, n, limit)
    PROVE  MeterInv'
<1> DEFINE k == <<owner[o[1]], now>>
           e == LoadedEntry(k)
           b == [LoadedBalance(now) EXCEPT !.limit = limit]
           w == Want(n, e, b)
           e2 == [e EXCEPT !.reserved = @ + w]
           b2 == [b EXCEPT !.reserved = @ + w]
<1> USE DEF MeterInv
<1>1. o[1] \in Requests /\ owner[o[1]] \in Tunnels /\ now \in Months /\ k \in Keys /\ limit \in Nat
  BY MeterAssumption DEF Reserve, CanReserve, HandlesOwned, Ops, Keys, TypeOK
<1>2. e \in Entry /\ e.loaded /\ e.reserved = entry[k].reserved /\ e.delta = entry[k].delta
  BY <1>1, LoadedEntryFacts
<1>3. b \in Balance /\ b.loaded /\ b.reserved = balance[now].reserved
  BY <1>1, LoadedBalanceFacts DEF TypeOK, Balance
<1>4. w \in Nat /\ w > 0
  <2>1. w \in Int
    BY <1>2, <1>3, MeterAssumption DEF Want, Entry, Balance
  <2>2. w > 0
    BY DEF Reserve
  <2> QED BY <2>1, <2>2
<1>5. /\ phase[o[1]] = "open" /\ held[o] = 0
      /\ entry' = [entry EXCEPT ![k] = e2] /\ balance' = [balance EXCEPT ![now] = b2]
      /\ held' = [held EXCEPT ![o] = w] /\ heldMonth' = [heldMonth EXCEPT ![o] = now]
      /\ UNCHANGED <<rowVars, pending, failure, now, phase, owner, patch>>
  BY DEF Reserve, CanReserve
<1>6. e.loaded /\ status[k[1]] # "gone" => e.total = usage[k] + e.delta
  BY <1>1 DEF LoadedEntry, LedgerMatchesRows, TypeOK, NoEntry, Keys, Entry
<1>7. /\ e2 \in Entry /\ e2.loaded /\ e2.reserved = entry[k].reserved + w
      /\ e2.total = e.total /\ e2.delta = e.delta
      /\ b2 \in Balance /\ b2.loaded /\ b2.reserved = balance[now].reserved + w
  <2> HIDE DEF e, b, w
  <2> QED BY <1>2, <1>3, <1>4 DEF Entry, Balance
<1> HIDE DEF k, e, b, w, e2, b2
<1>8. TypeOK'
  BY <1>1, <1>4, <1>5, <1>7 DEF TypeOK, rowVars
<1>9. InFlight' = InFlight \cup {o} /\ o \notin InFlight
  BY <1>4, <1>5 DEF InFlight, TypeOK
<1>10. HandlesOwned'
  BY <1>5, <1>9 DEF HandlesOwned
<1>11. UnloadedIsBlank'
  BY <1>5, <1>7 DEF UnloadedIsBlank, TypeOK
<1>12. ReservationsMatchIO'
  <2>1. \A x \in InFlight : x # o /\ held'[x] = held[x] /\ heldMonth'[x] = heldMonth[x] /\ held[x] \in Nat
    BY <1>5, <1>9 DEF TypeOK, InFlight
  <2>2. held'[o] = w /\ heldMonth'[o] = now /\ owner' = owner
    BY <1>5 DEF TypeOK
  <2>3. ASSUME NEW j \in Keys PROVE entry'[j].reserved = SumOver(held, OpsOn(j))'
    <3>1. \A x \in OpsOn(j) : x \in InFlight
      BY DEF OpsOn
    <3>2. SumOver(held', OpsOn(j)) = SumOver(held, OpsOn(j))
      BY <2>1, <3>1, SumSame
    <3>3. CASE j = k
      <4>1. OpsOn(j)' = OpsOn(j) \cup {o} /\ o \notin OpsOn(j)
        BY <1>9, <2>1, <2>2, <3>3 DEF OpsOn, k
      <4>2. \A x \in OpsOn(j) \cup {o} : held'[x] \in Nat
        BY <1>4, <2>1, <2>2, <3>1
      <4>3. SumOver(held', OpsOn(j) \cup {o}) = SumOver(held', OpsOn(j)) + held'[o]
        BY <4>1, <4>2, OpsFinite, SumAdd
      <4>4. entry[j].reserved = SumOver(held, OpsOn(j))
        BY DEF ReservationsMatchIO
      <4>5. entry'[j].reserved = entry[j].reserved + w
        BY <1>5, <1>7, <3>3 DEF TypeOK
      <4> QED BY <2>2, <3>2, <4>1, <4>3, <4>4, <4>5
    <3>4. CASE j # k
      <4>1. ~(owner[o[1]] = j[1] /\ now = j[2])
        BY <3>4 DEF k, Keys
      <4>2. OpsOn(j)' = OpsOn(j)
        BY <1>9, <2>1, <2>2, <4>1 DEF OpsOn
      <4>3. entry'[j] = entry[j]
        BY <1>5, <3>4 DEF TypeOK
      <4> QED BY <3>2, <4>2, <4>3 DEF ReservationsMatchIO
    <3> QED BY <3>3, <3>4
  <2>4. ASSUME NEW m \in Months PROVE balance'[m].reserved = SumOver(held, OpsIn(m))'
    <3>1. \A x \in OpsIn(m) : x \in InFlight
      BY DEF OpsIn
    <3>2. SumOver(held', OpsIn(m)) = SumOver(held, OpsIn(m))
      BY <2>1, <3>1, SumSame
    <3>3. CASE m = now
      <4>1. OpsIn(m)' = OpsIn(m) \cup {o} /\ o \notin OpsIn(m)
        BY <1>9, <2>1, <2>2, <3>3 DEF OpsIn
      <4>2. \A x \in OpsIn(m) \cup {o} : held'[x] \in Nat
        BY <1>4, <2>1, <2>2, <3>1
      <4>3. SumOver(held', OpsIn(m) \cup {o}) = SumOver(held', OpsIn(m)) + held'[o]
        BY <4>1, <4>2, OpsFinite, SumAdd
      <4>4. balance[m].reserved = SumOver(held, OpsIn(m))
        BY DEF ReservationsMatchIO
      <4>5. balance'[m].reserved = balance[m].reserved + w
        BY <1>5, <1>7, <3>3 DEF TypeOK
      <4> QED BY <2>2, <3>2, <4>1, <4>3, <4>4, <4>5
    <3>4. CASE m # now
      <4>1. OpsIn(m)' = OpsIn(m)
        BY <1>9, <2>1, <2>2, <3>4 DEF OpsIn
      <4>2. balance'[m] = balance[m]
        BY <1>5, <3>4 DEF TypeOK
      <4> QED BY <3>2, <4>1, <4>2 DEF ReservationsMatchIO
    <3> QED BY <3>3, <3>4
  <2>5. \A j \in Keys : entry[j].loaded => entry'[j].loaded
    BY <1>5, <1>7 DEF TypeOK
  <2>6. \A m \in Months : balance[m].loaded => balance'[m].loaded
    BY <1>5, <1>7 DEF TypeOK
  <2>7. ASSUME NEW x \in InFlight'
        PROVE  entry'[<<owner'[x[1]], heldMonth'[x]>>].loaded /\ balance'[heldMonth'[x]].loaded
    <3>1. CASE x = o
      BY <1>1, <1>5, <1>7, <2>2, <3>1 DEF k, TypeOK
    <3>2. CASE x \in InFlight
      BY <2>1, <2>2, <2>5, <2>6, <3>2, Booked DEF ReservationsMatchIO
    <3> QED BY <1>9, <2>7, <3>1, <3>2
  <2> QED BY <2>3, <2>4, <2>7 DEF ReservationsMatchIO
<1>13. LedgerMatchesRows' /\ GoneIsEmpty'
  BY <1>1, <1>2, <1>5, <1>6, <1>7 DEF LedgerMatchesRows, GoneIsEmpty, rowVars, TypeOK
<1> QED BY <1>8, <1>10, <1>11, <1>12, <1>13

\* Loading the month's balance changes nothing else.
LEMMA BalanceLoadInv ==
    ASSUME MeterInv, balance' \in {balance, [balance EXCEPT ![now] = LoadedBalance(now)]},
           failure' \in BOOLEAN, UNCHANGED <<rowVars, entry, pending, now, reqVars, patch>>
    PROVE  MeterInv'
<1> USE DEF MeterInv, rowVars, reqVars
<1>1. \A m \in Months : /\ balance'[m] \in Balance
                        /\ balance'[m].loaded \/ balance'[m] = NoBalance
                        /\ balance'[m].reserved = balance[m].reserved
                        /\ balance[m].loaded => balance'[m].loaded
  BY LoadedBalanceFacts DEF TypeOK, UnloadedIsBlank
<1>2. balance' \in [Months -> Balance]
  BY <1>1 DEF TypeOK
<1>3. TypeOK'
  BY <1>2 DEF TypeOK
<1>4. HandlesOwned'
  BY DEF HandlesOwned, InFlight
<1>5. UnloadedIsBlank'
  BY <1>1 DEF UnloadedIsBlank
<1>6. \A m \in Months : balance[m].reserved # 0 => balance[m].loaded
  BY DEF UnloadedIsBlank, NoBalance
<1>7. ReservationsMatchIO'
  BY <1>1, <1>6, ReservationFrame DEF TypeOK, Balance
<1>8. LedgerMatchesRows' /\ GoneIsEmpty'
  BY DEF LedgerMatchesRows, GoneIsEmpty
<1> QED BY <1>3, <1>4, <1>5, <1>7, <1>8

\* reserve finds no active row: at most the month was loaded.
LEMMA ReserveUnloadedInv ==
    ASSUME MeterInv, NEW o \in Ops, ReserveUnloaded(o)
    PROVE  MeterInv'
BY BalanceLoadInv DEF MeterInv, TypeOK, ReserveUnloaded

\* globalOverBudget loads the month.
LEMMA GlobalOverBudgetInv ==
    ASSUME MeterInv, GlobalOverBudget
    PROVE  MeterInv'
BY BalanceLoadInv DEF MeterInv, TypeOK, GlobalOverBudget

\* What settling n of h reserved bytes does to the entry and the balance.
LEMMA SettledFacts ==
    ASSUME NEW en \in Entry, NEW ba \in Balance, NEW h \in Nat, NEW n \in Nat, n <= h,
           h <= en.reserved, h <= ba.reserved
    PROVE  /\ SettledEntry(en, h, n) \in Entry
           /\ SettledEntry(en, h, n).loaded = en.loaded
           /\ SettledEntry(en, h, n).reserved = en.reserved - h
           /\ SettledEntry(en, h, n).total = en.total + n
           /\ SettledEntry(en, h, n).delta = en.delta + n
           /\ SettledEntry(en, h, n).quota = en.quota
           /\ SettledBalance(ba, h, n) \in Balance
           /\ SettledBalance(ba, h, n).loaded = ba.loaded
           /\ SettledBalance(ba, h, n).reserved = ba.reserved - h
           /\ SettledBalance(ba, h, n).total = ba.total + n
           /\ SettledBalance(ba, h, n).limit = ba.limit
<1> DEFINE tot == en.total + n
           crossed == en.quota > 0 /\ ~en.warned /\ tot >= (en.quota * 8) \div 10
           stop == en.stopPending \/ (en.quota > 0 /\ tot >= en.quota)
           warn == en.warnPending \/ crossed
           warned == en.warned \/ crossed
<1>1. stop \in BOOLEAN /\ warn \in BOOLEAN /\ warned \in BOOLEAN
  BY DEF Entry
<1>2. tot \in Nat /\ en.delta + n \in Nat /\ en.reserved - h \in Nat
      /\ ba.total + n \in Nat /\ ba.reserved - h \in Nat
  BY DEF Entry, Balance
<1>3. SettledEntry(en, h, n) =
          [en EXCEPT !.total = tot, !.reserved = en.reserved - h, !.delta = en.delta + n,
                     !.stopPending = stop, !.warnPending = warn, !.warned = warned]
  BY DEF SettledEntry
<1>4. SettledBalance(ba, h, n) = [ba EXCEPT !.total = ba.total + n, !.reserved = ba.reserved - h]
  BY DEF SettledBalance
<1>5. tot = en.total + n
  OBVIOUS
<1> HIDE DEF tot, stop, warn, warned, crossed
<1> QED BY <1>1, <1>2, <1>3, <1>4, <1>5 DEF Entry, Balance

\* settle takes one operation off its entry and month, charges them, and may flush.
LEMMA SettleInv ==
    ASSUME MeterInv, NEW o \in Ops, NEW n \in Nat, Settle(o, n)
    PROVE  MeterInv'
<1> DEFINE m == heldMonth[o]
           k == <<owner[o[1]], m>>
           e == SettledEntry(entry[k], held[o], n)
           b == SettledBalance(balance[m], held[o], n)
           ents == [entry EXCEPT ![k] = e]
           bals == [balance EXCEPT ![m] = b]
<1> USE DEF MeterInv
<1>1. /\ held[o] \in Nat /\ held[o] > 0 /\ n <= held[o] /\ o \in InFlight
      /\ held' = [held EXCEPT ![o] = 0] /\ heldMonth' = [heldMonth EXCEPT ![o] = 1]
      /\ UNCHANGED <<quota, now, phase, owner, patch>>
  BY DEF Settle, InFlight, TypeOK
<1>2. /\ owner[o[1]] \in Tunnels /\ m \in Months /\ k \in Keys
      /\ held[o] <= entry[k].reserved /\ held[o] <= balance[m].reserved
      /\ entry[k] \in Entry /\ balance[m] \in Balance /\ entry[k].loaded /\ balance[m].loaded
  BY <1>1, Booked DEF TypeOK, ReservationsMatchIO
<1>3. /\ e \in Entry /\ e.loaded /\ e.reserved = entry[k].reserved - held[o]
      /\ e.total = entry[k].total + n /\ e.delta = entry[k].delta + n
  BY <1>1, <1>2, SettledFacts
<1>4. b \in Balance /\ b.loaded /\ b.reserved = balance[m].reserved - held[o]
  BY <1>1, <1>2, SettledFacts
<1>5. \/ Flush(ents, bals, pending + n, phase)
      \/ entry' = ents /\ balance' = bals /\ pending' = pending + n /\ UNCHANGED <<rowVars, failure>>
  BY DEF Settle
<1> HIDE DEF m, k, e, b
<1>6. /\ ents \in [Keys -> Entry] /\ \A j \in Keys : ents[j].loaded \/ ents[j] = NoEntry
      /\ bals \in [Months -> Balance] /\ \A j \in Months : bals[j].loaded \/ bals[j] = NoBalance
      /\ pending + n \in Nat
  BY <1>2, <1>3, <1>4 DEF TypeOK, UnloadedIsBlank
<1>7. \A j \in Keys : ents[j].loaded /\ status[j[1]] # "gone" =>
          ents[j].total = usage[j] + ents[j].delta
  <2>1. entry[k].loaded /\ status[k[1]] # "gone" => entry[k].total = usage[k] + entry[k].delta
    BY <1>2 DEF LedgerMatchesRows
  <2>2. entry[k].total \in Nat /\ entry[k].delta \in Nat /\ usage[k] \in Nat
    BY <1>2 DEF TypeOK, Entry
  <2>3. status[k[1]] # "gone" => e.total = usage[k] + e.delta
    BY <1>2, <1>3, <2>1, <2>2
  <2>4. \A j \in Keys : ents[j] = IF j = k THEN e ELSE entry[j]
    BY DEF TypeOK
  <2> QED BY <2>3, <2>4 DEF LedgerMatchesRows
<1>8. \A j \in Keys : ents[j] = IF j = k THEN e ELSE entry[j]
  BY DEF TypeOK
<1>9. \A j \in Months : bals[j] = IF j = m THEN b ELSE balance[j]
  BY DEF TypeOK
<1> HIDE DEF ents, bals
<1>10. /\ entry' \in [Keys -> Entry] /\ balance' \in [Months -> Balance]
       /\ pending' \in Nat /\ failure' \in BOOLEAN /\ status' \in [Tunnels -> Statuses]
       /\ usage' \in [Keys -> Nat] /\ warnedRow' \in [Keys -> BOOLEAN]
       /\ UnloadedIsBlank'
       /\ \A j \in Keys : entry'[j].reserved = ents[j].reserved
       /\ \A j \in Months : balance'[j].reserved = bals[j].reserved
       /\ \A j \in Keys : ents[j].reserved # 0 => entry'[j].loaded = ents[j].loaded
       /\ \A j \in Months : bals[j].reserved # 0 => balance'[j].loaded = bals[j].loaded
  <2>1. CASE Flush(ents, bals, pending + n, phase)
    BY <1>6, <2>1, FlushKeeps DEF UnloadedIsBlank, CachesOK, ReservedKept
  <2>2. CASE entry' = ents /\ balance' = bals /\ pending' = pending + n /\ UNCHANGED <<rowVars, failure>>
    BY <1>6, <2>2 DEF TypeOK, UnloadedIsBlank, rowVars
  <2> QED BY <1>5, <2>1, <2>2
<1>11. TypeOK'
  BY <1>1, <1>10, MeterAssumption DEF TypeOK, Months
<1>12. InFlight' = InFlight \ {o}
  BY <1>1 DEF InFlight, TypeOK
<1>13. HandlesOwned'
  BY <1>1, <1>12 DEF HandlesOwned
<1>14. \A x \in InFlight' : /\ x \in InFlight /\ held'[x] = held[x] /\ heldMonth'[x] = heldMonth[x]
                            /\ owner' = owner /\ held[x] \in Nat /\ held[x] > 0
  BY <1>1, <1>12 DEF InFlight, TypeOK
<1>15. ASSUME NEW j \in Keys PROVE ents[j].reserved = SumOver(held, OpsOn(j))'
  <2>1. OpsOn(j)' = OpsOn(j) \ {o}
    BY <1>12, <1>14, <1>1 DEF OpsOn
  <2>2. SumOver(held', OpsOn(j)') = SumOver(held, OpsOn(j)')
    BY <1>14, SumSame DEF OpsOn
  <2>3. entry[j].reserved = SumOver(held, OpsOn(j))
    BY DEF ReservationsMatchIO
  <2>4. CASE j = k
    <3>1. o \in OpsOn(j)
      BY <1>1, <2>4 DEF OpsOn, k, m
    <3>2. \A x \in OpsOn(j) : held[x] \in Nat
      BY DEF OpsOn, InFlight, TypeOK
    <3>3. IsFiniteSet(OpsOn(j) \ {o}) /\ OpsOn(j) = (OpsOn(j) \ {o}) \cup {o}
      BY <3>1, OpsFinite, FS_RemoveElement
    <3>4. SumOver(held, OpsOn(j)) = SumOver(held, OpsOn(j) \ {o}) + held[o]
      BY <3>2, <3>3, SumAdd
    <3>5. SumOver(held, OpsOn(j) \ {o}) \in Nat
      BY <3>2, <3>3, SumIsNat
    <3> QED BY <1>1, <1>3, <1>8, <2>1, <2>2, <2>3, <2>4, <3>4, <3>5
  <2>5. CASE j # k
    <3>1. o \notin OpsOn(j)
      BY <2>5 DEF OpsOn, k, m, Keys
    <3> QED BY <1>8, <2>1, <2>2, <2>3, <2>5, <3>1
  <2> QED BY <2>4, <2>5
<1>16. ASSUME NEW j \in Months PROVE bals[j].reserved = SumOver(held, OpsIn(j))'
  <2>1. OpsIn(j)' = OpsIn(j) \ {o}
    BY <1>12, <1>14, <1>1 DEF OpsIn
  <2>2. SumOver(held', OpsIn(j)') = SumOver(held, OpsIn(j)')
    BY <1>14, SumSame DEF OpsIn
  <2>3. balance[j].reserved = SumOver(held, OpsIn(j))
    BY DEF ReservationsMatchIO
  <2>4. CASE j = m
    <3>1. o \in OpsIn(j)
      BY <1>1, <2>4 DEF OpsIn, m
    <3>2. \A x \in OpsIn(j) : held[x] \in Nat
      BY DEF OpsIn, InFlight, TypeOK
    <3>3. IsFiniteSet(OpsIn(j) \ {o}) /\ OpsIn(j) = (OpsIn(j) \ {o}) \cup {o}
      BY <3>1, OpsFinite, FS_RemoveElement
    <3>4. SumOver(held, OpsIn(j)) = SumOver(held, OpsIn(j) \ {o}) + held[o]
      BY <3>2, <3>3, SumAdd
    <3>5. SumOver(held, OpsIn(j) \ {o}) \in Nat
      BY <3>2, <3>3, SumIsNat
    <3> QED BY <1>1, <1>4, <1>9, <2>1, <2>2, <2>3, <2>4, <3>4, <3>5
  <2>5. CASE j # m
    <3>1. o \notin OpsIn(j)
      BY <2>5 DEF OpsIn, m
    <3> QED BY <1>9, <2>1, <2>2, <2>3, <2>5, <3>1
  <2> QED BY <2>4, <2>5
<1>17. ReservationsMatchIO'
  <2>1. ASSUME NEW x \in InFlight'
        PROVE  entry'[<<owner'[x[1]], heldMonth'[x]>>].loaded /\ balance'[heldMonth'[x]].loaded
    <3> DEFINE j == <<owner[x[1]], heldMonth[x]>>
    <3>1. j \in Keys /\ heldMonth[x] \in Months
      BY <1>14, Booked
    <3>2. x \in OpsOn(j)' /\ x \in OpsIn(heldMonth[x])'
      BY <1>14, <3>1 DEF OpsOn, OpsIn
    <3>3. ents[j].loaded /\ bals[heldMonth[x]].loaded
      BY <1>3, <1>4, <1>8, <1>9, <1>14, <3>1 DEF ReservationsMatchIO
    <3>4. IsFiniteSet(OpsOn(j)') /\ IsFiniteSet(OpsIn(heldMonth[x])')
      <4>1. OpsOn(j)' \in SUBSET Ops /\ OpsIn(heldMonth[x])' \in SUBSET Ops
        BY DEF OpsOn, OpsIn, InFlight
      <4> QED BY <4>1, FiniteIndexes, FS_Subset
    <3>5. held'[x] <= SumOver(held', OpsOn(j)') /\ held'[x] <= SumOver(held', OpsIn(heldMonth[x])')
      <4>1. \A y \in OpsOn(j)' \cup OpsIn(heldMonth[x])' : held'[y] \in Nat
        BY <1>14 DEF OpsOn, OpsIn
      <4> QED BY <3>2, <3>4, <4>1, SumAtLeast
    <3>6. ents[j].reserved # 0 /\ bals[heldMonth[x]].reserved # 0
      BY <1>14, <1>15, <1>16, <3>1, <3>5
    <3> QED BY <1>10, <1>14, <3>1, <3>3, <3>6
  <2> QED BY <1>10, <1>15, <1>16, <2>1 DEF ReservationsMatchIO
<1>18. LedgerMatchesRows' /\ GoneIsEmpty'
  <2>1. CASE Flush(ents, bals, pending + n, phase)
    BY <1>6, <1>7, <2>1, FlushKeepsLedger
  <2>2. CASE entry' = ents /\ UNCHANGED rowVars
    BY <1>7, <2>2 DEF LedgerMatchesRows, GoneIsEmpty, rowVars
  <2> QED BY <1>5, <2>1, <2>2
<1> QED BY <1>10, <1>11, <1>13, <1>17, <1>18

\* A PATCH handler that only moves on changes nothing the invariant relates.
LEMMA PatchStepInv ==
    ASSUME MeterInv, patch' \in [Patchers -> Patch], warnedRow' \in [Keys -> BOOLEAN],
           UNCHANGED <<status, quota, usage, memVars, now, reqVars>>
    PROVE  MeterInv'
<1> USE DEF MeterInv, memVars, reqVars
<1>1. TypeOK'
  BY DEF TypeOK
<1>2. HandlesOwned'
  BY DEF HandlesOwned, InFlight
<1>3. ReservationsMatchIO' /\ UnloadedIsBlank'
  BY SameCaches
<1>4. LedgerMatchesRows' /\ GoneIsEmpty'
  BY DEF LedgerMatchesRows, GoneIsEmpty
<1> QED BY <1>1, <1>2, <1>3, <1>4

\* A PATCH moved to another step keeps its type.
LEMMA PatchAtTyped ==
    ASSUME TypeOK, NEW p \in Patchers, NEW step \in {"idle", "loaded", "callback", "rearm"}
    PROVE  [patch EXCEPT ![p] = PatchAt(p, step)] \in [Patchers -> Patch]
<1>1. NoPatch \in Patch
  BY DEF NoPatch, Patch, Statuses
<1>2. PatchAt(p, step) \in Patch
  BY <1>1 DEF PatchAt, TypeOK, Patch
<1> QED BY <1>2 DEF TypeOK

\* A PATCH reads its row.
LEMMA PatchLoadInv ==
    ASSUME MeterInv, NEW p \in Patchers, NEW t \in Tunnels, NEW s \in StatusFields,
           NEW q \in QuotaFields, PatchLoad(p, t, s, q)
    PROVE  MeterInv'
<1> DEFINE newQuota == IF q = {} THEN quota[t] ELSE CHOOSE x \in q : TRUE
           newStatus == IF s = "keep" THEN status[t] ELSE s
<1>1. newQuota \in Nat
  <2>1. q \subseteq Nat /\ quota[t] \in Nat
    BY MeterAssumption DEF MeterInv, TypeOK
  <2>2. CASE q = {}
    BY <2>1, <2>2
  <2>3. CASE q # {}
    <3>1. (CHOOSE x \in q : TRUE) \in q
      BY <2>3
    <3> QED BY <2>1, <2>3, <3>1
  <2> QED BY <2>2, <2>3
<1>2. newStatus \in Statuses \ {"gone"}
  BY MeterAssumption DEF MeterInv, TypeOK, PatchLoad, Statuses
<1>3. patch' = [patch EXCEPT ![p] =
          [step |-> "loaded", tunnel |-> t, quota |-> newQuota, status |-> newStatus,
           setsQuota |-> q # {}, reenables |-> s = "active" /\ status[t] # "active"]]
      /\ UNCHANGED <<rowVars, memVars, now, reqVars>>
  BY DEF PatchLoad
<1> HIDE DEF newQuota, newStatus
<1>4. patch' \in [Patchers -> Patch]
  BY <1>1, <1>2, <1>3 DEF MeterInv, TypeOK, Patch
<1> QED BY <1>3, <1>4, PatchStepInv DEF MeterInv, TypeOK, rowVars

\* A PATCH fails.
LEMMA PatchFailsInv ==
    ASSUME MeterInv, NEW p \in Patchers, PatchFails(p)
    PROVE  MeterInv'
<1>1. patch' \in [Patchers -> Patch]
  BY PatchAtTyped DEF MeterInv, PatchFails, PatchAt
<1> QED BY <1>1, PatchStepInv DEF MeterInv, TypeOK, PatchFails, rowVars

\* A PATCH clears the row's warned flag.
LEMMA PatchRearmInv ==
    ASSUME MeterInv, NEW p \in Patchers, PatchRearm(p)
    PROVE  MeterInv'
<1>1. patch' \in [Patchers -> Patch]
  BY PatchAtTyped DEF MeterInv, PatchRearm, PatchAt
<1>2. warnedRow' \in [Keys -> BOOLEAN]
  BY DEF MeterInv, TypeOK, PatchRearm
<1> QED BY <1>1, <1>2, PatchStepInv DEF MeterInv, PatchRearm

\* A PATCH writes its row.
LEMMA PatchCommitInv ==
    ASSUME MeterInv, NEW p \in Patchers, PatchCommit(p)
    PROVE  MeterInv'
<1> USE DEF MeterInv, memVars, reqVars
<1>1. patch[p] \in Patch
  BY DEF TypeOK
<1>2. patch' \in [Patchers -> Patch]
  BY PatchAtTyped DEF PatchCommit, NextPatchStep
<1>3. status' \in [Tunnels -> Statuses] /\ quota' \in [Tunnels -> Nat]
  BY <1>1 DEF PatchCommit, TypeOK, Patch
<1>4. \A t \in Tunnels : status'[t] = "gone" <=> status[t] = "gone"
  BY <1>1 DEF PatchCommit, TypeOK, Patch
<1>5. TypeOK'
  BY <1>2, <1>3 DEF TypeOK, PatchCommit
<1>6. HandlesOwned'
  BY DEF HandlesOwned, InFlight, PatchCommit
<1>7. ReservationsMatchIO' /\ UnloadedIsBlank'
  BY SameCaches DEF PatchCommit
<1>8. LedgerMatchesRows' /\ GoneIsEmpty'
  BY <1>4 DEF LedgerMatchesRows, GoneIsEmpty, PatchCommit, Keys
<1> QED BY <1>5, <1>6, <1>7, <1>8

\* UpdateQuota changes the budgets of loaded entries only.
LEMMA UpdateQuotaInv ==
    ASSUME MeterInv, NEW p \in Patchers, UpdateQuota(p)
    PROVE  MeterInv'
<1> USE DEF MeterInv, rowVars, reqVars
<1>1. patch' \in [Patchers -> Patch]
  BY PatchAtTyped DEF UpdateQuota
<1>2. \A k \in Keys : /\ entry'[k] \in Entry
                      /\ entry'[k].loaded = entry[k].loaded
                      /\ entry'[k].reserved = entry[k].reserved
                      /\ entry'[k].total = entry[k].total
                      /\ entry'[k].delta = entry[k].delta
                      /\ ~entry[k].loaded => entry'[k] = entry[k]
  <2>1. CASE UNCHANGED entry
    BY <2>1 DEF TypeOK
  <2>2. CASE entry' = [k \in Keys |->
                 IF status[patch[p].tunnel] # "gone" /\ k[1] = patch[p].tunnel /\ entry[k].loaded
                 THEN [entry[k] EXCEPT !.quota = quota[patch[p].tunnel]] ELSE entry[k]]
    <3> SUFFICES ASSUME NEW k \in Keys
                 PROVE  /\ entry'[k] \in Entry
                        /\ entry'[k].loaded = entry[k].loaded
                        /\ entry'[k].reserved = entry[k].reserved
                        /\ entry'[k].total = entry[k].total
                        /\ entry'[k].delta = entry[k].delta
                        /\ ~entry[k].loaded => entry'[k] = entry[k]
      OBVIOUS
    <3>1. entry[k] \in Entry /\ quota[k[1]] \in Nat
      BY DEF TypeOK, Keys
    <3>2. \/ entry'[k] = entry[k]
          \/ entry[k].loaded /\ entry'[k] = [entry[k] EXCEPT !.quota = quota[k[1]]]
      BY <2>2
    <3> QED BY <3>1, <3>2 DEF Entry
  <2> QED BY <2>1, <2>2 DEF UpdateQuota
<1>3. entry' \in [Keys -> Entry]
  BY <1>2 DEF UpdateQuota, TypeOK
<1>4. TypeOK'
  BY <1>1, <1>3 DEF TypeOK, UpdateQuota
<1>5. HandlesOwned'
  BY DEF HandlesOwned, InFlight, UpdateQuota
<1>6. UnloadedIsBlank'
  BY <1>2 DEF UnloadedIsBlank, UpdateQuota
<1>7. ReservationsMatchIO'
  BY <1>2, ReservationFrame DEF UpdateQuota
<1>8. LedgerMatchesRows' /\ GoneIsEmpty'
  BY <1>2 DEF LedgerMatchesRows, GoneIsEmpty, UpdateQuota
<1> QED BY <1>4, <1>5, <1>6, <1>7, <1>8

\* A row and its usage are deleted, in whatever state its entries are.
LEMMA DropRowInv ==
    ASSUME MeterInv, NEW t \in Tunnels, DropRow(t)
    PROVE  MeterInv'
<1> USE DEF MeterInv, memVars, reqVars
<1>1. TypeOK'
  BY DEF TypeOK, DropRow, Statuses
<1>2. HandlesOwned'
  BY DEF HandlesOwned, InFlight, DropRow
<1>3. ReservationsMatchIO' /\ UnloadedIsBlank'
  BY SameCaches DEF DropRow
<1>4. LedgerMatchesRows' /\ GoneIsEmpty'
  BY DEF LedgerMatchesRows, GoneIsEmpty, DropRow, TypeOK, Keys
<1> QED BY <1>1, <1>2, <1>3, <1>4

\* The calendar moves on under operations in flight.
LEMMA NextMonthInv ==
    ASSUME MeterInv, NextMonth
    PROVE  MeterInv'
<1> USE DEF MeterInv, rowVars, memVars, reqVars
<1>1. TypeOK'
  BY MeterAssumption DEF TypeOK, NextMonth, Months
<1>2. HandlesOwned'
  BY DEF HandlesOwned, InFlight, NextMonth
<1>3. ReservationsMatchIO' /\ UnloadedIsBlank'
  BY SameCaches DEF NextMonth
<1>4. LedgerMatchesRows' /\ GoneIsEmpty'
  BY DEF LedgerMatchesRows, GoneIsEmpty, NextMonth
<1> QED BY <1>1, <1>2, <1>3, <1>4

\* The caches start empty again and nothing is in flight.
LEMMA RestartInv ==
    ASSUME MeterInv, Restart
    PROVE  MeterInv'
<1> USE DEF MeterInv, Restart, rowVars
<1>1. TypeOK'
  <2>1. NoEntry \in Entry /\ NoBalance \in Balance /\ NoPatch \in Patch /\ 1 \in Months
    BY MeterAssumption DEF NoEntry, Entry, NoBalance, Balance, NoPatch, Patch, Statuses, Months
  <2> QED BY <2>1 DEF TypeOK
<1>2. InFlight' = {}
  BY DEF InFlight
<1>3. HandlesOwned'
  BY <1>2 DEF HandlesOwned
<1>4. UnloadedIsBlank'
  BY DEF UnloadedIsBlank
<1>5. ReservationsMatchIO'
  <2>1. (\A k : SumOver(held, OpsOn(k))' = 0) /\ (\A m : SumOver(held, OpsIn(m))' = 0)
    BY <1>2, SumZero DEF OpsOn, OpsIn
  <2> QED BY <1>2, <2>1 DEF ReservationsMatchIO, NoEntry, NoBalance
<1>6. LedgerMatchesRows' /\ GoneIsEmpty'
  BY DEF LedgerMatchesRows, GoneIsEmpty, NoEntry
<1> QED BY <1>1, <1>3, <1>4, <1>5, <1>6

\* Every step of the meter keeps the invariant.
LEMMA StepInv == MeterInv /\ [Next]_vars => MeterInv'
<1> SUFFICES ASSUME MeterInv, [Next]_vars PROVE MeterInv'
  OBVIOUS
<1>1. CASE RequestNext
  <2>1. 1..Chunk + 1 \subseteq Nat /\ 0..Chunk \subseteq Nat
    BY MeterAssumption
  <2> QED BY <1>1, <2>1, BeginInv, CloseHandleInv, CloseFlushInv, ReserveUnloadedInv, ReserveInv,
             ReserveRefusedInv, SettleInv DEF RequestNext
<1>2. CASE PatchNext
  BY <1>2, PatchLoadInv, PatchCommitInv, PatchFailsInv, UpdateQuotaInv, PatchRearmInv DEF PatchNext
<1>3. CASE GlobalOverBudget
  BY <1>3, GlobalOverBudgetInv
<1>4. CASE FlushTick
  BY <1>4, FlushTickInv
<1>5. CASE \E t \in Tunnels : OwnerDelete(t) \/ DeviceDelete(t)
  BY <1>5, DropRowInv DEF OwnerDelete, DeviceDelete
<1>6. CASE NextMonth
  BY <1>6, NextMonthInv
<1>7. CASE Restart
  BY <1>7, RestartInv
<1>8. CASE UNCHANGED vars
  <2> USE <1>8 DEF vars, MeterInv, rowVars, memVars, reqVars
  <2>1. TypeOK'
    BY DEF TypeOK
  <2>2. HandlesOwned'
    BY DEF HandlesOwned, InFlight
  <2>3. ReservationsMatchIO' /\ UnloadedIsBlank'
    BY SameCaches
  <2>4. LedgerMatchesRows' /\ GoneIsEmpty'
    BY DEF LedgerMatchesRows, GoneIsEmpty
  <2> QED BY <2>1, <2>2, <2>3, <2>4
<1> QED BY <1>1, <1>2, <1>3, <1>4, <1>5, <1>6, <1>7, <1>8 DEF Next

-----------------------------------------------------------------------------
(* The theorems                                                            *)

\* The inductive invariant holds in every state of every behaviour.
THEOREM Invariance == Spec => []MeterInv
<1>1. MeterInv /\ [Next]_vars => MeterInv'
  BY StepInv
<1> QED BY <1>1, InitInv, PTL DEF Spec

\* Every variable of the meter, its handles and its rows keeps its type.
THEOREM TypeCorrect == Spec => []TypeOK
<1>1. MeterInv => TypeOK
  BY DEF MeterInv
<1> QED BY <1>1, Invariance, PTL

\* Reserve and settle never lose or invent a reservation, whatever flushes,
\* prunes, restarts and month changes come between them (meter.go 112-191).
THEOREM ReservationsSound == Spec => []ReservationsMatchIO
<1>1. MeterInv => ReservationsMatchIO
  BY DEF MeterInv
<1> QED BY <1>1, Invariance, PTL

\* A cached total is always the committed bytes plus the unflushed delta
\* (meter.go 45-90, 160-176 and 272-361).
THEOREM LedgerSound == Spec => []LedgerMatchesRows
<1>1. MeterInv => LedgerMatchesRows
  BY DEF MeterInv
<1> QED BY <1>1, Invariance, PTL

-----------------------------------------------------------------------------
(* No tunnel is promised more than its budget                              *)

\* What a tunnel has spent or been promised according to given caches.
CommittedIn(ents, k) ==
    IF ents[k].loaded THEN ents[k].total + ents[k].reserved ELSE usage[k]

\* Committing and pruning never makes a tunnel look more spent than it was.
LEMMA FlushCommitted ==
    ASSUME TypeOK, GoneIsEmpty,
           NEW STATE ents, ents \in [Keys -> Entry], \A k \in Keys : ents[k].loaded \/ ents[k] = NoEntry,
           \A k \in Keys : ents[k].loaded /\ status[k[1]] # "gone" =>
                ents[k].total = usage[k] + ents[k].delta,
           NEW STATE bals, NEW STATE pend, NEW ACTION ph, Flush(ents, bals, pend, ph),
           NEW k \in Keys
    PROVE  Committed(k)' <= CommittedIn(ents, k)
<1> USE DEF Committed, CommittedIn
<1>1. /\ ents[k] \in Entry /\ usage[k] \in Nat
      /\ ents[k].total \in Nat /\ ents[k].reserved \in Nat /\ ents[k].delta \in Nat
      /\ (status[k[1]] = "gone" => usage[k] = 0)
  BY DEF TypeOK, Entry, GoneIsEmpty
<1>2. ~ents[k].loaded => ents[k].delta = 0
  BY DEF NoEntry
<1>3. CASE entry' = Pruned(ents, ph) /\ UNCHANGED <<status, usage>>
  <2>1. \/ entry'[k] = ents[k]
        \/ entry'[k] = NoEntry /\ ents[k].delta = 0
    BY <1>3 DEF Pruned
  <2>2. usage'[k] = usage[k]
    BY <1>3
  <2> QED BY <1>1, <2>1, <2>2 DEF NoEntry
<1>4. CASE Commit(ents, bals, ph)
  <2>1. usage'[k] = usage[k] + ents[k].delta
    BY <1>4 DEF Commit
  <2>2. status[k[1]] = "gone" => ents[k].delta = 0
    BY <1>4 DEF Commit, Orphaned, Dirty
  <2>3. entry'[k] = Cleared(ents)[k] \/ entry'[k] = NoEntry
    BY <1>4 DEF Commit, Pruned
  <2>4. /\ Cleared(ents)[k].total = ents[k].total
        /\ Cleared(ents)[k].reserved = ents[k].reserved
        /\ Cleared(ents)[k].loaded = ents[k].loaded
    BY <1>1 DEF Cleared, Entry
  <2>5. ~NoEntry.loaded
    BY DEF NoEntry
  <2>6. CASE entry'[k] = Cleared(ents)[k]
    BY <1>1, <1>2, <2>1, <2>4, <2>6
  <2>7. CASE entry'[k] = NoEntry
    <3>1. Committed(k)' = usage[k] + ents[k].delta
      BY <2>1, <2>5, <2>7
    <3>2. ents[k].loaded => ents[k].total + ents[k].reserved >= usage[k] + ents[k].delta
      BY <1>1, <2>2
    <3> QED BY <1>1, <1>2, <3>1, <3>2
  <2> QED BY <2>3, <2>6, <2>7
<1>5. CASE entry' = ents /\ UNCHANGED <<status, usage>>
  BY <1>1, <1>5
<1> QED BY <1>3, <1>4, <1>5 DEF Flush

\* A positive grant fits in what is left of the tunnel's own budget.
LEMMA GrantFits ==
    ASSUME NEW e \in Entry, NEW b \in Balance, NEW n \in Nat, e.quota > 0
    PROVE  Want(n, e, b) \in Int /\ e.total + e.reserved + Want(n, e, b) <= e.quota
<1>1. /\ e.quota \in Nat /\ e.total \in Nat /\ e.reserved \in Nat
      /\ b.limit \in Nat /\ b.total \in Nat /\ b.reserved \in Nat /\ Chunk \in Nat
  BY MeterAssumption DEF Entry, Balance
<1> QED BY <1>1 DEF Want

\* Only a grant makes a tunnel commit to more bytes, and it fits its budget.
LEMMA StepWithinQuota ==
    ASSUME MeterInv, [Next]_vars, NEW k \in Keys, Committed(k)' > Committed(k)
    PROVE  entry'[k].quota = 0 \/ Committed(k)' <= entry'[k].quota
<1> USE DEF MeterInv
<1>1. /\ entry[k] \in Entry /\ usage[k] \in Nat
      /\ entry[k].total \in Nat /\ entry[k].reserved \in Nat /\ entry[k].delta \in Nat
      /\ (status[k[1]] = "gone" => usage[k] = 0)
      /\ k[1] \in Tunnels
  BY DEF TypeOK, Entry, GoneIsEmpty, Keys
<1>2. Committed(k) \in Nat
  BY <1>1 DEF Committed
<1>3. ASSUME UNCHANGED <<entry, usage>> PROVE FALSE
  BY <1>2, <1>3 DEF Committed
<1>4. ASSUME Flush(entry, balance, pending, phase) \/ Flush(entry, balance, pending, phase')
      PROVE  FALSE
  <2>1. Committed(k)' <= CommittedIn(entry, k)
    BY <1>4, FlushCommitted DEF TypeOK, UnloadedIsBlank, LedgerMatchesRows
  <2>2. CommittedIn(entry, k) = Committed(k)
    BY DEF CommittedIn, Committed
  <2>3. Committed(k)' \in Nat
    <3>1. entry' \in [Keys -> Entry] /\ usage' \in [Keys -> Nat]
      BY <1>4, MeterCaches, FlushKeeps DEF CachesOK
    <3>2. entry'[k].total \in Nat /\ entry'[k].reserved \in Nat /\ usage'[k] \in Nat
      BY <3>1 DEF Entry
    <3> QED BY <3>2 DEF Committed
  <2> QED BY <1>2, <2>1, <2>2, <2>3
<1>5. ASSUME NEW o \in Ops, NEW n \in Nat, NEW limit \in Limits, ReserveRefused(o, n, limit)
      PROVE  FALSE
  <2>1. entry' = [entry EXCEPT ![<<owner[o[1]], now>>] = LoadedEntry(<<owner[o[1]], now>>)]
        /\ usage' = usage
    BY <1>5 DEF ReserveRefused, rowVars
  <2>2. entry'[k] = entry[k] \/ entry'[k] = LoadedEntry(k)
    BY <2>1 DEF TypeOK
  <2>3. \/ LoadedEntry(k) = entry[k]
        \/ /\ ~entry[k].loaded
           /\ LoadedEntry(k).total = usage[k] /\ LoadedEntry(k).reserved = 0
    BY DEF LoadedEntry, NoEntry
  <2> QED BY <1>1, <2>1, <2>2, <2>3 DEF Committed
<1>6. ASSUME NEW o \in Ops, NEW n \in Nat, NEW limit \in Limits, Reserve(o, n, limit)
      PROVE  entry'[k].quota = 0 \/ Committed(k)' <= entry'[k].quota
  <2> DEFINE j == <<owner[o[1]], now>>
             e == LoadedEntry(j)
             b == [LoadedBalance(now) EXCEPT !.limit = limit]
             w == Want(n, e, b)
  <2>1. j \in Keys /\ now \in Months /\ limit \in Nat
    BY <1>6, MeterAssumption DEF Reserve, CanReserve, HandlesOwned, Ops, Keys, TypeOK
  <2>2. e \in Entry /\ e.loaded
    BY <2>1, LoadedEntryFacts
  <2>3. b \in Balance
    BY <2>1, LoadedBalanceFacts DEF Balance
  <2>4. entry' = [entry EXCEPT ![j] = [e EXCEPT !.reserved = @ + w]] /\ usage' = usage
    BY <1>6 DEF Reserve, rowVars
  <2> HIDE DEF j, e, b
  <2>5. CASE j # k
    <3>1. entry'[k] = entry[k]
      BY <2>4, <2>5 DEF TypeOK
    <3>2. usage'[k] = usage[k]
      BY <2>4
    <3>3. Committed(k)' = Committed(k)
      BY <3>1, <3>2 DEF Committed
    <3> QED BY <1>2, <3>3
  <2>6. CASE j = k
    <3>1. entry'[k] = [e EXCEPT !.reserved = @ + w]
      BY <2>1, <2>4, <2>6 DEF TypeOK
    <3>2. /\ entry'[k].loaded /\ entry'[k].total = e.total
          /\ entry'[k].reserved = e.reserved + w /\ entry'[k].quota = e.quota
          /\ e.quota \in Nat /\ e.total \in Nat /\ e.reserved \in Nat
      BY <2>2, <3>1 DEF Entry
    <3>3. e.quota > 0 => w \in Int /\ e.total + e.reserved + w <= e.quota
      BY <2>2, <2>3, GrantFits
    <3> QED BY <3>2, <3>3 DEF Committed
  <2> QED BY <2>5, <2>6
<1>7. ASSUME NEW o \in Ops, NEW n \in Nat, Settle(o, n)
      PROVE  FALSE
  <2> DEFINE m == heldMonth[o]
             j == <<owner[o[1]], m>>
             e == SettledEntry(entry[j], held[o], n)
             ents == [entry EXCEPT ![j] = e]
             bals == [balance EXCEPT ![m] = SettledBalance(balance[m], held[o], n)]
  <2>1. o \in InFlight /\ held[o] \in Nat /\ n <= held[o]
    BY <1>7 DEF Settle, InFlight, TypeOK
  <2>2. /\ j \in Keys /\ m \in Months /\ held[o] <= entry[j].reserved
        /\ held[o] <= balance[m].reserved /\ entry[j] \in Entry /\ balance[m] \in Balance
        /\ entry[j].loaded
    BY <2>1, Booked DEF TypeOK, ReservationsMatchIO
  <2>3. /\ e \in Entry /\ e.loaded /\ e.reserved = entry[j].reserved - held[o]
        /\ e.total = entry[j].total + n /\ e.delta = entry[j].delta + n
    BY <2>1, <2>2, SettledFacts
  <2>4. \/ Flush(ents, bals, pending + n, phase)
        \/ entry' = ents /\ UNCHANGED usage
    BY <1>7 DEF Settle, rowVars
  <2>12. bals \in [Months -> Balance] /\ \A i \in Months : bals[i].loaded \/ bals[i] = NoBalance
    <3>1. SettledBalance(balance[m], held[o], n) \in Balance
          /\ SettledBalance(balance[m], held[o], n).loaded = balance[m].loaded
      BY <2>1, <2>2, SettledFacts
    <3>2. balance[m].loaded
      BY <2>1 DEF ReservationsMatchIO
    <3> QED BY <2>2, <3>1, <3>2 DEF TypeOK, UnloadedIsBlank
  <2> HIDE DEF m, j, e
  <2>5. \A i \in Keys : ents[i] = IF i = j THEN e ELSE entry[i]
    BY DEF TypeOK
  <2>6. ents \in [Keys -> Entry] /\ \A i \in Keys : ents[i].loaded \/ ents[i] = NoEntry
    BY <2>3, <2>5 DEF TypeOK, UnloadedIsBlank
  <2> HIDE DEF ents, bals
  <2>7. entry[j].total \in Nat /\ entry[j].reserved \in Nat /\ entry[j].delta \in Nat
        /\ usage[j] \in Nat
    BY <2>2 DEF Entry, TypeOK
  <2>8. \A i \in Keys : ents[i].loaded /\ status[i[1]] # "gone" =>
            ents[i].total = usage[i] + ents[i].delta
    <3>1. status[j[1]] # "gone" => e.total = usage[j] + e.delta
      BY <2>1, <2>2, <2>3, <2>7 DEF LedgerMatchesRows
    <3> QED BY <2>5, <3>1 DEF LedgerMatchesRows
  <2>9. CommittedIn(ents, k) <= Committed(k) /\ CommittedIn(ents, k) \in Nat
    <3>1. CASE k = j
      BY <1>7, <2>1, <2>2, <2>3, <2>5, <2>7, <3>1 DEF CommittedIn, Committed
    <3>2. CASE k # j
      BY <1>1, <1>2, <2>5, <3>2 DEF CommittedIn, Committed
    <3> QED BY <3>1, <3>2
  <2>10. CASE Flush(ents, bals, pending + n, phase)
    <3>1. Committed(k)' <= CommittedIn(ents, k)
      BY <2>6, <2>8, <2>10, FlushCommitted
    <3>2. pending + n \in Nat
      BY <1>7 DEF TypeOK
    <3>3. entry' \in [Keys -> Entry] /\ usage' \in [Keys -> Nat]
      BY <2>6, <2>10, <2>12, <3>2, FlushKeeps DEF CachesOK
    <3>4. entry'[k].total \in Nat /\ entry'[k].reserved \in Nat /\ usage'[k] \in Nat
      BY <3>3 DEF Entry
    <3>5. Committed(k)' \in Nat
      BY <3>4 DEF Committed
    <3> QED BY <1>2, <2>9, <3>1, <3>5
  <2>11. CASE entry' = ents /\ UNCHANGED usage
    <3>1. Committed(k)' = CommittedIn(ents, k)
      BY <2>11 DEF Committed, CommittedIn
    <3> QED BY <1>2, <2>9, <3>1
  <2> QED BY <2>4, <2>10, <2>11
<1>8. ASSUME NEW p \in Patchers, UpdateQuota(p) PROVE FALSE
  <2>1. \/ entry'[k] = entry[k]
        \/ \E q : entry'[k] = [entry[k] EXCEPT !.quota = q]
    BY <1>8 DEF UpdateQuota
  <2>2. usage' = usage
    BY <1>8 DEF UpdateQuota, rowVars
  <2>3. entry'[k].loaded = entry[k].loaded /\ entry'[k].total = entry[k].total
        /\ entry'[k].reserved = entry[k].reserved
    BY <1>1, <2>1 DEF Entry
  <2> QED BY <1>2, <2>2, <2>3 DEF Committed
<1>9. ASSUME NEW t \in Tunnels, DropRow(t) PROVE FALSE
  <2>1. entry' = entry /\ (usage'[k] = 0 \/ usage'[k] = usage[k])
    BY <1>9 DEF DropRow, memVars
  <2> QED BY <1>1, <1>2, <2>1 DEF Committed
<1>10. ASSUME Restart PROVE FALSE
  <2>1. entry'[k] = NoEntry /\ usage' = usage
    BY <1>10 DEF Restart, rowVars
  <2>2. Committed(k)' = usage[k]
    BY <2>1 DEF Committed, NoEntry
  <2>3. usage[k] <= Committed(k)
    BY <1>1 DEF Committed, LedgerMatchesRows
  <2> QED BY <1>1, <1>2, <2>2, <2>3
<1>11. CASE RequestNext
  <2>1. 1..Chunk + 1 \subseteq Nat /\ 0..Chunk \subseteq Nat
    BY MeterAssumption
  <2>2. ASSUME NEW r \in Requests, CloseHandle(r) \/ \E t \in Tunnels : Begin(r, t) PROVE FALSE
    BY <1>3, <2>2 DEF CloseHandle, Begin, rowVars, memVars
  <2>3. ASSUME NEW r \in Requests, CloseFlush(r) PROVE FALSE
    BY <1>4, <2>3 DEF CloseFlush
  <2>4. ASSUME NEW o \in Ops, ReserveUnloaded(o) PROVE FALSE
    BY <1>3, <2>4 DEF ReserveUnloaded, rowVars
  <2> QED BY <1>5, <1>6, <1>7, <1>11, <2>1, <2>2, <2>3, <2>4 DEF RequestNext
<1>12. CASE PatchNext
  <2>1. ASSUME NEW p \in Patchers, PatchCommit(p) \/ PatchFails(p) \/ PatchRearm(p) PROVE FALSE
    BY <1>3, <2>1 DEF PatchCommit, PatchFails, PatchRearm, rowVars, memVars
  <2>2. ASSUME NEW p \in Patchers, NEW t \in Tunnels, NEW s \in StatusFields,
               NEW q \in QuotaFields, PatchLoad(p, t, s, q)
        PROVE  FALSE
    BY <1>3, <2>2 DEF PatchLoad, rowVars, memVars
  <2> QED BY <1>8, <1>12, <2>1, <2>2 DEF PatchNext
<1>13. CASE GlobalOverBudget
  BY <1>3, <1>13 DEF GlobalOverBudget, rowVars
<1>14. CASE FlushTick
  BY <1>4, <1>14 DEF FlushTick
<1>15. CASE \E t \in Tunnels : OwnerDelete(t) \/ DeviceDelete(t)
  BY <1>9, <1>15 DEF OwnerDelete, DeviceDelete
<1>16. CASE NextMonth \/ UNCHANGED vars
  BY <1>3, <1>16 DEF NextMonth, vars, rowVars, memVars
<1> QED BY <1>10, <1>11, <1>12, <1>13, <1>14, <1>15, <1>16 DEF Next

\* No interleaving of requests, flushes, PATCHes, deletes and restarts makes a
\* tunnel commit to more bytes than the budget in force when they were granted
\* (meter.go 112-158).
THEOREM QuotaSafe == Spec => QuotaNeverOverspent
<1>1. MeterInv /\ [Next]_vars =>
          [\A k \in Keys : Committed(k)' > Committed(k) =>
              entry'[k].quota = 0 \/ Committed(k)' <= entry'[k].quota]_vars
  BY StepWithinQuota
<1> QED BY <1>1, Invariance, PTL DEF Spec, QuotaNeverOverspent

-----------------------------------------------------------------------------
(* Sums compared: monotone sums, and sums over a part of the index set     *)

\* A sum is monotone.
LEMMA SumMonotone ==
    ASSUME NEW S, IsFiniteSet(S), NEW f, NEW g,
           \A x \in S : f[x] \in Nat /\ g[x] \in Nat /\ f[x] <= g[x]
    PROVE  SumOver(f, S) <= SumOver(g, S)
<1>1. IsFiniteSet(Tokens(g, S))
  BY SumIsNat
<1>2. \A x \in S : 1..f[x] \subseteq 1..g[x]
  OBVIOUS
<1>3. Tokens(f, S) \in SUBSET Tokens(g, S)
  BY <1>2 DEF Tokens
<1> QED BY <1>1, <1>3, FS_Subset DEF SumOver

\* The sum of a pointwise sum is the sum of the sums.
LEMMA SumPlus ==
    ASSUME NEW S, IsFiniteSet(S), NEW f, NEW g, NEW h,
           \A x \in S : f[x] \in Nat /\ g[x] \in Nat /\ h[x] = f[x] + g[x]
    PROVE  SumOver(h, S) = SumOver(f, S) + SumOver(g, S)
<1> DEFINE upper == UNION {{x} \X (f[x] + 1 .. f[x] + g[x]) : x \in S}
           shift == [k \in Tokens(g, S) |-> <<k[1], f[k[1]] + k[2]>>]
<1>1. /\ IsFiniteSet(Tokens(f, S)) /\ Cardinality(Tokens(f, S)) \in Nat
      /\ IsFiniteSet(Tokens(g, S)) /\ Cardinality(Tokens(g, S)) \in Nat
  BY SumIsNat DEF SumOver
<1>2. Tokens(h, S) = Tokens(f, S) \cup upper
  <2>1. \A x \in S : 1..h[x] = (1..f[x]) \cup (f[x] + 1 .. f[x] + g[x])
    OBVIOUS
  <2> QED BY <2>1 DEF Tokens
<1>3. Tokens(f, S) \cap upper = {}
  BY DEF Tokens
<1>4. ExistsBijection(Tokens(g, S), upper)
  <2>1. \A k \in Tokens(g, S) : /\ k[1] \in S /\ k[2] \in 1..g[k[1]] /\ k = <<k[1], k[2]>>
                                /\ shift[k] = <<k[1], f[k[1]] + k[2]>>
    BY DEF Tokens
  <2>2. \A k \in Tokens(g, S) : shift[k] \in upper
    <3> SUFFICES ASSUME NEW k \in Tokens(g, S) PROVE shift[k] \in upper
      OBVIOUS
    <3>0. PICK x \in S, i \in Int : i \in 1..g[x] /\ k = <<x, i>>
      BY DEF Tokens
    <3>1. f[x] + i \in f[x] + 1 .. f[x] + g[x]
      BY <3>0
    <3> QED BY <2>1, <3>0, <3>1
  <2>3. \A k, l \in Tokens(g, S) : shift[k] = shift[l] => k = l
    <3> SUFFICES ASSUME NEW k \in Tokens(g, S), NEW l \in Tokens(g, S), shift[k] = shift[l]
                 PROVE  k = l
      OBVIOUS
    <3>1. k[1] = l[1] /\ f[k[1]] + k[2] = f[l[1]] + l[2]
      BY <2>1
    <3>2. k[2] = l[2]
      BY <2>1, <3>1
    <3> QED BY <2>1, <3>1, <3>2
  <2>4. \A u \in upper : \E k \in Tokens(g, S) : shift[k] = u
    <3> SUFFICES ASSUME NEW u \in upper PROVE \E k \in Tokens(g, S) : shift[k] = u
      OBVIOUS
    <3>0. PICK x \in S, i \in Int : i \in f[x] + 1 .. f[x] + g[x] /\ u = <<x, i>>
      OBVIOUS
    <3>1. i - f[x] \in 1..g[x] /\ f[x] + (i - f[x]) = i
      BY <3>0
    <3>2. <<x, i - f[x]>> \in Tokens(g, S)
      BY <3>1 DEF Tokens
    <3> QED BY <2>1, <3>0, <3>1, <3>2
  <2>5. shift \in [Tokens(g, S) -> upper]
    BY <2>2
  <2> HIDE DEF shift, upper
  <2>6. shift \in Bijection(Tokens(g, S), upper)
    BY <2>3, <2>4, <2>5, Fun_IsBij
  <2> QED BY <2>6 DEF ExistsBijection
<1>5. IsFiniteSet(upper) /\ Cardinality(upper) = Cardinality(Tokens(g, S))
  BY <1>1, <1>4, FS_Bijection
<1>6. Cardinality(Tokens(f, S) \cup upper)
        = Cardinality(Tokens(f, S)) + Cardinality(upper) - Cardinality(Tokens(f, S) \cap upper)
  BY <1>1, <1>5, FS_Union
<1>7. Cardinality(Tokens(f, S) \cap upper) = 0
  BY <1>3, FS_EmptySet
<1> HIDE DEF upper
<1>8. Cardinality(Tokens(h, S)) = Cardinality(Tokens(f, S)) + Cardinality(Tokens(g, S)) - 0
  BY <1>2, <1>5, <1>6, <1>7
<1> QED BY <1>1, <1>8 DEF SumOver

-----------------------------------------------------------------------------
(* The books: pending counts the deltas, and the months cover the tunnels  *)

\* The deltas of given caches.
DeltasOf(ents) == [k \in Keys |-> ents[k].delta]

\* The books of given caches: the pending sum, the months, and that an entry in
\* memory has its month there too.
BooksOf(ents, bals, pend) ==
    /\ pend = SumOver(DeltasOf(ents), Keys)
    /\ \A m \in Months : bals[m].loaded =>
          bals[m].total >= SumOver(usage, MonthKeys(m)) + SumOver(DeltasOf(ents), MonthKeys(m))
    /\ \A k \in Keys : ents[k].loaded => bals[k[2]].loaded

Books == BooksOf(entry, balance, pending)

\* A key is one of its month's, and a month's keys are keys.
LEMMA KeyMonths ==
    /\ \A k \in Keys : k[1] \in Tunnels /\ k[2] \in Months /\ k \in MonthKeys(k[2])
    /\ \A m \in Months : MonthKeys(m) \subseteq Keys
    /\ \A m \in Months : \A k \in MonthKeys(m) : k[2] = m
BY DEF Keys, MonthKeys

\* Sums of usage and deltas are natural numbers.
LEMMA BookSums ==
    ASSUME NEW S, S = Keys \/ \E m \in Months : S = MonthKeys(m),
           NEW f \in [Keys -> Nat]
    PROVE  IsFiniteSet(S) /\ S \subseteq Keys /\ SumOver(f, S) \in Nat
<1>1. IsFiniteSet(S) /\ S \subseteq Keys
  BY FiniteIndexes, KeyMonths
<1>2. \A x \in S : f[x] \in Nat
  BY <1>1
<1> QED BY <1>1, <1>2, SumIsNat

\* Whatever a flush does, books that agreed go on to agree.
LEMMA FlushBooks ==
    ASSUME TypeOK, NEW STATE ents, NEW STATE bals, NEW STATE pend, NEW ACTION ph,
           CachesOK(ents, bals, pend), BooksOf(ents, bals, pend), Flush(ents, bals, pend, ph)
    PROVE  Books'
<1> DEFINE D == DeltasOf(ents)
<1>0. /\ ents \in [Keys -> Entry] /\ bals \in [Months -> Balance] /\ pend \in Nat
      /\ usage \in [Keys -> Nat]
      /\ \A k \in Keys : ents[k].loaded \/ ents[k] = NoEntry
  BY DEF CachesOK, TypeOK
<1>1. D \in [Keys -> Nat] /\ \A k \in Keys : D[k] = ents[k].delta
  BY <1>0 DEF DeltasOf, Entry
<1>2. /\ \A m \in Months : SumOver(usage, MonthKeys(m)) \in Nat /\ SumOver(D, MonthKeys(m)) \in Nat
      /\ \A m \in Months : bals[m].total \in Nat
  BY <1>0, <1>1, BookSums DEF Balance
<1>3. /\ pend = SumOver(D, Keys)
      /\ \A m \in Months : bals[m].loaded =>
            bals[m].total >= SumOver(usage, MonthKeys(m)) + SumOver(D, MonthKeys(m))
      /\ \A k \in Keys : ents[k].loaded => bals[k[2]].loaded
  BY DEF BooksOf
<1>4. ~NoEntry.loaded /\ NoEntry.delta = 0 /\ ~NoBalance.loaded
  BY DEF NoEntry, NoBalance
<1> HIDE DEF D
<1>5. ASSUME balance' = PrunedMonths(bals, entry'), \A k \in Keys : entry'[k].loaded => ents[k].loaded
      PROVE  \A k \in Keys : entry'[k].loaded => balance'[k[2]].loaded
  <2>1. ASSUME NEW k \in Keys, entry'[k].loaded PROVE balance'[k[2]] = bals[k[2]]
    BY <1>5, <2>1, KeyMonths DEF PrunedMonths
  <2> QED BY <1>3, <1>5, <2>1
<1>6. ASSUME balance' = PrunedMonths(bals, entry')
      PROVE  \A m \in Months : balance'[m].loaded => bals[m].loaded /\ balance'[m].total = bals[m].total
  BY <1>4, <1>6 DEF PrunedMonths
<1>7. CASE pend = 0 /\ entry' = Pruned(ents, ph) /\ balance' = PrunedMonths(bals, entry')
           /\ pending' = 0 /\ UNCHANGED usage
  <2>1. \A k \in Keys : /\ entry'[k].delta = ents[k].delta
                        /\ entry'[k].loaded => ents[k].loaded
    BY <1>4, <1>7 DEF Pruned
  <2>2. DeltasOf(entry') = D
    BY <2>1 DEF DeltasOf, D
  <2> QED BY <1>3, <1>5, <1>6, <1>7, <2>1, <2>2 DEF Books, BooksOf
<1>8. CASE Commit(ents, bals, ph)
  <2>1. \A k \in Keys : /\ Cleared(ents)[k].loaded = ents[k].loaded /\ Cleared(ents)[k].delta = 0
    <3>1. \A k \in Keys : Cleared(ents)[k] =
            [ents[k] EXCEPT !.delta = 0, !.warnPending = FALSE, !.stopPending = FALSE]
      BY DEF Cleared
    <3> QED BY <1>0, <3>1 DEF Entry
  <2>2. \A k \in Keys : entry'[k].delta = 0 /\ (entry'[k].loaded => ents[k].loaded)
    BY <1>4, <1>8, <2>1 DEF Commit, Pruned
  <2>3. balance' = PrunedMonths(bals, entry') /\ pending' = 0
        /\ \A k \in Keys : usage'[k] = usage[k] + D[k]
    BY <1>1, <1>8 DEF Commit
  <2>4. \A k \in Keys : DeltasOf(entry')[k] = 0
    BY <2>2 DEF DeltasOf
  <2>5. SumOver(DeltasOf(entry'), Keys) = 0
    BY <2>4, SumZero
  <2>6. ASSUME NEW m \in Months, balance'[m].loaded
        PROVE  balance'[m].total >= SumOver(usage', MonthKeys(m)) + SumOver(DeltasOf(entry'), MonthKeys(m))
    <3>1. SumOver(DeltasOf(entry'), MonthKeys(m)) = 0
      BY <2>4, SumZero, KeyMonths
    <3>2. SumOver(usage', MonthKeys(m)) = SumOver(usage, MonthKeys(m)) + SumOver(D, MonthKeys(m))
      BY <1>0, <1>1, <2>3, SumPlus, FiniteIndexes, KeyMonths
    <3>3. bals[m].loaded /\ balance'[m].total = bals[m].total
      BY <1>6, <2>3, <2>6
    <3> QED BY <1>2, <1>3, <3>1, <3>2, <3>3
  <2>7. \A k \in Keys : entry'[k].loaded => balance'[k[2]].loaded
    BY <1>5, <2>2, <2>3
  <2> QED BY <2>3, <2>5, <2>6, <2>7 DEF Books, BooksOf
<1>9. CASE entry' = ents /\ balance' = bals /\ pending' = pend /\ UNCHANGED usage
  BY <1>3, <1>9 DEF Books, BooksOf, D
<1> QED BY <1>7, <1>8, <1>9 DEF Flush

\* The operation o settles n bytes: entry k becomes e and its month b, before a
\* flush, which then follows or does not.
SettlesTo(o, n, k, e, b) ==
    /\ o \in InFlight /\ k = <<owner[o[1]], heldMonth[o]>> /\ k[2] = heldMonth[o]
    /\ held[o] \in Nat /\ held[o] > 0 /\ n <= held[o]
    /\ held[o] <= entry[k].reserved /\ held[o] <= balance[k[2]].reserved
    /\ e = SettledEntry(entry[k], held[o], n) /\ b = SettledBalance(balance[k[2]], held[o], n)
    /\ entry[k].loaded /\ e.loaded /\ balance[k[2]].loaded /\ b.loaded
    /\ e.total = entry[k].total + n /\ e.delta = entry[k].delta + n
    /\ e.reserved = entry[k].reserved - held[o] /\ e.quota = entry[k].quota
    /\ b.total = balance[k[2]].total + n /\ b.limit = balance[k[2]].limit
    /\ b.reserved = balance[k[2]].reserved - held[o]
    /\ CachesOK([entry EXCEPT ![k] = e], [balance EXCEPT ![k[2]] = b], pending + n)
    /\ \/ Flush([entry EXCEPT ![k] = e], [balance EXCEPT ![k[2]] = b], pending + n, phase)
       \/ /\ ~MustFlush(e, b, pending + n)
          /\ entry' = [entry EXCEPT ![k] = e] /\ balance' = [balance EXCEPT ![k[2]] = b]
          /\ pending' = pending + n /\ UNCHANGED <<rowVars, failure>>
    /\ held' = [held EXCEPT ![o] = 0] /\ heldMonth' = [heldMonth EXCEPT ![o] = 1]
    /\ UNCHANGED <<quota, now, phase, owner, patch>>

\* settle finds its entry and month, takes back what it held of them, and adds
\* what it moved.
LEMMA SettleIs ==
    ASSUME MeterInv, NEW o \in Ops, NEW n \in Nat, Settle(o, n)
    PROVE  \E k \in Keys, e \in Entry, b \in Balance : SettlesTo(o, n, k, e, b)
<1> USE DEF MeterInv
<1> DEFINE k == <<owner[o[1]], heldMonth[o]>>
           e == SettledEntry(entry[k], held[o], n)
           b == SettledBalance(balance[k[2]], held[o], n)
<1>1. o \in InFlight /\ held[o] \in Nat /\ held[o] > 0 /\ n <= held[o]
  BY DEF Settle, InFlight, TypeOK
<1>2. /\ k \in Keys /\ k[2] \in Months /\ k[2] = heldMonth[o]
      /\ held[o] <= entry[k].reserved /\ held[o] <= balance[k[2]].reserved
      /\ entry[k] \in Entry /\ balance[k[2]] \in Balance /\ entry[k].loaded /\ balance[k[2]].loaded
  BY <1>1, Booked DEF TypeOK, ReservationsMatchIO
<1>3. /\ e \in Entry /\ e.loaded /\ e.reserved = entry[k].reserved - held[o] /\ e.quota = entry[k].quota
      /\ e.total = entry[k].total + n /\ e.delta = entry[k].delta + n
      /\ b \in Balance /\ b.loaded /\ b.reserved = balance[k[2]].reserved - held[o]
      /\ b.total = balance[k[2]].total + n /\ b.limit = balance[k[2]].limit
  BY <1>1, <1>2, SettledFacts
<1>4. /\ \/ Flush([entry EXCEPT ![k] = e], [balance EXCEPT ![k[2]] = b], pending + n, phase)
         \/ /\ ~MustFlush(e, b, pending + n)
            /\ entry' = [entry EXCEPT ![k] = e] /\ balance' = [balance EXCEPT ![k[2]] = b]
            /\ pending' = pending + n /\ UNCHANGED <<rowVars, failure>>
      /\ held' = [held EXCEPT ![o] = 0] /\ heldMonth' = [heldMonth EXCEPT ![o] = 1]
      /\ UNCHANGED <<quota, now, phase, owner, patch>>
  BY DEF Settle
<1>5. CachesOK([entry EXCEPT ![k] = e], [balance EXCEPT ![k[2]] = b], pending + n)
  <2> HIDE DEF k, e, b
  <2> QED BY <1>2, <1>3 DEF CachesOK, TypeOK, UnloadedIsBlank
<1>6. k = <<owner[o[1]], heldMonth[o]>> /\ e = SettledEntry(entry[k], held[o], n)
      /\ b = SettledBalance(balance[k[2]], held[o], n)
  OBVIOUS
<1>7. k \in Keys /\ e \in Entry /\ b \in Balance
  BY <1>2, <1>3
<1> HIDE DEF k, e, b
<1>8. SettlesTo(o, n, k, e, b)
  BY <1>1, <1>2, <1>3, <1>4, <1>5, <1>6 DEF SettlesTo
<1> QED BY <1>7, <1>8

\* What LoadedEntry and LoadedBalance read where nothing is in memory.
LEMMA LoadedReads ==
    ASSUME TypeOK, UnloadedIsBlank, NEW k \in Keys, NEW m \in Months
    PROVE  /\ entry[k].loaded => LoadedEntry(k) = entry[k]
           /\ ~entry[k].loaded =>
                 /\ LoadedEntry(k).total = usage[k] /\ LoadedEntry(k).quota = quota[k[1]]
                 /\ LoadedEntry(k).warned = warnedRow[k]
                 /\ ~LoadedEntry(k).warnPending /\ ~LoadedEntry(k).stopPending
                 /\ LoadedEntry(k).delta = 0 /\ LoadedEntry(k).reserved = 0
                 /\ entry[k].delta = 0 /\ entry[k].reserved = 0
           /\ balance[m].loaded => LoadedBalance(m) = balance[m]
           /\ ~balance[m].loaded =>
                 /\ LoadedBalance(m).total = SumOver(usage, MonthKeys(m))
                 /\ LoadedBalance(m).limit = 0 /\ LoadedBalance(m).reserved = 0
                 /\ balance[m].reserved = 0
BY DEF LoadedEntry, LoadedBalance, NoEntry, NoBalance, UnloadedIsBlank

\* reserve has loaded entry and month and sets w more bytes aside on them, or, when
\* it refuses, none; what is then set aside fits both budgets.
GrantsTo(o, limit, w, k, e, b) ==
    /\ k = <<owner[o[1]], now>> /\ k[1] \in Tunnels /\ k[2] = now /\ now \in Months /\ limit \in Nat
    /\ held[o] = 0 /\ phase[o[1]] = "open" /\ ~failure
    /\ entry[k].loaded \/ status[k[1]] = "active"
    /\ e = [LoadedEntry(k) EXCEPT !.reserved = entry[k].reserved + w]
    /\ b = [LoadedBalance(now) EXCEPT !.reserved = balance[now].reserved + w, !.limit = limit]
    /\ e.loaded /\ e.delta = entry[k].delta /\ e.reserved = entry[k].reserved + w
    /\ e.total = LoadedEntry(k).total /\ e.quota = LoadedEntry(k).quota
    /\ b.loaded /\ b.reserved = balance[now].reserved + w
    /\ b.total = LoadedBalance(now).total /\ b.limit = limit
    /\ entry' = [entry EXCEPT ![k] = e] /\ balance' = [balance EXCEPT ![now] = b]
    /\ \/ w = 0 /\ UNCHANGED <<held, heldMonth>>
       \/ /\ w \in 1..Chunk
          /\ held' = [held EXCEPT ![o] = w] /\ heldMonth' = [heldMonth EXCEPT ![o] = now]
          /\ e.quota = 0 \/ e.total + e.reserved <= e.quota
          /\ limit = 0 \/ b.total + b.reserved <= limit
    /\ UNCHANGED <<rowVars, pending, failure, now, phase, owner, patch>>

\* What is wanted is at most a chunk and fits both budgets.
LEMMA WantFits ==
    ASSUME NEW e \in Entry, NEW b \in Balance, NEW n \in Nat
    PROVE  /\ Want(n, e, b) \in Int /\ Want(n, e, b) <= Chunk
           /\ e.quota = 0 \/ e.total + e.reserved + Want(n, e, b) <= e.quota
           /\ b.limit = 0 \/ b.total + b.reserved + Want(n, e, b) <= b.limit
<1>1. /\ e.quota \in Nat /\ e.total \in Nat /\ e.reserved \in Nat
      /\ b.limit \in Nat /\ b.total \in Nat /\ b.reserved \in Nat /\ Chunk \in Nat
  BY MeterAssumption DEF Entry, Balance
<1> QED BY <1>1 DEF Want

\* reserve grants what it wants if that is positive, and refuses otherwise.
LEMMA GrantIs ==
    ASSUME MeterInv, NEW o \in Ops, NEW n \in Nat, NEW limit \in Limits,
           Reserve(o, n, limit) \/ ReserveRefused(o, n, limit)
    PROVE  \E w \in Nat, k \in Keys, e \in Entry, b \in Balance : GrantsTo(o, limit, w, k, e, b)
<1> DEFINE k == <<owner[o[1]], now>>
           le == LoadedEntry(k)
           lb == LoadedBalance(now)
           lb1 == [lb EXCEPT !.limit = limit]
           w == IF Reserve(o, n, limit) THEN Want(n, le, lb1) ELSE 0
           e == [le EXCEPT !.reserved = entry[k].reserved + w]
           b == [lb EXCEPT !.reserved = balance[now].reserved + w, !.limit = limit]
<1> USE DEF MeterInv
<1>1. /\ o[1] \in Requests /\ owner[o[1]] \in Tunnels /\ k \in Keys /\ limit \in Nat
      /\ now \in Months /\ k[1] \in Tunnels /\ k[2] = now
  BY MeterAssumption DEF Reserve, ReserveRefused, CanReserve, HandlesOwned, Ops, Keys, TypeOK
<1>2. le \in Entry /\ le.loaded /\ le.reserved = entry[k].reserved /\ le.delta = entry[k].delta
  BY <1>1, LoadedEntryFacts
<1>3. lb \in Balance /\ lb.loaded /\ lb.reserved = balance[now].reserved
  BY <1>1, LoadedBalanceFacts
<1>4. /\ held[o] = 0 /\ phase[o[1]] = "open" /\ ~failure
      /\ entry[k].loaded \/ status[k[1]] = "active"
      /\ UNCHANGED <<rowVars, pending, failure, now, phase, owner, patch>>
  BY DEF Reserve, ReserveRefused, CanReserve, reqVars
<1>5. /\ lb1 \in Balance /\ lb1.limit = limit /\ lb1.total = lb.total /\ lb1.reserved = lb.reserved
  <2> HIDE DEF lb
  <2> QED BY <1>1, <1>3 DEF Balance
<1>6. CASE Reserve(o, n, limit)
  <2>1. /\ w = Want(n, le, lb1) /\ w > 0
        /\ entry' = [entry EXCEPT ![k] = [le EXCEPT !.reserved = @ + w]]
        /\ balance' = [balance EXCEPT ![now] = [lb1 EXCEPT !.reserved = @ + w]]
        /\ held' = [held EXCEPT ![o] = w] /\ heldMonth' = [heldMonth EXCEPT ![o] = now]
    BY <1>6 DEF Reserve
  <2>2. /\ w \in Int /\ w <= Chunk
        /\ le.quota = 0 \/ le.total + le.reserved + w <= le.quota
        /\ lb1.limit = 0 \/ lb1.total + lb1.reserved + w <= lb1.limit
    <3> HIDE DEF le, lb, lb1, k
    <3> QED BY <1>2, <1>5, <2>1, WantFits
  <2> HIDE DEF w
  <2>3. w \in Nat /\ w \in 1..Chunk
    BY <2>1, <2>2, MeterAssumption
  <2> HIDE DEF le, lb
  <2>4. /\ e = [le EXCEPT !.reserved = @ + w] /\ b = [lb1 EXCEPT !.reserved = @ + w]
    BY <1>2, <1>3 DEF Entry, Balance
  <2>5. /\ e \in Entry /\ e.loaded /\ e.delta = entry[k].delta /\ e.reserved = entry[k].reserved + w
        /\ e.total = le.total /\ e.quota = le.quota
        /\ b \in Balance /\ b.loaded /\ b.reserved = balance[now].reserved + w
        /\ b.total = lb.total /\ b.limit = limit
    <3> DEFINE r == entry[k].reserved + w
               s == balance[now].reserved + w
    <3>1. r \in Nat /\ s \in Nat
      BY <1>1, <2>3 DEF TypeOK, Entry, Balance
    <3>2. e = [le EXCEPT !.reserved = r] /\ b = [lb EXCEPT !.reserved = s, !.limit = limit]
      OBVIOUS
    <3> HIDE DEF e, b
    <3>3. e.reserved = r /\ b.reserved = s /\ e \in Entry /\ e.loaded /\ e.delta = le.delta
          /\ e.total = le.total /\ e.quota = le.quota
          /\ b \in Balance /\ b.loaded /\ b.total = lb.total /\ b.limit = limit
      <4> HIDE DEF r, s, k
      <4>1. e \in Entry /\ e.loaded = le.loaded /\ e.delta = le.delta /\ e.total = le.total
            /\ e.quota = le.quota /\ e.reserved = r
        BY <1>2, <3>1, <3>2 DEF Entry
      <4>2. b \in Balance /\ b.loaded = lb.loaded /\ b.total = lb.total /\ b.reserved = s
            /\ b.limit = limit
        BY <1>1, <1>3, <3>1, <3>2 DEF Balance
      <4> QED BY <1>2, <1>3, <4>1, <4>2
    <3> QED BY <1>2, <3>3
  <2>6. /\ e.quota = 0 \/ e.total + e.reserved <= e.quota
        /\ limit = 0 \/ b.total + b.reserved <= limit
    BY <1>1, <1>2, <1>3, <1>5, <2>2, <2>3, <2>5 DEF Entry, Balance
  <2>7. /\ k = <<owner[o[1]], now>>
        /\ e = [LoadedEntry(k) EXCEPT !.reserved = entry[k].reserved + w]
        /\ b = [LoadedBalance(now) EXCEPT !.reserved = balance[now].reserved + w, !.limit = limit]
        /\ le = LoadedEntry(k) /\ lb = LoadedBalance(now)
    BY DEF le, lb
  <2> HIDE DEF e, b, k
  <2>8. GrantsTo(o, limit, w, k, e, b)
    BY <1>1, <1>4, <2>1, <2>3, <2>4, <2>5, <2>6, <2>7 DEF GrantsTo
  <2> QED BY <1>1, <2>3, <2>5, <2>8
<1>7. CASE ~Reserve(o, n, limit)
  <2>1. /\ entry' = [entry EXCEPT ![k] = le] /\ balance' = [balance EXCEPT ![now] = lb1]
        /\ UNCHANGED <<held, heldMonth>>
    BY <1>7 DEF ReserveRefused, reqVars
  <2>2. w = 0
    BY <1>7
  <2> HIDE DEF w, le, lb
  <2>4. entry[k].reserved \in Nat /\ balance[now].reserved \in Nat
    BY <1>1 DEF TypeOK, Entry, Balance
  <2>5. e = le /\ b = lb1
    <3> DEFINE r == entry[k].reserved + w
               s == balance[now].reserved + w
    <3>1. r = le.reserved /\ s = lb.reserved /\ r \in Nat /\ s \in Nat
      BY <1>2, <1>3, <2>2, <2>4
    <3>2. e = [le EXCEPT !.reserved = r] /\ b = [lb EXCEPT !.reserved = s, !.limit = limit]
          /\ lb1 = [lb EXCEPT !.limit = limit]
      OBVIOUS
    <3> HIDE DEF r, s, k, e, b, lb1
    <3>3. e = le
      BY <1>2, <3>1, <3>2 DEF Entry
    <3>4. b = lb1
      BY <1>1, <1>3, <3>1, <3>2 DEF Balance
    <3> QED BY <3>3, <3>4
  <2>6. /\ k = <<owner[o[1]], now>>
        /\ e = [LoadedEntry(k) EXCEPT !.reserved = entry[k].reserved + w]
        /\ b = [LoadedBalance(now) EXCEPT !.reserved = balance[now].reserved + w, !.limit = limit]
        /\ le = LoadedEntry(k) /\ lb = LoadedBalance(now)
    BY DEF le, lb
  <2>8. /\ e.loaded /\ e.delta = entry[k].delta /\ e.reserved = entry[k].reserved + w
        /\ e.total = LoadedEntry(k).total /\ e.quota = LoadedEntry(k).quota
        /\ b.loaded /\ b.reserved = balance[now].reserved + w
        /\ b.total = LoadedBalance(now).total /\ b.limit = limit
    BY <1>2, <1>3, <1>5, <2>2, <2>4, <2>5, <2>6
  <2>9. entry' = [entry EXCEPT ![k] = e] /\ balance' = [balance EXCEPT ![now] = b]
    BY <2>1, <2>5
  <2> HIDE DEF e, b, k
  <2>7. GrantsTo(o, limit, w, k, e, b)
    BY <1>1, <1>4, <2>1, <2>2, <2>6, <2>8, <2>9 DEF GrantsTo
  <2> QED BY <1>1, <1>2, <1>5, <2>2, <2>5, <2>7
<1> QED BY <1>6, <1>7

\* A step that changes no cache, makes no row bigger and marks none as warned.
CachesRest ==
    /\ UNCHANGED memVars /\ usage' \in [Keys -> Nat]
    /\ \A k \in Keys : usage'[k] <= usage[k] /\ (warnedRow'[k] => warnedRow[k])

\* A step that at most loads the month, or latches the failure.
LoadsMonth ==
    /\ balance' = balance \/ balance' = [balance EXCEPT ![now] = LoadedBalance(now)]
    /\ failure => failure'
    /\ failure' => failure \/ FaultyDB
    /\ UNCHANGED <<rowVars, entry, pending, now, reqVars, patch>>

\* A flush of the caches as they are.
Flushes ==
    /\ Flush(entry, balance, pending, phase) \/ Flush(entry, balance, pending, phase')
    /\ UNCHANGED <<quota, now, held, heldMonth, patch>>

\* What a step of the meter can do to its caches.
LEMMA StepMoves ==
    ASSUME MeterInv, [Next]_vars
    PROVE  \/ CachesRest
           \/ LoadsMonth
           \/ \E o \in Ops, n \in Nat, limit \in Limits : Reserve(o, n, limit) \/ ReserveRefused(o, n, limit)
           \/ \E p \in Patchers : UpdateQuota(p)
           \/ Flushes
           \/ \E o \in Ops, n \in Nat : Settle(o, n)
           \/ Restart
<1>0. usage \in [Keys -> Nat] /\ warnedRow \in [Keys -> BOOLEAN] /\ 1..Chunk + 1 \subseteq Nat /\ 0..Chunk \subseteq Nat
  BY MeterAssumption DEF MeterInv, TypeOK
<1>1. CASE RequestNext
  <2>1. ASSUME NEW r \in Requests, CloseHandle(r) \/ \E t \in Tunnels : Begin(r, t) PROVE CachesRest
    BY <1>0, <2>1 DEF CloseHandle, Begin, rowVars, CachesRest
  <2>2. ASSUME NEW r \in Requests, CloseFlush(r) PROVE Flushes
    BY <2>2 DEF CloseFlush, Flushes
  <2>3. ASSUME NEW o \in Ops, ReserveUnloaded(o) PROVE LoadsMonth
    BY <2>3 DEF ReserveUnloaded, LoadsMonth
  <2> QED BY <1>0, <1>1, <2>1, <2>2, <2>3 DEF RequestNext
<1>2. CASE PatchNext
  <2>1. ASSUME NEW p \in Patchers, PatchCommit(p) \/ PatchFails(p) \/ PatchRearm(p) PROVE CachesRest
    BY <1>0, <2>1 DEF PatchCommit, PatchFails, PatchRearm, rowVars, CachesRest
  <2>2. ASSUME NEW p \in Patchers, NEW t \in Tunnels, NEW s \in StatusFields,
               NEW q \in QuotaFields, PatchLoad(p, t, s, q)
        PROVE  CachesRest
    BY <1>0, <2>2 DEF PatchLoad, rowVars, CachesRest
  <2> QED BY <1>2, <2>1, <2>2 DEF PatchNext
<1>3. CASE GlobalOverBudget
  BY <1>3 DEF GlobalOverBudget, LoadsMonth
<1>4. CASE FlushTick
  BY <1>4 DEF FlushTick, Flushes, reqVars
<1>5. CASE \E t \in Tunnels : OwnerDelete(t) \/ DeviceDelete(t)
  <2>1. ASSUME NEW t \in Tunnels, DropRow(t) PROVE CachesRest
    BY <1>0, <2>1 DEF DropRow, CachesRest
  <2> QED BY <1>5, <2>1 DEF OwnerDelete, DeviceDelete
<1>6. CASE NextMonth \/ UNCHANGED vars
  BY <1>0, <1>6 DEF NextMonth, vars, rowVars, CachesRest
<1> QED BY <1>1, <1>2, <1>3, <1>4, <1>5, <1>6 DEF Next

\* A step that leaves the deltas alone, and at most loads months, keeps the books.
LEMMA SameBooks ==
    ASSUME MeterInv, Books, usage' \in [Keys -> Nat], \A k \in Keys : usage'[k] <= usage[k],
           DeltasOf(entry') = DeltasOf(entry), pending' = pending,
           \A m \in Months : balance'[m].loaded => balance'[m].total = LoadedBalance(m).total,
           \A k \in Keys : entry'[k].loaded => balance'[k[2]].loaded
    PROVE  Books'
<1> DEFINE D == DeltasOf(entry)
<1> USE DEF MeterInv
<1>1. D \in [Keys -> Nat] /\ usage \in [Keys -> Nat] /\ balance \in [Months -> Balance]
      /\ \A k \in Keys : D[k] = entry[k].delta
  BY DEF TypeOK, Entry, DeltasOf
<1> HIDE DEF D
<1>2. ASSUME NEW m \in Months, balance'[m].loaded
      PROVE  balance'[m].total >= SumOver(usage', MonthKeys(m)) + SumOver(D, MonthKeys(m))
  <2>1. /\ SumOver(usage, MonthKeys(m)) \in Nat /\ SumOver(D, MonthKeys(m)) \in Nat
        /\ SumOver(usage', MonthKeys(m)) \in Nat
        /\ IsFiniteSet(MonthKeys(m)) /\ MonthKeys(m) \subseteq Keys
    BY <1>1, BookSums
  <2>2. SumOver(usage', MonthKeys(m)) <= SumOver(usage, MonthKeys(m))
    <3>1. \A x \in MonthKeys(m) : usage'[x] \in Nat /\ usage[x] \in Nat /\ usage'[x] <= usage[x]
      BY <1>1, <2>1
    <3> QED BY <2>1, <3>1, SumMonotone
  <2>3. LoadedBalance(m) \in Balance /\ balance'[m].total = LoadedBalance(m).total
    BY <1>2, LoadedBalanceFacts
  <2>4. LoadedBalance(m).total >= SumOver(usage, MonthKeys(m)) + SumOver(D, MonthKeys(m))
    <3>1. CASE balance[m].loaded
      <4>1. LoadedBalance(m) = balance[m]
        BY <3>1 DEF LoadedBalance
      <4> QED BY <3>1, <4>1 DEF Books, BooksOf, D
    <3>2. CASE ~balance[m].loaded
      <4>1. LoadedBalance(m).total = SumOver(usage, MonthKeys(m))
        BY <3>2 DEF LoadedBalance, NoBalance
      <4>2. \A k \in MonthKeys(m) : D[k] = 0
        BY <1>1, <3>2, KeyMonths DEF Books, BooksOf, UnloadedIsBlank, NoEntry
      <4>3. SumOver(D, MonthKeys(m)) = 0
        BY <4>2, SumZero
      <4> QED BY <2>1, <4>1, <4>3
    <3> QED BY <3>1, <3>2
  <2> QED BY <2>1, <2>2, <2>3, <2>4 DEF Balance
<1>3. pending = SumOver(D, Keys)
  BY DEF Books, BooksOf, D
<1> QED BY <1>2, <1>3 DEF Books, BooksOf, D

\* Blank caches have no bytes on their books.
LEMMA BlankCaches ==
    /\ SumOver(DeltasOf([k \in Keys |-> NoEntry]), Keys) = 0
    /\ \A k \in Keys : ~[j \in Keys |-> NoEntry][k].loaded
    /\ \A m \in Months : ~[i \in Months |-> NoBalance][m].loaded
<1>1. \A k \in Keys : DeltasOf([j \in Keys |-> NoEntry])[k] = 0
  BY DEF DeltasOf, NoEntry
<1> QED BY <1>1, SumZero DEF NoEntry, NoBalance

\* settle enters the same bytes on the tunnel, the month and the pending sum.
LEMMA SettleBooks ==
    ASSUME MeterInv, Books, NEW o \in Ops, NEW n \in Nat,
           NEW k \in Keys, NEW e \in Entry, NEW b \in Balance, SettlesTo(o, n, k, e, b)
    PROVE  BooksOf([entry EXCEPT ![k] = e], [balance EXCEPT ![k[2]] = b], pending + n)
<1> USE DEF MeterInv
<1> DEFINE D == DeltasOf(entry)
           ents == [entry EXCEPT ![k] = e]
           bals == [balance EXCEPT ![k[2]] = b]
           G == DeltasOf(ents)
<1>0. /\ entry[k].loaded /\ e.loaded /\ balance[k[2]].loaded /\ b.loaded
      /\ e.delta = entry[k].delta + n /\ b.total = balance[k[2]].total + n
  BY DEF SettlesTo
<1>1. /\ D \in [Keys -> Nat] /\ usage \in [Keys -> Nat] /\ balance \in [Months -> Balance]
      /\ \A j \in Keys : D[j] = entry[j].delta
      /\ entry[k] \in Entry
  BY DEF TypeOK, Entry, DeltasOf
<1>2. \A j \in Keys : ents[j] = IF j = k THEN e ELSE entry[j]
  BY DEF TypeOK
<1>3. /\ G \in [Keys -> Nat] /\ G[k] = D[k] + n /\ \A j \in Keys : j # k => G[j] = D[j]
  <2>1. \A j \in Keys : G[j] = ents[j].delta
    BY DEF DeltasOf
  <2>2. G = [j \in Keys |-> ents[j].delta]
    BY DEF DeltasOf
  <2> HIDE DEF G, D, ents
  <2>3. G[k] = D[k] + n /\ \A j \in Keys : j # k => G[j] = D[j]
    BY <1>0, <1>1, <1>2, <2>1
  <2>4. \A j \in Keys : ents[j].delta \in Nat
    BY <1>1, <2>1, <2>3
  <2> QED BY <2>2, <2>3, <2>4
<1>4. \A m \in Months : bals[m] = IF m = k[2] THEN b ELSE balance[m]
  BY DEF TypeOK
<1>5. /\ pending = SumOver(D, Keys)
      /\ \A m \in Months : balance[m].loaded =>
            balance[m].total >= SumOver(usage, MonthKeys(m)) + SumOver(D, MonthKeys(m))
      /\ \A j \in Keys : entry[j].loaded => balance[j[2]].loaded
  BY DEF Books, BooksOf
<1> HIDE DEF D, G, ents, bals
<1>6. pending + n = SumOver(G, Keys)
  <2>1. IsFiniteSet(Keys) /\ SumOver(D, Keys) \in Nat
    BY <1>1, BookSums
  <2>2. /\ \A j \in Keys : D[j] \in Nat /\ G[j] \in Nat
        /\ \A j \in Keys \ {k} : G[j] = D[j]
    BY <1>1, <1>3
  <2>3. SumOver(G, Keys) = SumOver(D, Keys) - D[k] + G[k]
    BY <2>1, <2>2, SumUpdate
  <2> QED BY <1>1, <1>3, <1>5, <2>1, <2>3
<1>7. ASSUME NEW m \in Months, bals[m].loaded
      PROVE  bals[m].total >= SumOver(usage, MonthKeys(m)) + SumOver(G, MonthKeys(m))
  <2>1. /\ IsFiniteSet(MonthKeys(m)) /\ MonthKeys(m) \subseteq Keys
        /\ SumOver(usage, MonthKeys(m)) \in Nat /\ SumOver(D, MonthKeys(m)) \in Nat
    BY <1>1, BookSums
  <2>2. CASE m = k[2]
    <3>1. k \in MonthKeys(m)
      BY <2>2, KeyMonths
    <3>2. /\ \A j \in MonthKeys(m) : D[j] \in Nat /\ G[j] \in Nat
          /\ \A j \in MonthKeys(m) \ {k} : G[j] = D[j]
      BY <1>1, <1>3, <2>1
    <3>3. SumOver(G, MonthKeys(m)) = SumOver(D, MonthKeys(m)) - D[k] + G[k]
      BY <2>1, <3>1, <3>2, SumUpdate
    <3>4. bals[m].total = balance[m].total + n /\ balance[m].loaded /\ balance[m].total \in Nat
      BY <1>0, <1>1, <1>4, <2>2 DEF Balance
    <3> QED BY <1>1, <1>3, <1>5, <2>1, <3>3, <3>4
  <2>3. CASE m # k[2]
    <3>1. k \notin MonthKeys(m)
      BY <2>3, KeyMonths
    <3>2. \A j \in MonthKeys(m) : G[j] = D[j]
      BY <1>3, <2>1, <3>1
    <3>3. SumOver(G, MonthKeys(m)) = SumOver(D, MonthKeys(m))
      BY <3>2, SumSame
    <3> QED BY <1>4, <1>5, <1>7, <2>3, <3>3
  <2> QED BY <2>2, <2>3
<1>8. ASSUME NEW j \in Keys, ents[j].loaded PROVE bals[j[2]].loaded
  BY <1>0, <1>2, <1>4, <1>5, <1>8, KeyMonths
<1> QED BY <1>6, <1>7, <1>8 DEF BooksOf, G, ents, bals

\* Every step keeps the books.
LEMMA StepBooks == MeterInv /\ Books /\ [Next]_vars => Books'
<1> SUFFICES ASSUME MeterInv, Books, [Next]_vars PROVE Books'
  OBVIOUS
<1> USE DEF MeterInv
<1>0. /\ usage \in [Keys -> Nat] /\ balance \in [Months -> Balance] /\ entry \in [Keys -> Entry]
      /\ \A k \in Keys : usage[k] <= usage[k]
      /\ \A m \in Months : balance[m].loaded => LoadedBalance(m) = balance[m]
      /\ \A k \in Keys : entry[k].loaded => balance[k[2]].loaded
  <2>1. usage \in [Keys -> Nat] /\ balance \in [Months -> Balance] /\ entry \in [Keys -> Entry]
    BY DEF TypeOK
  <2>2. \A m \in Months : balance[m].loaded => LoadedBalance(m) = balance[m]
    BY DEF LoadedBalance
  <2>3. \A k \in Keys : entry[k].loaded => balance[k[2]].loaded
    BY DEF Books, BooksOf
  <2> QED BY <2>1, <2>2, <2>3
<1>1. CASE CachesRest
  BY <1>0, <1>1, SameBooks DEF CachesRest, memVars
<1>2. CASE LoadsMonth
  <2>1. \A m \in Months : /\ balance'[m].loaded => balance'[m].total = LoadedBalance(m).total
                          /\ balance[m].loaded => balance'[m].loaded
    BY <1>0, <1>2 DEF LoadsMonth
  <2>2. UNCHANGED <<usage, entry, pending>>
    BY <1>2 DEF LoadsMonth, rowVars
  <2> QED BY <1>0, <2>1, <2>2, SameBooks, KeyMonths
<1>3. ASSUME NEW o \in Ops, NEW n \in Nat, NEW limit \in Limits,
             Reserve(o, n, limit) \/ ReserveRefused(o, n, limit)
      PROVE  Books'
  <2>0. PICK w \in Nat, k \in Keys, e \in Entry, b \in Balance : GrantsTo(o, limit, w, k, e, b)
    BY <1>3, GrantIs
  <2>1. /\ k[2] = now /\ now \in Months /\ e.delta = entry[k].delta /\ b.loaded
        /\ b.total = LoadedBalance(now).total
        /\ entry' = [entry EXCEPT ![k] = e] /\ balance' = [balance EXCEPT ![now] = b]
        /\ UNCHANGED <<usage, pending>>
    BY <2>0 DEF GrantsTo, rowVars
  <2>2. \A m \in Months : balance'[m].loaded => balance'[m].total = LoadedBalance(m).total
    BY <1>0, <2>1
  <2>3. \A j \in Keys : entry'[j].delta = entry[j].delta
    BY <1>0, <2>1
  <2>4. DeltasOf(entry') = DeltasOf(entry)
    BY <2>3 DEF DeltasOf
  <2>5. \A j \in Keys : entry'[j].loaded => balance'[j[2]].loaded
    BY <1>0, <2>1, KeyMonths
  <2> QED BY <1>0, <2>1, <2>2, <2>4, <2>5, SameBooks
<1>4. ASSUME NEW p \in Patchers, UpdateQuota(p) PROVE Books'
  <2>1. UNCHANGED <<usage, balance, pending>>
    BY <1>4 DEF UpdateQuota, rowVars
  <2>2. \A k \in Keys : entry'[k].delta = entry[k].delta /\ entry'[k].loaded = entry[k].loaded
    <3> SUFFICES ASSUME NEW k \in Keys
                 PROVE  entry'[k].delta = entry[k].delta /\ entry'[k].loaded = entry[k].loaded
      OBVIOUS
    <3>1. \/ entry'[k] = entry[k]
          \/ \E q : entry'[k] = [entry[k] EXCEPT !.quota = q]
      BY <1>4 DEF UpdateQuota
    <3>2. entry[k] \in Entry
      BY <1>0
    <3>3. CASE entry'[k] = entry[k]
      BY <3>3
    <3>4. CASE \E q : entry'[k] = [entry[k] EXCEPT !.quota = q]
      <4>1. PICK q : entry'[k] = [entry[k] EXCEPT !.quota = q]
        BY <3>4
      <4> QED BY <3>2, <4>1 DEF Entry
    <3> QED BY <3>1, <3>3, <3>4
  <2>3. DeltasOf(entry') = DeltasOf(entry)
    BY <2>2 DEF DeltasOf
  <2> QED BY <1>0, <2>1, <2>2, <2>3, SameBooks
<1>5. CASE Flushes
  <2>1. CachesOK(entry, balance, pending) /\ BooksOf(entry, balance, pending)
    BY MeterCaches DEF Books
  <2> QED BY <1>5, <2>1, FlushBooks DEF Flushes
<1>6. ASSUME NEW o \in Ops, NEW n \in Nat, Settle(o, n) PROVE Books'
  <2>0. PICK k \in Keys, e \in Entry, b \in Balance : SettlesTo(o, n, k, e, b)
    BY <1>6, SettleIs
  <2> DEFINE ents == [entry EXCEPT ![k] = e]
             bals == [balance EXCEPT ![k[2]] = b]
  <2>1. BooksOf(ents, bals, pending + n)
    BY <2>0, SettleBooks
  <2>2. /\ CachesOK(ents, bals, pending + n)
        /\ \/ Flush(ents, bals, pending + n, phase)
           \/ /\ entry' = ents /\ balance' = bals /\ pending' = pending + n /\ UNCHANGED usage
    BY <2>0 DEF SettlesTo, rowVars
  <2> HIDE DEF ents, bals
  <2>3. CASE Flush(ents, bals, pending + n, phase)
    BY <2>1, <2>2, <2>3, FlushBooks
  <2>4. CASE entry' = ents /\ balance' = bals /\ pending' = pending + n /\ UNCHANGED usage
    BY <2>1, <2>4 DEF Books, BooksOf
  <2> QED BY <2>2, <2>3, <2>4
<1>7. CASE Restart
  <2>1. entry' = [k \in Keys |-> NoEntry] /\ balance' = [m \in Months |-> NoBalance] /\ pending' = 0
    BY <1>7 DEF Restart
  <2> QED BY <2>1, BlankCaches DEF Books, BooksOf
<1> QED BY <1>1, <1>2, <1>3, <1>4, <1>5, <1>6, <1>7, StepMoves

\* The books hold from the start.
LEMMA InitBooks == Init => Books
BY BlankCaches DEF Init, Books, BooksOf

\* The inductive invariant with the books.
LEMMA BooksKept == Spec => [](MeterInv /\ Books)
<1>1. MeterInv /\ Books /\ [Next]_vars => MeterInv' /\ Books'
  BY StepInv, StepBooks
<1> QED BY <1>1, InitInv, InitBooks, PTL DEF Spec

\* The books are the properties the runs check.
LEMMA BooksMeans == MeterInv /\ Books => PendingCountsDeltas /\ MonthCoversTunnels
<1>1. DeltasOf(entry) = Deltas
  BY DEF DeltasOf, Deltas
<1> QED BY <1>1 DEF Books, BooksOf, PendingCountsDeltas, MonthCoversTunnels

\* Without device DELETE a row is gone only when nothing of it is in memory.
GoneUnloaded == \A k \in Keys : status[k[1]] = "gone" => ~entry[k].loaded

\* A flush loads nothing and deletes nothing.
LEMMA FlushGone ==
    ASSUME TypeOK, NEW STATE ents, NEW STATE bals, NEW STATE pend, NEW ACTION ph,
           CachesOK(ents, bals, pend), \A k \in Keys : status[k[1]] = "gone" => ~ents[k].loaded,
           Flush(ents, bals, pend, ph)
    PROVE  GoneUnloaded'
<1>0. /\ \A k \in Keys : k[1] \in Tunnels /\ ents[k] \in Entry
      /\ ~NoEntry.loaded
  BY KeyMonths DEF CachesOK, NoEntry
<1>1. CASE entry' = Pruned(ents, ph) /\ UNCHANGED status
  BY <1>0, <1>1 DEF GoneUnloaded, Pruned
<1>2. CASE Commit(ents, bals, ph)
  <2>1. \A k \in Keys : Cleared(ents)[k].loaded = ents[k].loaded
    BY <1>0 DEF Cleared, Entry
  <2>2. \A t \in Tunnels : status'[t] = "gone" => status[t] = "gone"
    BY <1>2 DEF Commit
  <2>3. \A k \in Keys : entry'[k].loaded => ents[k].loaded
    BY <1>0, <1>2, <2>1 DEF Commit, Pruned
  <2> QED BY <1>0, <2>2, <2>3 DEF GoneUnloaded
<1>3. CASE entry' = ents /\ UNCHANGED status
  BY <1>3 DEF GoneUnloaded
<1> QED BY <1>1, <1>2, <1>3 DEF Flush

\* Steps that keep the rows' existence and load entries of existing rows only.
LEMMA GoneFrame ==
    ASSUME GoneUnloaded, \A t \in Tunnels : status'[t] = "gone" => status[t] = "gone",
           \A k \in Keys : entry'[k].loaded => entry[k].loaded \/ status[k[1]] = "active"
    PROVE  GoneUnloaded'
BY KeyMonths DEF GoneUnloaded

\* Only an owner's DELETE, on a drained tunnel, makes a row go.
LEMMA StepGone ==
    ASSUME ~DeviceDeletes
    PROVE  MeterInv /\ GoneUnloaded /\ [Next]_vars => GoneUnloaded'
<1> SUFFICES ASSUME MeterInv, GoneUnloaded, [Next]_vars PROVE GoneUnloaded'
  OBVIOUS
<1> USE DEF MeterInv
<1>0. entry \in [Keys -> Entry] /\ status \in [Tunnels -> Statuses]
  BY DEF TypeOK
<1>1. CASE UNCHANGED <<entry, status>>
  BY <1>1, GoneFrame
<1>2. CASE LoadsMonth
  BY <1>2, GoneFrame DEF LoadsMonth, rowVars
<1>3. ASSUME NEW o \in Ops, NEW n \in Nat, NEW limit \in Limits,
             Reserve(o, n, limit) \/ ReserveRefused(o, n, limit)
      PROVE  GoneUnloaded'
  <2>0. PICK w \in Nat, k \in Keys, e \in Entry, b \in Balance : GrantsTo(o, limit, w, k, e, b)
    BY <1>3, GrantIs
  <2>1. /\ entry[k].loaded \/ status[k[1]] = "active"
        /\ entry' = [entry EXCEPT ![k] = e] /\ UNCHANGED status
    BY <2>0 DEF GrantsTo, rowVars
  <2>2. \A j \in Keys : entry'[j].loaded => entry[j].loaded \/ status[j[1]] = "active"
    BY <1>0, <2>1
  <2> QED BY <2>1, <2>2, GoneFrame
<1>4. ASSUME NEW p \in Patchers, UpdateQuota(p) PROVE GoneUnloaded'
  <2>1. \A k \in Keys : entry'[k].loaded = entry[k].loaded
    <3> SUFFICES ASSUME NEW k \in Keys PROVE entry'[k].loaded = entry[k].loaded
      OBVIOUS
    <3>1. \/ entry'[k] = entry[k]
          \/ \E q : entry'[k] = [entry[k] EXCEPT !.quota = q]
      BY <1>4 DEF UpdateQuota
    <3> QED BY <1>0, <3>1 DEF Entry
  <2> QED BY <1>4, <2>1, GoneFrame DEF UpdateQuota, rowVars
<1>5. CASE Flushes
  BY <1>5, FlushGone, MeterCaches DEF Flushes, GoneUnloaded
<1>6. ASSUME NEW o \in Ops, NEW n \in Nat, Settle(o, n) PROVE GoneUnloaded'
  <2>0. PICK k \in Keys, e \in Entry, b \in Balance : SettlesTo(o, n, k, e, b)
    BY <1>6, SettleIs
  <2> DEFINE ents == [entry EXCEPT ![k] = e]
             bals == [balance EXCEPT ![k[2]] = b]
  <2>1. entry[k].loaded
    BY <2>0 DEF SettlesTo
  <2>2. \A j \in Keys : status[j[1]] = "gone" => ~ents[j].loaded
    BY <1>0, <2>1 DEF GoneUnloaded
  <2>3. /\ CachesOK(ents, bals, pending + n)
        /\ \/ Flush(ents, bals, pending + n, phase)
           \/ entry' = ents /\ UNCHANGED <<status, failure>>
    BY <2>0 DEF SettlesTo, rowVars
  <2> HIDE DEF ents, bals
  <2>4. CASE Flush(ents, bals, pending + n, phase)
    BY <2>2, <2>3, <2>4, FlushGone
  <2>5. CASE entry' = ents /\ UNCHANGED status
    BY <2>2, <2>5 DEF GoneUnloaded
  <2> QED BY <2>3, <2>4, <2>5
<1>7. CASE Restart
  BY <1>7 DEF Restart, GoneUnloaded, NoEntry
<1>8. ASSUME NEW t \in Tunnels, OwnerDelete(t) PROVE GoneUnloaded'
  <2>1. /\ entry' = entry /\ status' = [status EXCEPT ![t] = "gone"]
        /\ \A k \in Keys : k[1] = t => ~entry[k].loaded
    BY <1>8 DEF OwnerDelete, Drained, DropRow, memVars
  <2> QED BY <1>0, <2>1, KeyMonths DEF GoneUnloaded
<1>9. ASSUME NEW p \in Patchers, PatchCommit(p) PROVE GoneUnloaded'
  <2>1. patch[p].status # "gone" /\ entry' = entry
    BY <1>9 DEF PatchCommit, TypeOK, Patch, memVars
  <2>2. \A t \in Tunnels : status'[t] = "gone" => status[t] = "gone"
    BY <1>0, <1>9, <2>1 DEF PatchCommit
  <2> QED BY <2>1, <2>2, GoneFrame
<1>10. CASE RequestNext
  <2>1. 1..Chunk + 1 \subseteq Nat /\ 0..Chunk \subseteq Nat
    BY MeterAssumption
  <2>2. ASSUME NEW r \in Requests, CloseHandle(r) \/ \E t \in Tunnels : Begin(r, t) PROVE GoneUnloaded'
    BY <1>1, <2>2 DEF CloseHandle, Begin, rowVars, memVars
  <2>3. ASSUME NEW r \in Requests, CloseFlush(r) PROVE Flushes
    BY <2>3 DEF CloseFlush, Flushes
  <2>4. ASSUME NEW o \in Ops, ReserveUnloaded(o) PROVE LoadsMonth
    BY <2>4 DEF ReserveUnloaded, LoadsMonth
  <2> QED BY <1>2, <1>3, <1>5, <1>6, <1>10, <2>1, <2>2, <2>3, <2>4 DEF RequestNext
<1>11. CASE PatchNext
  <2>1. ASSUME NEW p \in Patchers, PatchFails(p) \/ PatchRearm(p) PROVE GoneUnloaded'
    BY <1>1, <2>1 DEF PatchFails, PatchRearm, rowVars, memVars
  <2>2. ASSUME NEW p \in Patchers, NEW t \in Tunnels, NEW s \in StatusFields,
               NEW q \in QuotaFields, PatchLoad(p, t, s, q)
        PROVE  GoneUnloaded'
    BY <1>1, <2>2 DEF PatchLoad, rowVars, memVars
  <2> QED BY <1>4, <1>9, <1>11, <2>1, <2>2 DEF PatchNext
<1>12. CASE GlobalOverBudget
  BY <1>2, <1>12 DEF GlobalOverBudget, LoadsMonth
<1>13. CASE FlushTick
  BY <1>5, <1>13 DEF FlushTick, Flushes, reqVars
<1>14. CASE \E t \in Tunnels : OwnerDelete(t) \/ DeviceDelete(t)
  BY <1>8, <1>14 DEF DeviceDelete
<1>15. CASE NextMonth \/ UNCHANGED vars
  BY <1>1, <1>15 DEF NextMonth, vars, rowVars, memVars
<1> QED BY <1>7, <1>10, <1>11, <1>12, <1>13, <1>14, <1>15 DEF Next

\* Rows that are gone have left nothing in memory.
LEMMA GoneKept ==
    ASSUME ~DeviceDeletes
    PROVE  Spec => [](MeterInv /\ GoneUnloaded)
<1>1. Init => GoneUnloaded
  BY KeyMonths DEF Init, GoneUnloaded
<1>2. MeterInv /\ GoneUnloaded /\ [Next]_vars => MeterInv' /\ GoneUnloaded'
  BY StepInv, StepGone
<1> QED BY <1>1, <1>2, InitInv, PTL DEF Spec

\* A flush whose dirty entries all have their rows fails by a fault only.
LEMMA FlushReady ==
    ASSUME TypeOK, NEW STATE ents, NEW STATE bals, NEW STATE pend, NEW ACTION ph,
           CachesOK(ents, bals, pend), \A k \in Keys : status[k[1]] = "gone" => ~ents[k].loaded,
           FaultyDB \/ ~failure, Flush(ents, bals, pend, ph)
    PROVE  FaultyDB \/ ~failure'
<1>1. ~Orphaned(ents)
  BY DEF Orphaned, Dirty, CachesOK, NoEntry
<1> QED BY <1>1 DEF Flush, Commit

\* Where rows go only by the owner's DELETE, only faults latch the failure.
LEMMA StepReady ==
    ASSUME ~DeviceDeletes
    PROVE  MeterInv /\ GoneUnloaded /\ DeletesKeepMeterReady /\ [Next]_vars => DeletesKeepMeterReady'
<1> SUFFICES ASSUME MeterInv, GoneUnloaded, FaultyDB \/ ~failure, [Next]_vars
             PROVE  FaultyDB \/ ~failure'
  BY DEF DeletesKeepMeterReady
<1> USE DEF MeterInv
<1>1. CASE CachesRest
  BY <1>1 DEF CachesRest, memVars
<1>2. CASE LoadsMonth
  BY <1>2 DEF LoadsMonth
<1>3. ASSUME NEW o \in Ops, NEW n \in Nat, NEW limit \in Limits,
             Reserve(o, n, limit) \/ ReserveRefused(o, n, limit)
      PROVE  FaultyDB \/ ~failure'
  BY <1>3 DEF Reserve, ReserveRefused
<1>4. ASSUME NEW p \in Patchers, UpdateQuota(p) PROVE FaultyDB \/ ~failure'
  BY <1>4 DEF UpdateQuota
<1>5. CASE Flushes
  BY <1>5, FlushReady, MeterCaches DEF Flushes, GoneUnloaded
<1>6. ASSUME NEW o \in Ops, NEW n \in Nat, Settle(o, n) PROVE FaultyDB \/ ~failure'
  <2>0. PICK k \in Keys, e \in Entry, b \in Balance : SettlesTo(o, n, k, e, b)
    BY <1>6, SettleIs
  <2> DEFINE ents == [entry EXCEPT ![k] = e]
             bals == [balance EXCEPT ![k[2]] = b]
  <2>1. entry[k].loaded
    BY <2>0 DEF SettlesTo
  <2>2. \A j \in Keys : status[j[1]] = "gone" => ~ents[j].loaded
    BY <2>1 DEF GoneUnloaded, TypeOK
  <2>3. /\ CachesOK(ents, bals, pending + n)
        /\ Flush(ents, bals, pending + n, phase) \/ UNCHANGED failure
    BY <2>0 DEF SettlesTo
  <2> HIDE DEF ents, bals
  <2> QED BY <2>2, <2>3, FlushReady
<1>7. CASE Restart
  BY <1>7 DEF Restart
<1> QED BY <1>1, <1>2, <1>3, <1>4, <1>5, <1>6, <1>7, StepMoves

\* pending is always the sum of what no flush has committed, so that a flush that
\* finds it zero may skip its transaction, and the shared month always covers what
\* its tunnels moved (meter.go 74-90, 160-191 and 273-361).
THEOREM BooksBalance == Spec => [](PendingCountsDeltas /\ MonthCoversTunnels)
BY BooksKept, BooksMeans, PTL

\* Where rows go only by the owner's DELETE, no settled byte is ever left without
\* the row it must be added to (meter.go 300-361, PrepareDelete in gateway.go).
THEOREM BooksShared ==
    ASSUME ~DeviceDeletes
    PROVE  Spec => []SharedBooks
<1>1. MeterInv /\ Books /\ GoneUnloaded => SharedBooks
  BY BooksMeans DEF SharedBooks, NoOrphans, Orphaned, Dirty, GoneUnloaded, MeterInv, UnloadedIsBlank, NoEntry
<1> QED BY <1>1, BooksKept, GoneKept, PTL

\* The owner's DELETE never latches the meter's failure, whatever requests, PATCHes
\* and restarts come between its steps; the cascade of a device's DELETE is the one
\* way it can happen on a database that works (gateway.go PrepareDelete).
THEOREM OwnerDeletesAreSafe ==
    ASSUME ~DeviceDeletes
    PROVE  Spec => []DeletesKeepMeterReady
<1>1. Init => DeletesKeepMeterReady
  BY DEF Init, DeletesKeepMeterReady
<1>2. MeterInv /\ GoneUnloaded /\ DeletesKeepMeterReady /\ [Next]_vars => DeletesKeepMeterReady'
  BY StepReady
<1> QED BY <1>1, <1>2, GoneKept, PTL DEF Spec

-----------------------------------------------------------------------------
(* What a flush makes of one entry: the marks, the crash loss, the warning *)

\* What the three outcomes of a flush make of one key of the given caches: nothing
\* was pending, everything was committed, or the transaction failed.
FlushedIdle(ents, pend, k) ==
    /\ pend = 0 /\ pending' = 0 /\ entry'[k] \in {ents[k], NoEntry}
    /\ UNCHANGED <<failure, status, usage, warnedRow>>
FlushedAll(ents, k) ==
    /\ pending' = 0 /\ failure' = failure
    /\ usage'[k] = usage[k] + ents[k].delta
    /\ warnedRow'[k] = (warnedRow[k] \/ (ents[k].delta # 0 /\ ents[k].warned))
    /\ status'[k[1]] = "active" =>
          status[k[1]] = "active" /\ ~(ents[k].delta # 0 /\ ents[k].stopPending)
    /\ status'[k[1]] = "gone" <=> status[k[1]] = "gone"
    /\ status[k[1]] = "gone" => ents[k].delta = 0
    /\ \/ entry'[k] = NoEntry
       \/ /\ entry'[k].loaded = ents[k].loaded /\ entry'[k].total = ents[k].total
          /\ entry'[k].quota = ents[k].quota /\ entry'[k].warned = ents[k].warned
          /\ entry'[k].delta = 0 /\ ~entry'[k].warnPending /\ ~entry'[k].stopPending
FlushFailed(ents, pend) ==
    /\ failure' = TRUE /\ pending' = pend /\ entry' = ents
    /\ UNCHANGED <<status, usage, warnedRow>>

\* A flush has one of the three outcomes.
LEMMA FlushIs ==
    ASSUME TypeOK, NEW STATE ents, NEW STATE bals, NEW STATE pend, NEW ACTION ph,
           CachesOK(ents, bals, pend), Flush(ents, bals, pend, ph), NEW k \in Keys
    PROVE  FlushedIdle(ents, pend, k) \/ FlushedAll(ents, k) \/ FlushFailed(ents, pend)
<1>0. ents[k] \in Entry /\ k[1] \in Tunnels /\ warnedRow[k] \in BOOLEAN
  BY KeyMonths DEF CachesOK, TypeOK
<1>1. CASE pend = 0 /\ entry' = Pruned(ents, ph) /\ pending' = 0
           /\ UNCHANGED <<failure, status, usage, warnedRow>>
  BY <1>1 DEF Pruned, FlushedIdle
<1>2. CASE Commit(ents, bals, ph)
  <2> DEFINE c == Cleared(ents)[k]
  <2>1. /\ c.loaded = ents[k].loaded /\ c.total = ents[k].total /\ c.quota = ents[k].quota
        /\ c.warned = ents[k].warned /\ c.delta = 0 /\ ~c.warnPending /\ ~c.stopPending
    BY <1>0 DEF Cleared, Entry
  <2>2. entry'[k] = NoEntry \/ entry'[k] = c
    BY <1>2 DEF Commit, Pruned
  <2> HIDE DEF c
  <2>3. /\ pending' = 0 /\ failure' = failure /\ usage'[k] = usage[k] + ents[k].delta
        /\ warnedRow'[k] = (warnedRow[k] \/ (ents[k].delta # 0 /\ ents[k].warned))
        /\ status[k[1]] = "gone" => ents[k].delta = 0
    BY <1>2 DEF Commit, Dirty, Orphaned
  <2>4. /\ status'[k[1]] = "gone" <=> status[k[1]] = "gone"
        /\ status'[k[1]] = "active" =>
              status[k[1]] = "active" /\ ~(ents[k].delta # 0 /\ ents[k].stopPending)
    <3>1. status'[k[1]] = IF /\ status[k[1]] = "active"
                             /\ \E j \in Keys : j[1] = k[1] /\ Dirty(ents[j]) /\ ents[j].stopPending
                          THEN "quota_exceeded" ELSE status[k[1]]
      BY <1>0, <1>2 DEF Commit
    <3> QED BY <3>1 DEF Dirty
  <2> QED BY <2>1, <2>2, <2>3, <2>4 DEF FlushedAll
<1>3. CASE failure' = TRUE /\ entry' = ents /\ pending' = pend /\ UNCHANGED <<status, usage, warnedRow>>
  BY <1>3 DEF FlushFailed
<1> QED BY <1>1, <1>2, <1>3 DEF Flush

\* What a settlement does to the marks of its entry.
LEMMA SettleMarks ==
    ASSUME MeterInv, NEW o \in Ops, NEW n \in Nat,
           NEW k \in Keys, NEW e \in Entry, NEW b \in Balance, SettlesTo(o, n, k, e, b)
    PROVE  /\ e.stopPending <=> entry[k].stopPending \/ (e.quota > 0 /\ e.total >= e.quota)
           /\ entry[k].warned => e.warned
           /\ e.warnPending => entry[k].warnPending \/ ~entry[k].warned
           /\ e.warned => entry[k].warned \/ e.warnPending
<1>1. entry[k] \in Entry /\ e = SettledEntry(entry[k], held[o], n)
      /\ e.total = entry[k].total + n /\ e.quota = entry[k].quota
  BY DEF MeterInv, TypeOK, SettlesTo
<1>2. /\ e.stopPending = (entry[k].stopPending
                           \/ (entry[k].quota > 0 /\ entry[k].total + n >= entry[k].quota))
      /\ \E crossed \in BOOLEAN : /\ crossed => ~entry[k].warned
                                  /\ e.warned = (entry[k].warned \/ crossed)
                                  /\ e.warnPending = (entry[k].warnPending \/ crossed)
  BY <1>1 DEF SettledEntry, Entry
<1> QED BY <1>1, <1>2 DEF Entry

-----------------------------------------------------------------------------
(* What a crash can lose                                                   *)

\* Every step keeps the bound on what a healthy server has not written.
LEMMA StepCrashLoss == MeterInv /\ CrashLossBounded /\ [Next]_vars => CrashLossBounded'
<1> SUFFICES ASSUME MeterInv, ~failure => pending < FlushBytes, [Next]_vars, ~failure'
             PROVE  pending' < FlushBytes
  BY DEF CrashLossBounded
<1> USE DEF MeterInv
<1>0. FlushBytes \in Nat /\ 0 < FlushBytes
  BY MeterAssumption
<1>1. CASE CachesRest
  BY <1>1 DEF CachesRest, memVars
<1>2. CASE LoadsMonth
  BY <1>2 DEF LoadsMonth
<1>3. ASSUME NEW o \in Ops, NEW n \in Nat, NEW limit \in Limits,
             Reserve(o, n, limit) \/ ReserveRefused(o, n, limit)
      PROVE  pending' < FlushBytes
  BY <1>3 DEF Reserve, ReserveRefused
<1>4. ASSUME NEW p \in Patchers, UpdateQuota(p) PROVE pending' < FlushBytes
  BY <1>4 DEF UpdateQuota
<1>5. CASE Flushes
  BY <1>0, <1>5 DEF Flushes, Flush, Commit
<1>6. ASSUME NEW o \in Ops, NEW n \in Nat, Settle(o, n) PROVE pending' < FlushBytes
  <2>0. PICK k \in Keys, e \in Entry, b \in Balance : SettlesTo(o, n, k, e, b)
    BY <1>6, SettleIs
  <2>1. CASE Flush([entry EXCEPT ![k] = e], [balance EXCEPT ![k[2]] = b], pending + n, phase)
    BY <1>0, <2>1 DEF Flush, Commit
  <2>2. CASE ~MustFlush(e, b, pending + n) /\ pending' = pending + n
    BY <1>0, <2>2 DEF MustFlush, TypeOK
  <2> QED BY <2>0, <2>1, <2>2 DEF SettlesTo
<1>7. CASE Restart
  BY <1>0, <1>7 DEF Restart
<1> QED BY <1>1, <1>2, <1>3, <1>4, <1>5, <1>6, <1>7, StepMoves

\* A crash of a healthy server loses less than meterFlushBytes of settled bytes,
\* over all tunnels and requests together (meter.go 160-191).
THEOREM CrashLossSmall == Spec => []CrashLossBounded
<1>1. Init => CrashLossBounded
  BY MeterAssumption DEF Init, CrashLossBounded
<1> QED BY <1>1, StepCrashLoss, Invariance, PTL DEF Spec

-----------------------------------------------------------------------------
(* One warning a month                                                     *)

\* An entry that has not warned, or whose warning waits, has a row that records none.
UnwarnedRows ==
    \A k \in Keys : entry[k].loaded /\ (~entry[k].warned \/ entry[k].warnPending) => ~warnedRow[k]

\* Whatever a flush does, it records the warnings it commits.
LEMMA FlushWarned ==
    ASSUME TypeOK, NEW STATE ents, NEW STATE bals, NEW STATE pend, NEW ACTION ph,
           CachesOK(ents, bals, pend), Flush(ents, bals, pend, ph),
           \A k \in Keys : ents[k].loaded /\ (~ents[k].warned \/ ents[k].warnPending) => ~warnedRow[k]
    PROVE  UnwarnedRows'
<1> SUFFICES ASSUME NEW k \in Keys
             PROVE  entry'[k].loaded /\ (~entry'[k].warned \/ entry'[k].warnPending) => ~warnedRow'[k]
  BY DEF UnwarnedRows
<1>1. ents[k] \in Entry /\ warnedRow[k] \in BOOLEAN /\ ~NoEntry.loaded
  BY DEF CachesOK, TypeOK, NoEntry
<1>2. FlushedIdle(ents, pend, k) \/ FlushedAll(ents, k) \/ FlushFailed(ents, pend)
  BY FlushIs
<1>3. CASE FlushedAll(ents, k)
  <2>1. ~warnedRow[k] => (warnedRow'[k] <=> ents[k].delta # 0 /\ ents[k].warned)
    BY <1>3 DEF FlushedAll
  <2> QED BY <1>1, <1>3, <2>1 DEF FlushedAll
<1> QED BY <1>1, <1>2, <1>3 DEF FlushedIdle, FlushFailed

\* Every step keeps warnings and rows in agreement.
LEMMA StepWarned == MeterInv /\ UnwarnedRows /\ [Next]_vars => UnwarnedRows'
<1> SUFFICES ASSUME MeterInv, UnwarnedRows, [Next]_vars PROVE UnwarnedRows'
  OBVIOUS
<1> USE DEF MeterInv
<1>0. entry \in [Keys -> Entry] /\ warnedRow \in [Keys -> BOOLEAN]
  BY DEF TypeOK
<1>1. CASE CachesRest
  BY <1>1 DEF CachesRest, memVars, UnwarnedRows
<1>2. CASE LoadsMonth
  BY <1>2 DEF LoadsMonth, rowVars, UnwarnedRows
<1>3. ASSUME NEW o \in Ops, NEW n \in Nat, NEW limit \in Limits,
             Reserve(o, n, limit) \/ ReserveRefused(o, n, limit)
      PROVE  UnwarnedRows'
  <2> DEFINE k == <<owner[o[1]], now>>
             e == LoadedEntry(k)
  <2>1. k \in Keys
    BY <1>3, MeterAssumption DEF Reserve, ReserveRefused, CanReserve, HandlesOwned, Ops, Keys, TypeOK
  <2>2. e \in Entry
    BY <2>1, LoadedEntryFacts
  <2>3. ~e.warned \/ e.warnPending => ~warnedRow[k]
    <3>1. now \in Months
      BY DEF TypeOK
    <3> HIDE DEF k
    <3>2. entry[k].loaded => e = entry[k]
      BY <2>1, <3>1, LoadedReads
    <3>3. ~entry[k].loaded => e.warned = warnedRow[k] /\ ~e.warnPending
      BY <2>1, <3>1, LoadedReads
    <3> QED BY <1>0, <2>1, <2>2, <3>2, <3>3 DEF UnwarnedRows, Entry
  <2>4. \/ entry' = [entry EXCEPT ![k] = e]
        \/ \E w : entry' = [entry EXCEPT ![k] = [e EXCEPT !.reserved = e.reserved + w]]
    BY <1>3 DEF Reserve, ReserveRefused
  <2>5. warnedRow' = warnedRow
    BY <1>3 DEF Reserve, ReserveRefused, rowVars
  <2> HIDE DEF k, e
  <2>6. entry'[k].warned = e.warned /\ entry'[k].warnPending = e.warnPending
    BY <1>0, <2>1, <2>2, <2>4 DEF Entry
  <2>7. \A j \in Keys : j # k => entry'[j] = entry[j]
    BY <1>0, <2>4
  <2> QED BY <2>3, <2>5, <2>6, <2>7 DEF UnwarnedRows
<1>4. ASSUME NEW p \in Patchers, UpdateQuota(p) PROVE UnwarnedRows'
  <2>1. \A k \in Keys : /\ entry'[k].loaded = entry[k].loaded /\ entry'[k].warned = entry[k].warned
                        /\ entry'[k].warnPending = entry[k].warnPending
    <3> SUFFICES ASSUME NEW k \in Keys
                 PROVE  /\ entry'[k].loaded = entry[k].loaded /\ entry'[k].warned = entry[k].warned
                        /\ entry'[k].warnPending = entry[k].warnPending
      OBVIOUS
    <3>1. \/ entry'[k] = entry[k]
          \/ \E q : entry'[k] = [entry[k] EXCEPT !.quota = q]
      BY <1>4 DEF UpdateQuota
    <3> QED BY <1>0, <3>1 DEF Entry
  <2> QED BY <1>4, <2>1 DEF UpdateQuota, rowVars, UnwarnedRows
<1>5. CASE Flushes
  BY <1>5, FlushWarned, MeterCaches DEF Flushes, UnwarnedRows
<1>6. ASSUME NEW o \in Ops, NEW n \in Nat, Settle(o, n) PROVE UnwarnedRows'
  <2>0. PICK k \in Keys, e \in Entry, b \in Balance : SettlesTo(o, n, k, e, b)
    BY <1>6, SettleIs
  <2> DEFINE ents == [entry EXCEPT ![k] = e]
             bals == [balance EXCEPT ![k[2]] = b]
  <2>1. ~e.warned \/ e.warnPending => ~warnedRow[k]
    <3>1. entry[k].loaded
      BY <2>0 DEF SettlesTo
    <3>2. ~e.warned \/ e.warnPending => ~entry[k].warned \/ entry[k].warnPending
      BY <2>0, SettleMarks
    <3> QED BY <3>1, <3>2 DEF UnwarnedRows
  <2>2. \A j \in Keys : ents[j].loaded /\ (~ents[j].warned \/ ents[j].warnPending) => ~warnedRow[j]
    BY <1>0, <2>1 DEF UnwarnedRows
  <2>3. /\ CachesOK(ents, bals, pending + n)
        /\ \/ Flush(ents, bals, pending + n, phase)
           \/ entry' = ents /\ UNCHANGED warnedRow
    BY <2>0 DEF SettlesTo, rowVars
  <2> HIDE DEF ents, bals
  <2>4. CASE Flush(ents, bals, pending + n, phase)
    BY <2>2, <2>3, <2>4, FlushWarned
  <2>5. CASE entry' = ents /\ UNCHANGED warnedRow
    BY <2>2, <2>5 DEF UnwarnedRows
  <2> QED BY <2>3, <2>4, <2>5
<1>7. CASE Restart
  BY <1>7 DEF Restart, UnwarnedRows, NoEntry
<1> QED BY <1>1, <1>2, <1>3, <1>4, <1>5, <1>6, <1>7, StepMoves

\* However entries are pruned and reloaded, and whatever PATCH does to the row's
\* flag, no second warning waits while the row records the first (meter.go 45-72,
\* 160-191 and 300-361).
THEOREM OneWarning == Spec => []WarnedOnce
<1>1. Init => UnwarnedRows
  BY DEF Init, UnwarnedRows, NoEntry
<1>2. MeterInv /\ UnwarnedRows => WarnedOnce
  BY DEF MeterInv, UnloadedIsBlank, NoEntry, UnwarnedRows, WarnedOnce
<1> QED BY <1>1, <1>2, StepWarned, Invariance, PTL DEF Spec

-----------------------------------------------------------------------------
(* The tunnels together are never promised more than the shared budget     *)

\* What a month has spent or been promised according to given balances.
SharedIn(bals, m) ==
    IF bals[m].loaded THEN bals[m].total + bals[m].reserved ELSE SumOver(usage, MonthKeys(m))

\* Committing and pruning never makes a month look more spent than it was.
LEMMA FlushShared ==
    ASSUME TypeOK, NEW STATE ents, NEW STATE bals, NEW STATE pend, NEW ACTION ph,
           CachesOK(ents, bals, pend), BooksOf(ents, bals, pend), Flush(ents, bals, pend, ph),
           NEW m \in Months
    PROVE  CommittedShared(m)' <= SharedIn(bals, m)
<1> DEFINE D == DeltasOf(ents)
<1>1. /\ ents \in [Keys -> Entry] /\ bals[m] \in Balance /\ usage \in [Keys -> Nat]
      /\ \A k \in Keys : ents[k].loaded \/ ents[k].delta = 0
      /\ ~NoBalance.loaded
  BY DEF CachesOK, TypeOK, NoEntry, NoBalance
<1>2. D \in [Keys -> Nat] /\ \A k \in Keys : D[k] = ents[k].delta
  BY <1>1 DEF DeltasOf, Entry
<1>3. /\ IsFiniteSet(MonthKeys(m)) /\ MonthKeys(m) \subseteq Keys
      /\ SumOver(usage, MonthKeys(m)) \in Nat /\ SumOver(D, MonthKeys(m)) \in Nat
  BY <1>1, <1>2, BookSums
<1>4. /\ bals[m].total \in Nat /\ bals[m].reserved \in Nat
      /\ bals[m].loaded => bals[m].total >= SumOver(usage, MonthKeys(m)) + SumOver(D, MonthKeys(m))
      /\ \A k \in MonthKeys(m) : ents[k].loaded => bals[m].loaded
  BY <1>1, <1>3, KeyMonths DEF Balance, BooksOf
<1>5. ~bals[m].loaded => SumOver(D, MonthKeys(m)) = 0
  <2>1. ~bals[m].loaded => \A k \in MonthKeys(m) : D[k] = 0
    BY <1>1, <1>2, <1>3, <1>4
  <2> QED BY <2>1, SumZero
<1> HIDE DEF D
<1>6. SharedIn(bals, m) \in Nat
      /\ SharedIn(bals, m) >= SumOver(usage, MonthKeys(m)) + SumOver(D, MonthKeys(m))
  BY <1>3, <1>4, <1>5 DEF SharedIn
<1>7. ASSUME balance' = PrunedMonths(bals, entry'),
             SumOver(usage', MonthKeys(m)) <= SumOver(usage, MonthKeys(m)) + SumOver(D, MonthKeys(m)),
             SumOver(usage', MonthKeys(m)) \in Nat
      PROVE  CommittedShared(m)' <= SharedIn(bals, m)
  <2>1. balance'[m] = bals[m] \/ balance'[m] = NoBalance
    BY <1>7 DEF PrunedMonths
  <2>2. CommittedShared(m)' = IF balance'[m].loaded THEN balance'[m].total + balance'[m].reserved
                              ELSE SumOver(usage', MonthKeys(m))
    BY DEF CommittedShared, MonthKeys
  <2>3. CASE balance'[m].loaded
    <3>1. CommittedShared(m)' = SharedIn(bals, m)
      BY <1>1, <2>1, <2>2, <2>3 DEF SharedIn
    <3> QED BY <1>6, <3>1
  <2>4. CASE ~balance'[m].loaded
    BY <1>3, <1>6, <1>7, <2>2, <2>4
  <2> QED BY <2>3, <2>4
<1>8. CASE balance' = PrunedMonths(bals, entry') /\ UNCHANGED usage
  BY <1>3, <1>7, <1>8
<1>9. CASE Commit(ents, bals, ph)
  <2>1. \A k \in MonthKeys(m) : /\ usage[k] \in Nat /\ D[k] \in Nat
                                /\ usage'[k] = usage[k] + D[k]
    BY <1>1, <1>2, <1>3, <1>9 DEF Commit
  <2>2. SumOver(usage', MonthKeys(m)) = SumOver(usage, MonthKeys(m)) + SumOver(D, MonthKeys(m))
    BY <1>3, <2>1, SumPlus
  <2>3. balance' = PrunedMonths(bals, entry')
    BY <1>9 DEF Commit
  <2> QED BY <1>3, <1>7, <2>2, <2>3
<1>10. CASE balance' = bals /\ UNCHANGED usage
  <2>1. CommittedShared(m)' = SharedIn(bals, m)
    BY <1>10 DEF CommittedShared, SharedIn, MonthKeys
  <2> QED BY <1>6, <2>1
<1> QED BY <1>8, <1>9, <1>10 DEF Flush

\* Only a grant makes a month commit to more bytes, and it fits the shared budget.
LEMMA StepWithinShared ==
    ASSUME MeterInv, MeterInv', Books, [Next]_vars, NEW m \in Months,
           CommittedShared(m)' > CommittedShared(m)
    PROVE  balance'[m].limit = 0 \/ CommittedShared(m)' <= balance'[m].limit
<1> USE DEF MeterInv
<1>1. /\ balance \in [Months -> Balance] /\ balance[m] \in Balance /\ balance'[m] \in Balance
      /\ usage \in [Keys -> Nat] /\ usage' \in [Keys -> Nat]
      /\ SumOver(usage, MonthKeys(m)) \in Nat /\ SumOver(usage', MonthKeys(m)) \in Nat
  <2>1. /\ balance \in [Months -> Balance] /\ balance' \in [Months -> Balance]
        /\ usage \in [Keys -> Nat] /\ usage' \in [Keys -> Nat]
    BY DEF TypeOK
  <2> QED BY <2>1, BookSums
<1>2. /\ CommittedShared(m) = SharedIn(balance, m)
      /\ CommittedShared(m)' = IF balance'[m].loaded THEN balance'[m].total + balance'[m].reserved
                               ELSE SumOver(usage', MonthKeys(m))
  BY DEF CommittedShared, SharedIn, MonthKeys
<1>3. CommittedShared(m) \in Nat /\ CommittedShared(m)' \in Nat
  BY <1>1, <1>2 DEF SharedIn, Balance
<1>4. ASSUME CommittedShared(m)' <= CommittedShared(m) PROVE FALSE
  BY <1>3, <1>4
<1>5. /\ balance[m].loaded => LoadedBalance(m) = balance[m]
      /\ ~balance[m].loaded => /\ LoadedBalance(m).total = SumOver(usage, MonthKeys(m))
                               /\ LoadedBalance(m).reserved = 0 /\ balance[m].reserved = 0
      /\ LoadedBalance(m).loaded
  BY LoadedBalanceFacts DEF LoadedBalance, NoBalance, UnloadedIsBlank
<1>6. CASE CachesRest
  <2>1. /\ IsFiniteSet(MonthKeys(m)) /\ MonthKeys(m) \subseteq Keys
        /\ \A k \in Keys : usage'[k] \in Nat /\ usage[k] \in Nat /\ usage'[k] <= usage[k]
    BY <1>1, <1>6, BookSums DEF CachesRest
  <2>2. SumOver(usage', MonthKeys(m)) <= SumOver(usage, MonthKeys(m)) /\ balance' = balance
    <3>1. \A k \in MonthKeys(m) : usage'[k] \in Nat /\ usage[k] \in Nat /\ usage'[k] <= usage[k]
      BY <2>1
    <3> QED BY <1>6, <2>1, <3>1, SumMonotone DEF CachesRest, memVars
  <2> QED BY <1>1, <1>2, <1>3, <1>4, <2>2 DEF SharedIn
<1>7. CASE LoadsMonth
  <2>1. usage' = usage /\ (balance'[m] = balance[m] \/ balance'[m] = LoadedBalance(m))
    BY <1>1, <1>7 DEF LoadsMonth, rowVars
  <2>2. CommittedShared(m)' = CommittedShared(m)
    BY <1>1, <1>2, <1>5, <2>1 DEF SharedIn
  <2> QED BY <1>3, <1>4, <2>2
<1>8. ASSUME NEW o \in Ops, NEW n \in Nat, NEW limit \in Limits,
             Reserve(o, n, limit) \/ ReserveRefused(o, n, limit)
      PROVE  balance'[m].limit = 0 \/ CommittedShared(m)' <= balance'[m].limit
  <2>0. PICK w \in Nat, k \in Keys, e \in Entry, b \in Balance : GrantsTo(o, limit, w, k, e, b)
    BY <1>8, GrantIs
  <2>1. /\ balance' = [balance EXCEPT ![now] = b] /\ usage' = usage
        /\ b.loaded /\ b.reserved = balance[now].reserved + w
        /\ b.total = LoadedBalance(now).total /\ b.limit = limit /\ limit \in Nat
        /\ w = 0 \/ limit = 0 \/ b.total + b.reserved <= limit
    BY <2>0 DEF GrantsTo, rowVars
  <2>2. CASE m # now
    <3>1. CommittedShared(m)' = CommittedShared(m)
      BY <1>1, <1>2, <2>1, <2>2 DEF SharedIn
    <3> QED BY <1>3, <1>4, <3>1
  <2>3. CASE m = now
    <3>1. balance'[m] = b
      BY <1>1, <2>1, <2>3
    <3>2. CommittedShared(m)' = b.total + b.reserved
      BY <1>2, <2>1, <3>1
    <3>3. w = 0 => CommittedShared(m)' = CommittedShared(m)
      BY <1>1, <1>2, <1>5, <2>1, <2>3, <3>2 DEF SharedIn, Balance
    <3> QED BY <1>3, <1>4, <2>1, <3>1, <3>2, <3>3
  <2> QED BY <2>2, <2>3
<1>9. ASSUME NEW p \in Patchers, UpdateQuota(p) PROVE FALSE
  <2>1. UNCHANGED <<usage, balance>>
    BY <1>9 DEF UpdateQuota, rowVars
  <2> QED BY <1>2, <1>3, <1>4, <2>1 DEF SharedIn
<1>10. CASE Flushes
  <2>1. CachesOK(entry, balance, pending) /\ BooksOf(entry, balance, pending)
    BY MeterCaches DEF Books
  <2>2. CommittedShared(m)' <= SharedIn(balance, m)
    BY <1>10, <2>1, FlushShared DEF Flushes
  <2> QED BY <1>2, <1>4, <2>2
<1>11. ASSUME NEW o \in Ops, NEW n \in Nat, Settle(o, n) PROVE FALSE
  <2>0. PICK k \in Keys, e \in Entry, b \in Balance : SettlesTo(o, n, k, e, b)
    BY <1>11, SettleIs
  <2> DEFINE ents == [entry EXCEPT ![k] = e]
             bals == [balance EXCEPT ![k[2]] = b]
  <2>1. BooksOf(ents, bals, pending + n)
    BY <2>0, SettleBooks
  <2>2. /\ CachesOK(ents, bals, pending + n)
        /\ \/ Flush(ents, bals, pending + n, phase)
           \/ balance' = bals /\ UNCHANGED usage
    BY <2>0 DEF SettlesTo, rowVars
  <2>3. SharedIn(bals, m) <= CommittedShared(m) /\ SharedIn(bals, m) \in Nat
    <3>1. CASE m = k[2]
      <4>1. bals[m] = b /\ k[2] \in Months
        BY <1>1, <3>1
      <4>2. /\ b.loaded /\ balance[m].loaded /\ b.total = balance[m].total + n
            /\ b.reserved = balance[m].reserved - held[o] /\ n <= held[o] /\ held[o] \in Nat
        BY <2>0, <3>1 DEF SettlesTo
      <4> HIDE DEF bals
      <4>3. /\ balance[m].total \in Nat /\ balance[m].reserved \in Nat
            /\ b.total \in Nat /\ b.reserved \in Nat
        BY <1>1 DEF Balance
      <4> QED BY <1>2, <4>1, <4>2, <4>3 DEF SharedIn
    <3>2. CASE m # k[2]
      <4>1. bals[m] = balance[m]
        BY <1>1, <3>2
      <4> HIDE DEF bals
      <4> QED BY <1>2, <1>3, <4>1 DEF SharedIn
    <3> QED BY <3>1, <3>2
  <2> HIDE DEF ents, bals
  <2>4. CASE Flush(ents, bals, pending + n, phase)
    <3>1. CommittedShared(m)' <= SharedIn(bals, m)
      BY <2>1, <2>2, <2>4, FlushShared
    <3> QED BY <1>3, <1>4, <2>3, <3>1
  <2>5. CASE balance' = bals /\ UNCHANGED usage
    <3>1. CommittedShared(m)' = SharedIn(bals, m)
      BY <1>2, <2>5 DEF SharedIn
    <3> QED BY <1>4, <2>3, <3>1
  <2> QED BY <2>2, <2>4, <2>5
<1>12. CASE Restart
  <2>1. ~balance'[m].loaded /\ usage' = usage
    BY <1>12 DEF Restart, rowVars, NoBalance
  <2>2. SharedIn(balance, m) >= SumOver(usage, MonthKeys(m))
    <3>1. DeltasOf(entry) \in [Keys -> Nat]
      BY DEF DeltasOf, TypeOK, Entry
    <3>2. SumOver(DeltasOf(entry), MonthKeys(m)) \in Nat
      BY <3>1, BookSums
    <3> QED BY <1>1, <3>2 DEF Books, BooksOf, SharedIn, Balance
  <2> QED BY <1>1, <1>2, <1>3, <1>4, <2>1, <2>2
<1> QED BY <1>6, <1>7, <1>8, <1>9, <1>10, <1>11, <1>12, StepMoves

\* However many tunnels reserve, settle, flush and reload at once, and whenever the
\* owner sets the limit, no step commits the month to more than the limit it sees
\* (meter.go 74-90 and 112-191).
THEOREM SharedSafe == Spec => SharedNeverOverspent
<1>1. MeterInv /\ Books /\ MeterInv' /\ [Next]_vars =>
          [\A m \in Months : CommittedShared(m)' > CommittedShared(m) =>
              balance'[m].limit = 0 \/ CommittedShared(m)' <= balance'[m].limit]_vars
  BY StepWithinShared
<1> QED BY <1>1, BooksKept, PTL DEF Spec, SharedNeverOverspent

-----------------------------------------------------------------------------
(* A spent budget stops its tunnel                                         *)

\* A grant leaves the marks of the entry and its budget as loading found them.
LEMMA GrantMarks ==
    ASSUME MeterInv, NEW o \in Ops, NEW limit \in Limits, NEW w \in Nat,
           NEW k \in Keys, NEW e \in Entry, NEW b \in Balance, GrantsTo(o, limit, w, k, e, b)
    PROVE  /\ entry[k].loaded => /\ e.stopPending = entry[k].stopPending
                                 /\ e.total = entry[k].total /\ e.quota = entry[k].quota
           /\ ~entry[k].loaded => /\ ~e.stopPending /\ e.total = usage[k] /\ e.quota = quota[k[1]]
                                  /\ status[k[1]] = "active"
<1> USE DEF MeterInv
<1>1. /\ LoadedEntry(k) \in Entry /\ e.total = LoadedEntry(k).total /\ e.quota = LoadedEntry(k).quota
      /\ e = [LoadedEntry(k) EXCEPT !.reserved = entry[k].reserved + w]
      /\ entry[k].loaded \/ status[k[1]] = "active"
  BY LoadedEntryFacts DEF GrantsTo
<1>2. e.stopPending = LoadedEntry(k).stopPending
  BY <1>1 DEF Entry
<1>3. now \in Months
  BY DEF TypeOK
<1> QED BY <1>1, <1>2, <1>3, LoadedReads

\* UpdateQuota touches nothing of an entry but its budget.
LEMMA UpdateQuotaIs ==
    ASSUME MeterInv, NEW p \in Patchers, UpdateQuota(p), NEW k \in Keys
    PROVE  /\ entry'[k].loaded = entry[k].loaded /\ entry'[k].total = entry[k].total
           /\ entry'[k].delta = entry[k].delta /\ entry'[k].reserved = entry[k].reserved
           /\ entry'[k].stopPending = entry[k].stopPending
           /\ \/ entry'[k].quota = entry[k].quota
              \/ status[k[1]] # "gone" /\ k[1] = patch[p].tunnel /\ entry'[k].quota = quota[k[1]]
<1>1. \/ entry'[k] = entry[k]
      \/ /\ status[k[1]] # "gone" /\ k[1] = patch[p].tunnel
         /\ entry'[k] = [entry[k] EXCEPT !.quota = quota[k[1]]]
  BY DEF UpdateQuota
<1>2. entry[k] \in Entry
  BY DEF MeterInv, TypeOK
<1> QED BY <1>1, <1>2 DEF Entry

\* Without PATCH, budgets never change and no stopped tunnel becomes active again.
LEMMA StepRows ==
    ASSUME Patchers = {}, MeterInv, [Next]_vars
    PROVE  quota' = quota /\ \A t \in Tunnels : status'[t] = "active" => status[t] = "active"
<1> USE DEF MeterInv
<1>1. CASE UNCHANGED <<quota, status>>
  BY <1>1
<1>2. ASSUME quota' = quota, NEW STATE ents, NEW STATE bals, NEW STATE pend, NEW ACTION ph,
             Flush(ents, bals, pend, ph)
      PROVE  quota' = quota /\ \A t \in Tunnels : status'[t] = "active" => status[t] = "active"
  BY <1>2 DEF Flush, Commit
<1>3. CASE RequestNext
  <2>1. ASSUME NEW r \in Requests, CloseHandle(r) \/ \E t \in Tunnels : Begin(r, t)
        PROVE  UNCHANGED <<quota, status>>
    BY <2>1 DEF CloseHandle, Begin, rowVars
  <2>2. ASSUME NEW r \in Requests, CloseFlush(r) PROVE quota' = quota /\ Flush(entry, balance, pending, phase')
    BY <2>2 DEF CloseFlush
  <2>3. ASSUME NEW o \in Ops, ReserveUnloaded(o) PROVE UNCHANGED <<quota, status>>
    BY <2>3 DEF ReserveUnloaded, rowVars
  <2>4. ASSUME NEW o \in Ops, NEW n \in 1..Chunk + 1, NEW limit \in Limits,
               Reserve(o, n, limit) \/ ReserveRefused(o, n, limit)
        PROVE  UNCHANGED <<quota, status>>
    BY <2>4 DEF Reserve, ReserveRefused, rowVars
  <2>5. ASSUME NEW o \in Ops, NEW n \in 0..Chunk, Settle(o, n)
        PROVE  quota' = quota /\ \A t \in Tunnels : status'[t] = "active" => status[t] = "active"
    <3>0. n \in Nat
      BY MeterAssumption
    <3>1. PICK k \in Keys, e \in Entry, b \in Balance : SettlesTo(o, n, k, e, b)
      BY <2>5, <3>0, SettleIs
    <3> QED BY <1>2, <3>1 DEF SettlesTo, rowVars
  <2> QED BY <1>1, <1>2, <1>3, <2>1, <2>2, <2>3, <2>4, <2>5 DEF RequestNext
<1>4. CASE PatchNext
  BY <1>4 DEF PatchNext
<1>5. CASE FlushTick
  BY <1>2, <1>5 DEF FlushTick
<1>6. CASE \E t \in Tunnels : OwnerDelete(t) \/ DeviceDelete(t)
  <2>1. ASSUME NEW t \in Tunnels, DropRow(t)
        PROVE  quota' = quota /\ \A u \in Tunnels : status'[u] = "active" => status[u] = "active"
    BY <2>1 DEF DropRow, TypeOK
  <2> QED BY <1>6, <2>1 DEF OwnerDelete, DeviceDelete
<1>7. CASE GlobalOverBudget \/ NextMonth \/ Restart \/ UNCHANGED vars
  BY <1>7 DEF GlobalOverBudget, NextMonth, Restart, vars, rowVars
<1> QED BY <1>3, <1>4, <1>5, <1>6, <1>7 DEF Next

\* The given caches with the marks a stop needs: the budget in memory is the row's,
\* and a spent one is marked unless the row is already stopped.
MarkedIn(ents) ==
    \A k \in Keys : ents[k].loaded =>
        /\ ents[k].quota = quota[k[1]]
        /\ ents[k].quota > 0 /\ ents[k].total >= ents[k].quota =>
              ents[k].stopPending \/ status[k[1]] # "active"

\* A row that spent its budget is stopped.
SpentRowsStopped == \A k \in Keys : quota[k[1]] > 0 /\ usage[k] >= quota[k[1]] => status[k[1]] # "active"

\* The invariant of stops.
StopInv == MarkedIn(entry) /\ SpentRowsStopped /\ ExhaustedIsStopped

\* What a flush needs to know of the caches it is given.
StopReady(ents) ==
    /\ MarkedIn(ents) /\ SpentRowsStopped
    /\ \A k \in Keys : ents[k].loaded /\ status[k[1]] # "gone" => ents[k].total = usage[k] + ents[k].delta

\* A flush stops what it commits, and what it leaves alone was stopped before or
\* has nothing to commit.
LEMMA FlushStops ==
    ASSUME TypeOK, NEW STATE ents, NEW STATE bals, NEW STATE pend, NEW ACTION ph,
           CachesOK(ents, bals, pend), BooksOf(ents, bals, pend), StopReady(ents),
           Flush(ents, bals, pend, ph), quota' = quota
    PROVE  StopInv'
<1> SUFFICES ASSUME NEW k \in Keys
             PROVE  /\ entry'[k].loaded =>
                          /\ entry'[k].quota = quota[k[1]]
                          /\ entry'[k].quota > 0 /\ entry'[k].total >= entry'[k].quota =>
                                entry'[k].stopPending \/ status'[k[1]] # "active"
                    /\ quota[k[1]] > 0 /\ usage'[k] >= quota[k[1]] => status'[k[1]] # "active"
                    /\ ~failure' => (entry'[k].loaded /\ entry'[k].quota > 0
                                       /\ entry'[k].total >= entry'[k].quota => status'[k[1]] # "active")
  BY DEF StopInv, MarkedIn, SpentRowsStopped, ExhaustedIsStopped
<1>1. /\ ents[k] \in Entry /\ k[1] \in Tunnels /\ usage[k] \in Nat /\ quota[k[1]] \in Nat
      /\ ents[k].total \in Nat /\ ents[k].delta \in Nat /\ ~NoEntry.loaded
      /\ ~ents[k].loaded => ents[k].delta = 0
      /\ status[k[1]] \in Statuses
  BY KeyMonths DEF CachesOK, TypeOK, Entry, NoEntry
<1>2. /\ ents[k].loaded => ents[k].quota = quota[k[1]]
      /\ ents[k].loaded /\ ents[k].quota > 0 /\ ents[k].total >= ents[k].quota =>
              ents[k].stopPending \/ status[k[1]] # "active"
      /\ quota[k[1]] > 0 /\ usage[k] >= quota[k[1]] => status[k[1]] # "active"
      /\ ents[k].loaded /\ status[k[1]] # "gone" => ents[k].total = usage[k] + ents[k].delta
  BY DEF StopReady, MarkedIn, SpentRowsStopped
<1>3. FlushedIdle(ents, pend, k) \/ FlushedAll(ents, k) \/ FlushFailed(ents, pend)
  BY FlushIs
<1>4. CASE FlushedIdle(ents, pend, k)
  <2>1. ents[k].delta = 0
    <3>1. DeltasOf(ents) \in [Keys -> Nat] /\ DeltasOf(ents)[k] = ents[k].delta
      BY DEF DeltasOf, CachesOK, Entry
    <3>2. IsFiniteSet(Keys) /\ SumOver(DeltasOf(ents), Keys) = 0
      BY <1>4, FiniteIndexes DEF BooksOf, FlushedIdle
    <3>3. DeltasOf(ents)[k] <= 0
      <4>1. \A j \in Keys : DeltasOf(ents)[j] \in Nat
        BY <3>1
      <4> QED BY <3>2, <4>1, SumAtLeast
    <3> QED BY <1>1, <3>1, <3>3
  <2>2. ents[k].loaded /\ ents[k].quota > 0 /\ ents[k].total >= ents[k].quota => status[k[1]] # "active"
    BY <1>1, <1>2, <2>1
  <2> QED BY <1>1, <1>2, <1>4, <2>2 DEF FlushedIdle
<1>5. CASE FlushedAll(ents, k)
  <2>1. /\ usage'[k] = usage[k] + ents[k].delta
        /\ status'[k[1]] = "active" =>
              status[k[1]] = "active" /\ ~(ents[k].delta # 0 /\ ents[k].stopPending)
        /\ \/ entry'[k] = NoEntry
           \/ /\ entry'[k].loaded = ents[k].loaded /\ entry'[k].total = ents[k].total
              /\ entry'[k].quota = ents[k].quota
    BY <1>5 DEF FlushedAll
  <2>2. quota[k[1]] > 0 /\ usage'[k] >= quota[k[1]] => status'[k[1]] # "active"
    <3> SUFFICES ASSUME quota[k[1]] > 0, usage'[k] >= quota[k[1]], status'[k[1]] = "active"
                 PROVE  FALSE
      OBVIOUS
    <3>1. CASE ents[k].delta = 0
      BY <1>1, <1>2, <2>1, <3>1
    <3>2. CASE ents[k].delta # 0
      <4>1. ents[k].loaded /\ status[k[1]] = "active" /\ ~ents[k].stopPending
        BY <1>1, <2>1, <3>2
      <4>2. ents[k].total >= ents[k].quota /\ ents[k].quota > 0
        BY <1>1, <1>2, <2>1, <4>1
      <4> QED BY <1>2, <4>1, <4>2
    <3> QED BY <3>1, <3>2
  <2>3. ents[k].loaded /\ ents[k].quota > 0 /\ ents[k].total >= ents[k].quota => status'[k[1]] # "active"
    <3> SUFFICES ASSUME ents[k].loaded, ents[k].quota > 0, ents[k].total >= ents[k].quota,
                        status'[k[1]] = "active"
                 PROVE  FALSE
      OBVIOUS
    <3>1. status[k[1]] = "active" /\ ents[k].total = usage'[k]
      BY <1>2, <2>1
    <3> QED BY <1>1, <1>2, <2>2, <3>1
  <2> QED BY <1>1, <1>2, <2>1, <2>2, <2>3
<1>6. CASE FlushFailed(ents, pend)
  BY <1>2, <1>6 DEF FlushFailed
<1> QED BY <1>3, <1>4, <1>5, <1>6

\* Steps that change no total, keep or read the row's budget, and stop nothing less.
LEMMA StopFrame ==
    ASSUME MeterInv, StopInv, quota' = quota,
           \A t \in Tunnels : status'[t] = "active" => status[t] = "active",
           \A k \in Keys : usage'[k] \in Nat /\ usage'[k] <= usage[k], failure => failure',
           \A k \in Keys : entry'[k].loaded =>
              \/ /\ entry[k].loaded /\ entry'[k].stopPending = entry[k].stopPending
                 /\ entry'[k].total = entry[k].total /\ entry'[k].quota = entry[k].quota
              \/ entry'[k].total = usage[k] /\ entry'[k].quota = quota[k[1]]
    PROVE  StopInv'
<1> SUFFICES ASSUME NEW k \in Keys
             PROVE  /\ entry'[k].loaded =>
                          /\ entry'[k].quota = quota[k[1]]
                          /\ entry'[k].quota > 0 /\ entry'[k].total >= entry'[k].quota =>
                                entry'[k].stopPending \/ status'[k[1]] # "active"
                    /\ quota[k[1]] > 0 /\ usage'[k] >= quota[k[1]] => status'[k[1]] # "active"
                    /\ ~failure' => (entry'[k].loaded /\ entry'[k].quota > 0
                                       /\ entry'[k].total >= entry'[k].quota => status'[k[1]] # "active")
  BY DEF StopInv, MarkedIn, SpentRowsStopped, ExhaustedIsStopped
<1>1. k[1] \in Tunnels /\ usage[k] \in Nat /\ quota[k[1]] \in Nat
  BY KeyMonths DEF MeterInv, TypeOK
<1>2. /\ entry[k].loaded =>
            /\ entry[k].quota = quota[k[1]]
            /\ entry[k].quota > 0 /\ entry[k].total >= entry[k].quota =>
                  entry[k].stopPending \/ status[k[1]] # "active"
      /\ quota[k[1]] > 0 /\ usage[k] >= quota[k[1]] => status[k[1]] # "active"
      /\ ~failure => (entry[k].loaded /\ entry[k].quota > 0
                         /\ entry[k].total >= entry[k].quota => status[k[1]] # "active")
  BY DEF StopInv, MarkedIn, SpentRowsStopped, ExhaustedIsStopped
<1>3. quota[k[1]] > 0 /\ usage'[k] >= quota[k[1]] => usage[k] >= quota[k[1]]
  BY <1>1
<1> QED BY <1>1, <1>2, <1>3

\* The settled entry is marked if it spent its budget.
LEMMA SettleStops ==
    ASSUME MeterInv, StopInv, NEW o \in Ops, NEW n \in Nat,
           NEW k \in Keys, NEW e \in Entry, NEW b \in Balance, SettlesTo(o, n, k, e, b)
    PROVE  StopReady([entry EXCEPT ![k] = e])
<1> DEFINE ents == [entry EXCEPT ![k] = e]
<1> USE DEF MeterInv
<1>1. /\ entry[k].loaded /\ e.total = entry[k].total + n /\ e.delta = entry[k].delta + n
      /\ e.quota = entry[k].quota
      /\ e.stopPending <=> entry[k].stopPending \/ (e.quota > 0 /\ e.total >= e.quota)
  <2>1. /\ entry[k].loaded /\ e.total = entry[k].total + n /\ e.delta = entry[k].delta + n
        /\ e.quota = entry[k].quota
    BY DEF SettlesTo
  <2>2. e.stopPending <=> entry[k].stopPending \/ (e.quota > 0 /\ e.total >= e.quota)
    BY SettleMarks
  <2> QED BY <2>1, <2>2
<1>2. \A j \in Keys : ents[j] = IF j = k THEN e ELSE entry[j]
  BY DEF TypeOK
<1> HIDE DEF ents
<1>3. usage[k] \in Nat /\ entry[k].total \in Nat /\ entry[k].delta \in Nat
  BY DEF TypeOK, Entry
<1>4. MarkedIn(ents)
  BY <1>1, <1>2 DEF StopInv, MarkedIn
<1>5. \A j \in Keys : ents[j].loaded /\ status[j[1]] # "gone" => ents[j].total = usage[j] + ents[j].delta
  <2>1. status[k[1]] # "gone" => e.total = usage[k] + e.delta
    BY <1>1, <1>3 DEF LedgerMatchesRows
  <2> QED BY <1>2, <2>1 DEF LedgerMatchesRows
<1> QED BY <1>4, <1>5 DEF StopReady, StopInv, ents

\* Without PATCH every step keeps the invariant of stops.
LEMMA StepStops ==
    ASSUME Patchers = {}
    PROVE  MeterInv /\ Books /\ StopInv /\ [Next]_vars => StopInv'
<1> SUFFICES ASSUME MeterInv, Books, StopInv, [Next]_vars PROVE StopInv'
  OBVIOUS
<1> USE DEF MeterInv
<1>0. /\ entry \in [Keys -> Entry] /\ \A k \in Keys : usage[k] \in Nat /\ usage[k] <= usage[k]
      /\ quota' = quota /\ \A t \in Tunnels : status'[t] = "active" => status[t] = "active"
  <2>1. entry \in [Keys -> Entry] /\ \A k \in Keys : usage[k] \in Nat
    BY DEF TypeOK
  <2> QED BY <2>1, StepRows
<1>1. CASE CachesRest
  <2>1. /\ UNCHANGED <<entry, failure>>
        /\ \A k \in Keys : usage'[k] \in Nat /\ usage'[k] <= usage[k]
    BY <1>1 DEF CachesRest, memVars
  <2> QED BY <1>0, <2>1, StopFrame
<1>2. CASE LoadsMonth
  <2>1. UNCHANGED <<entry, usage>> /\ (failure => failure')
    BY <1>2 DEF LoadsMonth, rowVars
  <2> QED BY <1>0, <2>1, StopFrame
<1>3. ASSUME NEW o \in Ops, NEW n \in Nat, NEW limit \in Limits,
             Reserve(o, n, limit) \/ ReserveRefused(o, n, limit)
      PROVE  StopInv'
  <2>0. PICK w \in Nat, k \in Keys, e \in Entry, b \in Balance : GrantsTo(o, limit, w, k, e, b)
    BY <1>3, GrantIs
  <2>1. entry' = [entry EXCEPT ![k] = e] /\ UNCHANGED <<usage, failure>>
    BY <2>0 DEF GrantsTo, rowVars
  <2>2. /\ entry[k].loaded => /\ e.stopPending = entry[k].stopPending
                               /\ e.total = entry[k].total /\ e.quota = entry[k].quota
        /\ ~entry[k].loaded => e.total = usage[k] /\ e.quota = quota[k[1]]
    BY <2>0, GrantMarks
  <2>3. \A j \in Keys : entry'[j].loaded =>
              \/ /\ entry[j].loaded /\ entry'[j].stopPending = entry[j].stopPending
                 /\ entry'[j].total = entry[j].total /\ entry'[j].quota = entry[j].quota
              \/ entry'[j].total = usage[j] /\ entry'[j].quota = quota[j[1]]
    <3>1. \A j \in Keys : entry'[j] = IF j = k THEN e ELSE entry[j]
      BY <1>0, <2>1
    <3> QED BY <2>2, <3>1
  <2> QED BY <1>0, <2>1, <2>3, StopFrame
<1>4. CASE Flushes
  <2>1. CachesOK(entry, balance, pending) /\ BooksOf(entry, balance, pending)
    BY MeterCaches DEF Books
  <2>2. StopReady(entry)
    BY DEF StopReady, StopInv, LedgerMatchesRows
  <2> QED BY <1>0, <1>4, <2>1, <2>2, FlushStops DEF Flushes
<1>5. ASSUME NEW o \in Ops, NEW n \in Nat, Settle(o, n) PROVE StopInv'
  <2>0. PICK k \in Keys, e \in Entry, b \in Balance : SettlesTo(o, n, k, e, b)
    BY <1>5, SettleIs
  <2> DEFINE ents == [entry EXCEPT ![k] = e]
             bals == [balance EXCEPT ![k[2]] = b]
  <2>1. BooksOf(ents, bals, pending + n) /\ StopReady(ents)
    BY <2>0, SettleBooks, SettleStops
  <2>2. /\ CachesOK(ents, bals, pending + n)
        /\ \/ Flush(ents, bals, pending + n, phase)
           \/ ~e.stopPending /\ entry' = ents /\ UNCHANGED <<status, usage, failure>>
    BY <2>0 DEF SettlesTo, rowVars, MustFlush
  <2>3. \A j \in Keys : ents[j] = IF j = k THEN e ELSE entry[j]
    BY <1>0
  <2>4. e.quota > 0 /\ e.total >= e.quota => e.stopPending
    BY <2>0, SettleMarks
  <2> HIDE DEF ents, bals
  <2>5. CASE Flush(ents, bals, pending + n, phase)
    BY <1>0, <2>1, <2>2, <2>5, FlushStops
  <2>6. CASE ~e.stopPending /\ entry' = ents /\ UNCHANGED <<status, usage, failure>>
    <3>1. \A j \in Keys : ~failure => (ents[j].loaded /\ ents[j].quota > 0
                                          /\ ents[j].total >= ents[j].quota => status[j[1]] # "active")
      BY <2>3, <2>4, <2>6 DEF StopInv, ExhaustedIsStopped
    <3> QED BY <1>0, <2>1, <2>6, <3>1
            DEF StopInv, StopReady, MarkedIn, SpentRowsStopped, ExhaustedIsStopped
  <2> QED BY <2>2, <2>5, <2>6
<1>6. CASE Restart
  <2>1. /\ \A k \in Keys : ~entry'[k].loaded
        /\ UNCHANGED <<status, usage>>
    BY <1>6 DEF Restart, rowVars, NoEntry
  <2> QED BY <1>0, <2>1 DEF StopInv, MarkedIn, SpentRowsStopped, ExhaustedIsStopped
<1> QED BY <1>1, <1>2, <1>3, <1>4, <1>5, <1>6, StepMoves

\* Where no PATCH changes the rows meanwhile, settle and its flush stop a tunnel in
\* the critical section that spends the last byte: whatever fails, restarts or is
\* deleted, a healthy meter has no spent entry of an active tunnel (meter.go 160-191
\* and 300-361).
THEOREM ExhaustedStops ==
    ASSUME Patchers = {}
    PROVE  Spec => []ExhaustedIsStopped
<1>1. Init => StopInv
  <2>1. Init => \A k \in Keys : ~entry[k].loaded /\ usage[k] = 0 /\ quota[k[1]] \in Nat
    <3>1. Init => \A k \in Keys : ~entry[k].loaded /\ usage[k] = 0
      BY DEF Init, NoEntry
    <3>2. Init => \A k \in Keys : quota[k[1]] \in Nat
      BY InitInv, KeyMonths DEF MeterInv, TypeOK
    <3> QED BY <3>1, <3>2
  <2> QED BY <2>1 DEF StopInv, MarkedIn, SpentRowsStopped, ExhaustedIsStopped
<1>2. StopInv => ExhaustedIsStopped
  BY DEF StopInv
<1> QED BY <1>1, <1>2, StepStops, BooksKept, PTL DEF Spec

-----------------------------------------------------------------------------
(* The budget in memory follows the rows                                   *)

\* A PATCH under way carries a quota, so that its callback will run.
PatchesCallBack == \A p \in Patchers : patch[p].step # "idle" => patch[p].setsQuota

\* A PATCH moves its own record only.
LEMMA PatchMoves ==
    ASSUME MeterInv, NEW p \in Patchers, NEW q \in Patch, patch' = [patch EXCEPT ![p] = q]
    PROVE  \A r \in Patchers : patch'[r] = IF r = p THEN q ELSE patch[r]
BY DEF MeterInv, TypeOK

\* What PatchAt makes of a PATCH.
LEMMA PatchAtIs ==
    ASSUME MeterInv, NEW p \in Patchers, NEW s \in {"idle", "callback", "rearm"}
    PROVE  /\ PatchAt(p, s) \in Patch /\ PatchAt(p, s).step = s
           /\ s # "idle" => /\ PatchAt(p, s).tunnel = patch[p].tunnel
                            /\ PatchAt(p, s).setsQuota = patch[p].setsQuota
BY DEF MeterInv, TypeOK, PatchAt, Patch, NoPatch, Statuses

\* The steps of PATCH handlers, and those that leave them alone.
PatchStep(p) ==
    \/ PatchCommit(p) \/ PatchFails(p) \/ UpdateQuota(p) \/ PatchRearm(p)
    \/ \E t \in Tunnels, s \in StatusFields, q \in QuotaFields : PatchLoad(p, t, s, q)

LEMMA OtherSteps ==
    ASSUME MeterInv, [Next]_vars
    PROVE  \/ \E p \in Patchers : PatchStep(p)
           \/ /\ patch' = patch /\ quota' = quota
              /\ \A t \in Tunnels : /\ status'[t] # "gone" => status[t] # "gone"
                                    /\ status[t] = "active" /\ status'[t] = "quota_exceeded" =>
                                          Flushes \/ \E o \in Ops, n \in Nat : Settle(o, n)
           \/ Restart
<1> DEFINE Rest == /\ patch' = patch /\ quota' = quota
                   /\ \A t \in Tunnels : /\ status'[t] # "gone" => status[t] # "gone"
                                         /\ status[t] = "active" /\ status'[t] = "quota_exceeded" =>
                                               Flushes \/ \E o \in Ops, n \in Nat : Settle(o, n)
<1> SUFFICES Rest \/ Restart \/ \E p \in Patchers : PatchStep(p)
  OBVIOUS
<1> USE DEF MeterInv
<1>1. ASSUME patch' = patch, quota' = quota, NEW STATE ents, NEW STATE bals, NEW STATE pend,
             NEW ACTION ph, Flush(ents, bals, pend, ph),
             Flushes \/ \E o \in Ops, n \in Nat : Settle(o, n)
      PROVE  Rest
  <2>1. \A t \in Tunnels : status'[t] # "gone" => status[t] # "gone"
    BY <1>1 DEF Flush, Commit
  <2> QED BY <1>1, <2>1
<1>2. CASE RequestNext
  <2>1. ASSUME NEW r \in Requests, CloseHandle(r) \/ \E t \in Tunnels : Begin(r, t)
        PROVE  Rest
    BY <2>1 DEF CloseHandle, Begin, rowVars
  <2>2. ASSUME NEW r \in Requests, CloseFlush(r) PROVE Rest
    <3>1. Flushes /\ Flush(entry, balance, pending, phase') /\ patch' = patch /\ quota' = quota
      BY <2>2 DEF CloseFlush, Flushes
    <3> HIDE DEF Rest
    <3> QED BY <1>1, <3>1
  <2>3. ASSUME NEW o \in Ops, ReserveUnloaded(o) PROVE Rest
    BY <2>3 DEF ReserveUnloaded, rowVars
  <2>4. ASSUME NEW o \in Ops, NEW n \in 1..Chunk + 1, NEW limit \in Limits,
               Reserve(o, n, limit) \/ ReserveRefused(o, n, limit)
        PROVE  Rest
    BY <2>4 DEF Reserve, ReserveRefused, rowVars
  <2>5. ASSUME NEW o \in Ops, NEW n \in 0..Chunk, Settle(o, n) PROVE Rest
    <3>0. n \in Nat
      BY MeterAssumption
    <3>1. PICK k \in Keys, e \in Entry, b \in Balance : SettlesTo(o, n, k, e, b)
      BY <2>5, <3>0, SettleIs
    <3>2. patch' = patch /\ quota' = quota
      BY <3>1 DEF SettlesTo
    <3>3. CASE Flush([entry EXCEPT ![k] = e], [balance EXCEPT ![k[2]] = b], pending + n, phase)
      <4> HIDE DEF Rest
      <4> QED BY <1>1, <2>5, <3>0, <3>2, <3>3
    <3>4. CASE UNCHANGED rowVars
      BY <3>2, <3>4 DEF rowVars
    <3> QED BY <3>1, <3>3, <3>4 DEF SettlesTo
  <2> QED BY <1>2, <2>1, <2>2, <2>3, <2>4, <2>5 DEF RequestNext
<1>3. CASE FlushTick
  <2>1. Flushes /\ Flush(entry, balance, pending, phase) /\ patch' = patch /\ quota' = quota
    BY <1>3 DEF FlushTick, Flushes, reqVars
  <2> HIDE DEF Rest
  <2> QED BY <1>1, <2>1
<1>4. CASE \E t \in Tunnels : OwnerDelete(t) \/ DeviceDelete(t)
  <2>1. ASSUME NEW t \in Tunnels, DropRow(t) PROVE Rest
    BY <2>1 DEF DropRow, TypeOK
  <2> QED BY <1>4, <2>1 DEF OwnerDelete, DeviceDelete
<1>5. CASE GlobalOverBudget \/ NextMonth \/ UNCHANGED vars
  <2>1. UNCHANGED <<patch, quota, status>>
    BY <1>5 DEF GlobalOverBudget, NextMonth, vars, rowVars
  <2> QED BY <2>1
<1>6. CASE PatchNext
  BY <1>6 DEF PatchNext, PatchStep
<1> HIDE DEF Rest
<1> QED BY <1>2, <1>3, <1>4, <1>5, <1>6 DEF Next

\* Where every PATCH body has a quota, every PATCH under way will call back.
LEMMA StepCallBack ==
    ASSUME {} \notin QuotaFields
    PROVE  MeterInv /\ PatchesCallBack /\ [Next]_vars => PatchesCallBack'
<1> SUFFICES ASSUME MeterInv, PatchesCallBack, [Next]_vars PROVE PatchesCallBack'
  OBVIOUS
<1> USE DEF MeterInv
<1>0. patch \in [Patchers -> Patch]
  BY DEF TypeOK
<1>1. ASSUME NEW p \in Patchers, NEW s \in {"idle", "callback", "rearm"},
             patch[p].step # "idle", patch' = [patch EXCEPT ![p] = PatchAt(p, s)]
      PROVE  PatchesCallBack'
  <2>1. PatchAt(p, s).step # "idle" => PatchAt(p, s).setsQuota
    BY <1>1, PatchAtIs DEF PatchesCallBack
  <2> QED BY <1>0, <1>1, <2>1 DEF PatchesCallBack
<1>2. ASSUME NEW p \in Patchers, PatchStep(p) PROVE PatchesCallBack'
  <2>1. CASE PatchCommit(p)
    <3>1. NextPatchStep(patch[p]) \in {"idle", "callback", "rearm"}
      BY DEF NextPatchStep
    <3> QED BY <1>1, <2>1, <3>1 DEF PatchCommit
  <2>2. CASE PatchFails(p) \/ PatchRearm(p)
    <3>1. patch' = [patch EXCEPT ![p] = NoPatch]
      BY <2>2 DEF PatchFails, PatchRearm
    <3> QED BY <1>0, <3>1 DEF PatchesCallBack, NoPatch
  <2>3. CASE UpdateQuota(p)
    BY <1>1, <2>3 DEF UpdateQuota
  <2>4. ASSUME NEW t \in Tunnels, NEW s \in StatusFields, NEW q \in QuotaFields, PatchLoad(p, t, s, q)
        PROVE  PatchesCallBack'
    <3>1. \E r : patch' = [patch EXCEPT ![p] = r] /\ r.setsQuota
      <4> DEFINE r == [step |-> "loaded", tunnel |-> t,
                       quota |-> IF q = {} THEN quota[t] ELSE CHOOSE x \in q : TRUE,
                       status |-> IF s = "keep" THEN status[t] ELSE s,
                       setsQuota |-> q # {}, reenables |-> s = "active" /\ status[t] # "active"]
      <4>1. patch' = [patch EXCEPT ![p] = r]
        BY <2>4 DEF PatchLoad
      <4>2. r.step = "loaded" /\ r.setsQuota = (q # {})
        OBVIOUS
      <4> HIDE DEF r
      <4> QED BY <4>1, <4>2
    <3> QED BY <1>0, <3>1 DEF PatchesCallBack
  <2> QED BY <1>2, <2>1, <2>2, <2>3, <2>4 DEF PatchStep
<1>3. CASE patch' = patch
  BY <1>3 DEF PatchesCallBack
<1>4. CASE Restart
  BY <1>4 DEF Restart, PatchesCallBack, NoPatch
<1> QED BY <1>2, <1>3, <1>4, OtherSteps

\* Steps after which every cached budget is the row's, or follows from before.
LEMMA CoherentFrame ==
    ASSUME QuotaCoherent, failure => failure',
           \A k \in Keys : entry'[k].loaded /\ status'[k[1]] # "gone" /\ ~QuotaInDoubt(k[1])' =>
              \/ entry'[k].quota = quota'[k[1]]
              \/ /\ entry[k].loaded /\ status[k[1]] # "gone" /\ ~QuotaInDoubt(k[1])
                 /\ entry'[k].quota = entry[k].quota /\ quota'[k[1]] = quota[k[1]]
    PROVE  QuotaCoherent'
BY DEF QuotaCoherent

\* A step that leaves rows' budgets and PATCHes alone.
LEMMA SameQuota ==
    ASSUME QuotaCoherent, failure => failure', patch' = patch, quota' = quota,
           \A t \in Tunnels : status'[t] # "gone" => status[t] # "gone",
           \A k \in Keys : entry'[k].loaded =>
              \/ entry[k].loaded /\ entry'[k].quota = entry[k].quota
              \/ entry'[k].quota = quota[k[1]]
    PROVE  QuotaCoherent'
<1>1. \A t : QuotaInDoubt(t)' <=> QuotaInDoubt(t)
  BY DEF QuotaInDoubt
<1> QED BY <1>1, KeyMonths, CoherentFrame

\* A flush leaves budgets alone.
LEMMA FlushQuota ==
    ASSUME TypeOK, NEW STATE ents, NEW STATE bals, NEW STATE pend, NEW ACTION ph,
           CachesOK(ents, bals, pend), Flush(ents, bals, pend, ph)
    PROVE  /\ failure => failure'
           /\ \A k \in Keys : entry'[k].loaded => ents[k].loaded /\ entry'[k].quota = ents[k].quota
<1>1. ASSUME NEW k \in Keys
      PROVE  /\ failure => failure'
             /\ entry'[k].loaded => ents[k].loaded /\ entry'[k].quota = ents[k].quota
  <2>1. FlushedIdle(ents, pend, k) \/ FlushedAll(ents, k) \/ FlushFailed(ents, pend)
    BY FlushIs
  <2>2. ~NoEntry.loaded
    BY DEF NoEntry
  <2>3. entry'[k].loaded => ents[k].loaded /\ entry'[k].quota = ents[k].quota
    BY <2>1, <2>2 DEF FlushedIdle, FlushedAll, FlushFailed
  <2>4. failure => failure'
    BY <2>1 DEF FlushedIdle, FlushedAll, FlushFailed, TypeOK
  <2> QED BY <2>3, <2>4
<1>2. failure => failure'
  BY DEF Flush, Commit
<1> QED BY <1>1, <1>2

\* Where every PATCH body has a quota, every step keeps the budgets coherent.
LEMMA StepCoherent ==
    ASSUME {} \notin QuotaFields
    PROVE  MeterInv /\ PatchesCallBack /\ QuotaCoherent /\ [Next]_vars => QuotaCoherent'
<1> SUFFICES ASSUME MeterInv, PatchesCallBack, QuotaCoherent, [Next]_vars PROVE QuotaCoherent'
  OBVIOUS
<1> USE DEF MeterInv
<1>0. /\ entry \in [Keys -> Entry] /\ patch \in [Patchers -> Patch]
      /\ quota \in [Tunnels -> Nat] /\ status \in [Tunnels -> Statuses]
  BY DEF TypeOK
<1>1. ASSUME NEW p \in Patchers, PatchStep(p) PROVE QuotaCoherent'
  <2>1. CASE PatchCommit(p)
    <3>0. PICK t : t = patch[p].tunnel
      OBVIOUS
    <3> DEFINE s == NextPatchStep(patch[p])
    <3>1. /\ patch[p].setsQuota /\ s = "callback"
          /\ patch' = [patch EXCEPT ![p] = PatchAt(p, s)] /\ UNCHANGED <<entry, failure>>
      BY <2>1 DEF PatchCommit, PatchesCallBack, NextPatchStep, memVars
    <3>2. PatchAt(p, s) \in Patch /\ PatchAt(p, s).step = "callback" /\ PatchAt(p, s).tunnel = t
      BY <3>0, <3>1, PatchAtIs
    <3> HIDE DEF s
    <3>3. QuotaInDoubt(t)'
      BY <1>0, <3>1, <3>2 DEF QuotaInDoubt
    <3>4. \A u \in Tunnels : u # t => /\ QuotaInDoubt(u) => QuotaInDoubt(u)'
                                      /\ quota'[u] = quota[u] /\ status'[u] = status[u]
      <4>1. ASSUME NEW u \in Tunnels, u # t, QuotaInDoubt(u) PROVE QuotaInDoubt(u)'
        <5>1. PICK r \in Patchers : patch[r].tunnel = u /\ patch[r].step = "callback"
          BY <4>1 DEF QuotaInDoubt
        <5>2. r # p
          BY <3>0, <4>1, <5>1
        <5>3. patch'[r] = patch[r]
          BY <1>0, <3>1, <5>2
        <5> QED BY <5>1, <5>3 DEF QuotaInDoubt
      <4>2. ASSUME NEW u \in Tunnels, u # t PROVE quota'[u] = quota[u] /\ status'[u] = status[u]
        BY <1>0, <2>1, <3>0, <4>2 DEF PatchCommit
      <4> QED BY <4>1, <4>2
    <3>5. ASSUME NEW k \in Keys, entry'[k].loaded, status'[k[1]] # "gone", ~QuotaInDoubt(k[1])'
          PROVE  /\ entry[k].loaded /\ status[k[1]] # "gone" /\ ~QuotaInDoubt(k[1])
                 /\ entry'[k].quota = entry[k].quota /\ quota'[k[1]] = quota[k[1]]
      <4>1. k[1] \in Tunnels
        BY KeyMonths
      <4>2. k[1] # t
        BY <3>3, <3>5
      <4>3. QuotaInDoubt(k[1]) => QuotaInDoubt(k[1])'
        BY <3>4, <4>1, <4>2
      <4> QED BY <3>1, <3>4, <3>5, <4>1, <4>2, <4>3
    <3> QED BY <3>1, <3>5, CoherentFrame
  <2>2. ASSUME patch[p].step # "callback", UNCHANGED <<quota, status, entry, failure>>,
               NEW r, patch' = [patch EXCEPT ![p] = r], r.step # "callback"
        PROVE  QuotaCoherent'
    <3>1. \A u : QuotaInDoubt(u) => QuotaInDoubt(u)'
      <4> SUFFICES ASSUME NEW u, QuotaInDoubt(u) PROVE QuotaInDoubt(u)'
        OBVIOUS
      <4>1. PICK x \in Patchers : patch[x].tunnel = u /\ patch[x].step = "callback"
        BY DEF QuotaInDoubt
      <4>2. patch'[x] = patch[x]
        BY <1>0, <2>2, <4>1
      <4> QED BY <4>1, <4>2 DEF QuotaInDoubt
    <3> QED BY <2>2, <3>1, CoherentFrame
  <2>3. CASE PatchFails(p) \/ PatchRearm(p)
    <3>1. /\ patch[p].step # "callback" /\ UNCHANGED <<quota, status, entry, failure>>
          /\ patch' = [patch EXCEPT ![p] = NoPatch]
      BY <2>3 DEF PatchFails, PatchRearm, rowVars, memVars
    <3>2. NoPatch.step # "callback"
      BY DEF NoPatch
    <3> QED BY <2>2, <3>1, <3>2
  <2>4. ASSUME NEW t \in Tunnels, NEW s \in StatusFields, NEW q \in QuotaFields, PatchLoad(p, t, s, q)
        PROVE  QuotaCoherent'
    <3>1. /\ patch[p].step # "callback" /\ UNCHANGED <<quota, status, entry, failure>>
          /\ \E r : patch' = [patch EXCEPT ![p] = r] /\ r.step = "loaded"
      <4> DEFINE r == [step |-> "loaded", tunnel |-> t,
                       quota |-> IF q = {} THEN quota[t] ELSE CHOOSE x \in q : TRUE,
                       status |-> IF s = "keep" THEN status[t] ELSE s,
                       setsQuota |-> q # {}, reenables |-> s = "active" /\ status[t] # "active"]
      <4>1. patch' = [patch EXCEPT ![p] = r]
        BY <2>4 DEF PatchLoad
      <4>2. r.step = "loaded" /\ r.setsQuota = (q # {})
        OBVIOUS
      <4> HIDE DEF r
      <4> QED BY <2>4, <4>1, <4>2 DEF PatchLoad, rowVars, memVars
    <3> QED BY <2>2, <3>1
  <2>5. CASE UpdateQuota(p)
    <3> DEFINE t == patch[p].tunnel
    <3>1. UNCHANGED <<quota, status>> /\ (failure => failure')
      BY <2>5 DEF UpdateQuota, rowVars
    <3>2. CASE failure'
      BY <3>2 DEF QuotaCoherent
    <3>3. CASE ~failure'
      <4>1. /\ entry' = [k \in Keys |-> IF status[t] # "gone" /\ k[1] = t /\ entry[k].loaded
                                        THEN [entry[k] EXCEPT !.quota = quota[t]] ELSE entry[k]]
            /\ \E r : patch' = [patch EXCEPT ![p] = r]
        BY <2>5, <3>3 DEF UpdateQuota
      <4>2. \A u : u # t /\ QuotaInDoubt(u) => QuotaInDoubt(u)'
        <5> SUFFICES ASSUME NEW u, u # t, QuotaInDoubt(u) PROVE QuotaInDoubt(u)'
          OBVIOUS
        <5>1. PICK x \in Patchers : patch[x].tunnel = u /\ patch[x].step = "callback"
          BY DEF QuotaInDoubt
        <5>2. patch'[x] = patch[x]
          BY <1>0, <4>1, <5>1
        <5> QED BY <5>1, <5>2 DEF QuotaInDoubt
      <4>3. ASSUME NEW k \in Keys, entry'[k].loaded, status'[k[1]] # "gone", ~QuotaInDoubt(k[1])'
            PROVE  \/ entry'[k].quota = quota'[k[1]]
                   \/ /\ entry[k].loaded /\ status[k[1]] # "gone" /\ ~QuotaInDoubt(k[1])
                      /\ entry'[k].quota = entry[k].quota /\ quota'[k[1]] = quota[k[1]]
        <5> HIDE DEF t
        <5>1. CASE k[1] = t
          <6>1. entry[k].loaded
            BY <1>0, <3>1, <4>1, <4>3, <5>1 DEF Entry
          <6>2. entry'[k] = [entry[k] EXCEPT !.quota = quota[t]]
            BY <3>1, <4>1, <4>3, <5>1, <6>1
          <6> QED BY <1>0, <3>1, <5>1, <6>2 DEF Entry
        <5>2. CASE k[1] # t
          <6>1. entry'[k] = entry[k]
            BY <4>1, <5>2
          <6> QED BY <3>1, <4>2, <4>3, <5>2, <6>1
        <5> QED BY <5>1, <5>2
      <4> QED BY <3>1, <4>3, CoherentFrame
    <3> QED BY <3>2, <3>3
  <2> QED BY <1>1, <2>1, <2>3, <2>4, <2>5 DEF PatchStep
<1>2. ASSUME patch' = patch, quota' = quota, \A t \in Tunnels : status'[t] # "gone" => status[t] # "gone"
      PROVE  QuotaCoherent'
  <2>1. CASE CachesRest
    BY <1>2, <2>1, SameQuota DEF CachesRest, memVars
  <2>2. CASE LoadsMonth
    BY <1>2, <2>2, SameQuota DEF LoadsMonth
  <2>3. ASSUME NEW o \in Ops, NEW n \in Nat, NEW limit \in Limits,
               Reserve(o, n, limit) \/ ReserveRefused(o, n, limit)
        PROVE  QuotaCoherent'
    <3>0. PICK w \in Nat, k \in Keys, e \in Entry, b \in Balance : GrantsTo(o, limit, w, k, e, b)
      BY <2>3, GrantIs
    <3>1. entry' = [entry EXCEPT ![k] = e] /\ failure' = failure
      BY <3>0 DEF GrantsTo
    <3>2. \/ entry[k].loaded /\ e.quota = entry[k].quota
          \/ e.quota = quota[k[1]]
      BY <3>0, GrantMarks
    <3>3. \A j \in Keys : entry'[j] = IF j = k THEN e ELSE entry[j]
      BY <1>0, <3>1
    <3>4. \A j \in Keys : entry'[j].loaded =>
              \/ entry[j].loaded /\ entry'[j].quota = entry[j].quota
              \/ entry'[j].quota = quota[j[1]]
      BY <3>2, <3>3
    <3> QED BY <1>2, <3>1, <3>4, SameQuota
  <2>4. ASSUME NEW p \in Patchers, UpdateQuota(p) PROVE QuotaCoherent'
    BY <1>1, <2>4 DEF PatchStep
  <2>5. CASE Flushes
    <3>1. CachesOK(entry, balance, pending)
      BY MeterCaches
    <3>2. /\ failure => failure'
          /\ \A k \in Keys : entry'[k].loaded => entry[k].loaded /\ entry'[k].quota = entry[k].quota
      BY <2>5, <3>1, FlushQuota DEF Flushes
    <3> QED BY <1>2, <3>2, SameQuota
  <2>6. ASSUME NEW o \in Ops, NEW n \in Nat, Settle(o, n) PROVE QuotaCoherent'
    <3>0. PICK k \in Keys, e \in Entry, b \in Balance : SettlesTo(o, n, k, e, b)
      BY <2>6, SettleIs
    <3> DEFINE ents == [entry EXCEPT ![k] = e]
               bals == [balance EXCEPT ![k[2]] = b]
    <3>1. /\ entry[k].loaded /\ e.quota = entry[k].quota
          /\ CachesOK(ents, bals, pending + n)
          /\ \/ Flush(ents, bals, pending + n, phase)
             \/ entry' = ents /\ UNCHANGED failure
      BY <3>0 DEF SettlesTo
    <3>2. \A j \in Keys : ents[j].loaded => entry[j].loaded /\ ents[j].quota = entry[j].quota
      <4>1. \A j \in Keys : ents[j] = IF j = k THEN e ELSE entry[j]
        BY <1>0
      <4> QED BY <3>1, <4>1
    <3> HIDE DEF ents, bals
    <3>3. /\ failure => failure'
          /\ \A j \in Keys : entry'[j].loaded => ents[j].loaded /\ entry'[j].quota = ents[j].quota
      BY <3>1, FlushQuota
    <3>4. \A j \in Keys : entry'[j].loaded => entry[j].loaded /\ entry'[j].quota = entry[j].quota
      BY <3>2, <3>3
    <3> QED BY <1>2, <3>3, <3>4, SameQuota
  <2>7. CASE Restart
    BY <2>7 DEF Restart, QuotaCoherent, NoEntry
  <2> QED BY <2>1, <2>2, <2>3, <2>4, <2>5, <2>6, <2>7, StepMoves
<1>3. CASE Restart
  BY <1>3 DEF Restart, QuotaCoherent, NoEntry
<1> QED BY <1>1, <1>2, <1>3, OtherSteps

\* The budgets, with the patches that explain them.
LEMMA CoherentKept ==
    ASSUME {} \notin QuotaFields
    PROVE  Spec => [](MeterInv /\ Books /\ QuotaCoherent)
<1>1. Init => PatchesCallBack /\ QuotaCoherent
  BY DEF Init, PatchesCallBack, QuotaCoherent, NoPatch, NoEntry
<1> QED BY <1>1, StepCallBack, StepCoherent, BooksKept, PTL DEF Spec

\* Where every PATCH carries a quota, and so calls UpdateQuota, the budget that
\* reserve enforces is the row's whenever no such call is due, in whatever order
\* concurrent PATCHes commit and call back (gateway.go UpdateQuota).
THEOREM BudgetCoherent ==
    ASSUME {} \notin QuotaFields
    PROVE  Spec => []QuotaCoherent
BY CoherentKept, PTL

-----------------------------------------------------------------------------
(* A flush stops a tunnel only for the budget in force                     *)

\* On a healthy meter a mark waits on no uncommitted bytes: whatever spends a budget
\* is flushed in the same critical section.
MarksClean == ~failure => \A k \in Keys : entry[k].stopPending => ~Dirty(entry[k])

\* A flush clears the marks it commits; with nothing pending no entry is dirty.
LEMMA FlushMarks ==
    ASSUME TypeOK, NEW STATE ents, NEW STATE bals, NEW STATE pend, NEW ACTION ph,
           CachesOK(ents, bals, pend), BooksOf(ents, bals, pend), Flush(ents, bals, pend, ph)
    PROVE  MarksClean'
<1> SUFFICES ASSUME ~failure', NEW k \in Keys, entry'[k].stopPending
             PROVE  entry'[k].delta = 0
  BY DEF MarksClean, Dirty
<1>1. FlushedIdle(ents, pend, k) \/ FlushedAll(ents, k) \/ FlushFailed(ents, pend)
  BY FlushIs
<1>2. NoEntry.delta = 0
  BY DEF NoEntry
<1>3. CASE FlushedIdle(ents, pend, k)
  <2>1. DeltasOf(ents) \in [Keys -> Nat] /\ DeltasOf(ents)[k] = ents[k].delta
    BY DEF DeltasOf, CachesOK, Entry
  <2>2. IsFiniteSet(Keys) /\ SumOver(DeltasOf(ents), Keys) = 0
    BY <1>3, FiniteIndexes DEF BooksOf, FlushedIdle
  <2>3. \A j \in Keys : DeltasOf(ents)[j] \in Nat
    BY <2>1
  <2>4. DeltasOf(ents)[k] <= 0
    BY <2>2, <2>3, SumAtLeast
  <2>5. ents[k].delta = 0
    BY <2>1, <2>3, <2>4
  <2> QED BY <1>2, <1>3, <2>5 DEF FlushedIdle
<1>4. CASE FlushedAll(ents, k)
  BY <1>2, <1>4 DEF FlushedAll
<1>5. CASE FlushFailed(ents, pend)
  BY <1>5 DEF FlushFailed
<1> QED BY <1>1, <1>3, <1>4, <1>5

\* Steps that neither mark nor dirty an entry.
LEMMA MarksFrame ==
    ASSUME MarksClean, failure => failure',
           \A k \in Keys : entry'[k].stopPending => entry[k].stopPending /\ entry'[k].delta = entry[k].delta
    PROVE  MarksClean'
BY DEF MarksClean, Dirty

\* Every step keeps marks and deltas apart.
LEMMA StepMarks == MeterInv /\ Books /\ MarksClean /\ [Next]_vars => MarksClean'
<1> SUFFICES ASSUME MeterInv, Books, MarksClean, [Next]_vars PROVE MarksClean'
  OBVIOUS
<1> USE DEF MeterInv
<1>0. entry \in [Keys -> Entry]
  BY DEF TypeOK
<1>1. CASE CachesRest
  BY <1>1, MarksFrame DEF CachesRest, memVars
<1>2. CASE LoadsMonth
  BY <1>2, MarksFrame DEF LoadsMonth
<1>3. ASSUME NEW o \in Ops, NEW n \in Nat, NEW limit \in Limits,
             Reserve(o, n, limit) \/ ReserveRefused(o, n, limit)
      PROVE  MarksClean'
  <2>0. PICK w \in Nat, k \in Keys, e \in Entry, b \in Balance : GrantsTo(o, limit, w, k, e, b)
    BY <1>3, GrantIs
  <2>1. entry' = [entry EXCEPT ![k] = e] /\ failure' = failure /\ e.delta = entry[k].delta
    BY <2>0 DEF GrantsTo
  <2>2. e.stopPending => entry[k].stopPending
    BY <2>0, GrantMarks
  <2>3. \A j \in Keys : entry'[j] = IF j = k THEN e ELSE entry[j]
    BY <1>0, <2>1
  <2>4. \A j \in Keys : entry'[j].stopPending => entry[j].stopPending /\ entry'[j].delta = entry[j].delta
    BY <2>1, <2>2, <2>3
  <2> QED BY <2>1, <2>4, MarksFrame
<1>4. ASSUME NEW p \in Patchers, UpdateQuota(p) PROVE MarksClean'
  <2>1. \A k \in Keys : entry'[k].stopPending = entry[k].stopPending /\ entry'[k].delta = entry[k].delta
    BY <1>4, UpdateQuotaIs
  <2>2. failure => failure'
    BY <1>4 DEF UpdateQuota
  <2> QED BY <2>1, <2>2, MarksFrame
<1>5. CASE Flushes
  <2>1. CachesOK(entry, balance, pending) /\ BooksOf(entry, balance, pending)
    BY MeterCaches DEF Books
  <2> QED BY <1>5, <2>1, FlushMarks DEF Flushes
<1>6. ASSUME NEW o \in Ops, NEW n \in Nat, Settle(o, n) PROVE MarksClean'
  <2>0. PICK k \in Keys, e \in Entry, b \in Balance : SettlesTo(o, n, k, e, b)
    BY <1>6, SettleIs
  <2> DEFINE ents == [entry EXCEPT ![k] = e]
             bals == [balance EXCEPT ![k[2]] = b]
  <2>1. BooksOf(ents, bals, pending + n)
    BY <2>0, SettleBooks
  <2>2. /\ CachesOK(ents, bals, pending + n)
        /\ \/ Flush(ents, bals, pending + n, phase)
           \/ ~e.stopPending /\ entry' = ents /\ UNCHANGED failure
    BY <2>0 DEF SettlesTo, MustFlush
  <2>3. \A j \in Keys : ents[j] = IF j = k THEN e ELSE entry[j]
    BY <1>0
  <2> HIDE DEF ents, bals
  <2>4. CASE Flush(ents, bals, pending + n, phase)
    BY <2>1, <2>2, <2>4, FlushMarks
  <2>5. CASE ~e.stopPending /\ entry' = ents /\ UNCHANGED failure
    BY <2>3, <2>5, MarksFrame
  <2> QED BY <2>2, <2>4, <2>5
<1>7. CASE Restart
  BY <1>7 DEF Restart, MarksClean, NoEntry
<1> QED BY <1>1, <1>2, <1>3, <1>4, <1>5, <1>6, <1>7, StepMoves

\* A PATCH that writes a status moves its own record.
LEMMA PatchCommitMoves ==
    ASSUME MeterInv, NEW p \in Patchers, PatchStep(p), NEW t \in Tunnels, status'[t] # status[t]
    PROVE  patch' # patch
<1>1. PatchCommit(p)
  BY DEF PatchStep, PatchFails, UpdateQuota, PatchRearm, PatchLoad, rowVars
<1>2. NextPatchStep(patch[p]) \in {"idle", "callback", "rearm"} /\ patch[p].step = "loaded"
      /\ patch' = [patch EXCEPT ![p] = PatchAt(p, NextPatchStep(patch[p]))]
  BY <1>1 DEF PatchCommit, NextPatchStep
<1>3. PatchAt(p, NextPatchStep(patch[p])).step # "loaded"
  BY <1>2, PatchAtIs
<1> QED BY <1>2, <1>3, PatchMoves DEF MeterInv, TypeOK

\* A flush stops a tunnel whose committed bytes reached its budget, or that a
\* settlement of no bytes had left marked.
LEMMA StepStopsJustified ==
    ASSUME MeterInv, Books, QuotaCoherent, MarksClean, [Next]_vars, NEW t \in Tunnels,
           status[t] = "active", status'[t] = "quota_exceeded", patch' = patch, ~failure, ~QuotaInDoubt(t)
    PROVE  \/ \E k \in Keys : k[1] = t /\ quota[t] > 0 /\ usage'[k] >= quota[t]
           \/ LeftOverStop(t)
<1> USE DEF MeterInv
<1>0. entry \in [Keys -> Entry] /\ ~Restart
  BY DEF TypeOK, Restart, rowVars
<1>1. Flushes \/ \E o \in Ops, n \in Nat : Settle(o, n)
  BY <1>0, OtherSteps, PatchCommitMoves
<1>2. ASSUME NEW STATE ents, NEW STATE bals, NEW STATE pend, NEW ACTION ph, Flush(ents, bals, pend, ph)
      PROVE  \E k \in Keys : /\ k[1] = t /\ ents[k].delta # 0 /\ ents[k].stopPending
                              /\ usage'[k] = usage[k] + ents[k].delta
  <2>1. Commit(ents, bals, ph)
    BY <1>2 DEF Flush
  <2>2. \E k \in Keys : k[1] = t /\ Dirty(ents[k]) /\ ents[k].stopPending
    BY <2>1 DEF Commit
  <2> QED BY <2>1, <2>2 DEF Commit, Dirty
<1>3. CASE Flushes
  <2>1. \E k \in Keys : entry[k].delta # 0 /\ entry[k].stopPending
    BY <1>2, <1>3 DEF Flushes
  <2> QED BY <2>1 DEF MarksClean, Dirty
<1>4. ASSUME NEW o \in Ops, NEW n \in Nat, Settle(o, n)
      PROVE  \/ \E k \in Keys : k[1] = t /\ quota[t] > 0 /\ usage'[k] >= quota[t]
             \/ LeftOverStop(t)
  <2>0. PICK k \in Keys, e \in Entry, b \in Balance : SettlesTo(o, n, k, e, b)
    BY <1>4, SettleIs
  <2> DEFINE ents == [entry EXCEPT ![k] = e]
             bals == [balance EXCEPT ![k[2]] = b]
  <2>1. /\ entry[k].loaded /\ e.quota = entry[k].quota
        /\ e.total = entry[k].total + n /\ e.delta = entry[k].delta + n
        /\ Flush(ents, bals, pending + n, phase) \/ status' = status
    BY <2>0 DEF SettlesTo, rowVars
  <2>2. e.stopPending <=> entry[k].stopPending \/ (e.quota > 0 /\ e.total >= e.quota)
    BY <2>0, SettleMarks
  <2>3. \A j \in Keys : ents[j] = IF j = k THEN e ELSE entry[j]
    BY <1>0
  <2> HIDE DEF ents, bals
  <2>4. PICK j \in Keys : /\ j[1] = t /\ ents[j].delta # 0 /\ ents[j].stopPending
                          /\ usage'[j] = usage[j] + ents[j].delta
    BY <1>2, <2>1
  <2>5. j = k
    BY <2>3, <2>4 DEF MarksClean, Dirty
  <2>6. CASE entry[k].stopPending
    BY <2>4, <2>5, <2>6 DEF MarksClean, LeftOverStop
  <2>7. CASE ~entry[k].stopPending
    <3>1. e.quota > 0 /\ e.total >= e.quota
      BY <2>2, <2>3, <2>4, <2>5, <2>7
    <3>2. e.quota = quota[t]
      BY <2>1, <2>4, <2>5 DEF QuotaCoherent
    <3>3. entry[k].total = usage[k] + entry[k].delta
      BY <2>1, <2>4, <2>5 DEF LedgerMatchesRows
    <3>4. usage'[k] = e.total
      <4>1. usage[k] \in Nat /\ entry[k].delta \in Nat
        BY DEF TypeOK, Entry
      <4> QED BY <2>1, <2>3, <2>4, <2>5, <3>3, <4>1
    <3> QED BY <2>4, <2>5, <3>1, <3>2, <3>4
  <2> QED BY <2>6, <2>7
<1> QED BY <1>1, <1>3, <1>4

\* Where every PATCH carries a quota, no flush of a healthy meter stops a tunnel
\* for a budget its owner has raised since, except by the mark that a settlement of
\* no bytes left behind (meter.go 160-191 and 300-361).
THEOREM StopsJustified ==
    ASSUME {} \notin QuotaFields
    PROVE  Spec => StopJustified
<1>1. Init => MarksClean
  BY DEF Init, MarksClean, NoEntry
<1>2. MeterInv /\ Books /\ QuotaCoherent /\ MarksClean /\ [Next]_vars =>
        [\A t \in Tunnels :
          (/\ status[t] = "active" /\ status'[t] = "quota_exceeded"
           /\ patch' = patch /\ ~failure /\ ~QuotaInDoubt(t)) =>
              \/ \E k \in Keys : k[1] = t /\ quota[t] > 0 /\ usage'[k] >= quota[t]
              \/ LeftOverStop(t)]_vars
  BY StepStopsJustified
<1> QED BY <1>1, <1>2, StepMarks, CoherentKept, PTL DEF Spec, StopJustified

-----------------------------------------------------------------------------
(* The meter implements the ledger                                         *)

\* The ledger's view of the meter: the budgets in force and the bytes promised.
Caps == [k \in Keys |-> IF entry[k].loaded THEN entry[k].quota ELSE quota[k[1]]]
Promised == [k \in Keys |-> SumOver(held, OpsOn(k))]

\* What an entry has not committed is part of its total, and no I/O holds more than
\* a chunk.
DeltaInTotal == \A k \in Keys : entry[k].loaded => entry[k].delta <= entry[k].total
HeldSmall == \A o \in Ops : held[o] <= Chunk

\* A flush makes the given deltas durable, or leaves them, and keeps reservations.
LEMMA FlushDurable ==
    ASSUME TypeOK, NEW STATE ents, NEW STATE bals, NEW STATE pend, NEW ACTION ph,
           CachesOK(ents, bals, pend), Flush(ents, bals, pend, ph)
    PROVE  /\ \/ /\ usage' = [k \in Keys |-> usage[k] + ents[k].delta]
                 /\ Deltas' = [k \in Keys |-> 0]
              \/ usage' = usage /\ Deltas' = DeltasOf(ents)
           /\ \A k \in Keys : entry'[k].reserved = ents[k].reserved
           /\ \A k \in Keys : entry'[k].loaded =>
                 entry'[k].total = ents[k].total /\ entry'[k].delta <= ents[k].delta
                 /\ ents[k].loaded
<1>0. /\ ents \in [Keys -> Entry] /\ NoEntry.delta = 0 /\ ~NoEntry.loaded
      /\ \A k \in Keys : ents[k].delta \in Nat
  BY DEF CachesOK, NoEntry, Entry
<1>1. \A k \in Keys : entry'[k].reserved = ents[k].reserved
  BY FlushKeeps DEF ReservedKept
<1>2. CASE pend = 0 /\ entry' = Pruned(ents, ph) /\ UNCHANGED usage
  <2>1. \A k \in Keys : entry'[k] = ents[k] \/ (entry'[k] = NoEntry /\ ents[k].delta = 0)
    BY <1>2 DEF Pruned
  <2>2. Deltas' = DeltasOf(ents)
    BY <1>0, <2>1 DEF Deltas, DeltasOf
  <2> QED BY <1>0, <1>1, <1>2, <2>1, <2>2
<1>3. CASE Commit(ents, bals, ph)
  <2>1. ASSUME NEW k \in Keys
        PROVE  /\ entry'[k].delta = 0
               /\ entry'[k].loaded => entry'[k].total = ents[k].total /\ ents[k].loaded
    <3> DEFINE c == Cleared(ents)[k]
    <3>1. c.loaded = ents[k].loaded /\ c.total = ents[k].total /\ c.delta = 0
      BY <1>0 DEF Cleared, Entry
    <3>2. entry'[k] = NoEntry \/ entry'[k] = c
      BY <1>3 DEF Commit, Pruned
    <3> HIDE DEF c
    <3> QED BY <1>0, <3>1, <3>2
  <2>2. Deltas' = [k \in Keys |-> 0] /\ usage' = [k \in Keys |-> usage[k] + ents[k].delta]
    BY <1>3, <2>1 DEF Deltas, Commit
  <2> QED BY <1>0, <1>1, <2>1, <2>2
<1>4. CASE entry' = ents /\ UNCHANGED usage
  BY <1>0, <1>4 DEF Deltas, DeltasOf
<1> QED BY <1>2, <1>3, <1>4 DEF Flush

\* The view is typed, and what is promised is what the entries set aside.
LEMMA ViewTyped ==
    ASSUME MeterInv, MeterInv'
    PROVE  /\ Caps' \in [Keys -> Nat]
           /\ Promised = [k \in Keys |-> entry[k].reserved]
           /\ Promised' = [k \in Keys |-> entry'[k].reserved]
<1>1. /\ entry' \in [Keys -> Entry] /\ quota' \in [Tunnels -> Nat]
  BY DEF MeterInv, TypeOK
<1>2. \A k \in Keys : Caps'[k] = IF entry'[k].loaded THEN entry'[k].quota ELSE quota'[k[1]]
  BY DEF Caps
<1>3. \A k \in Keys : Caps'[k] \in Nat
  BY <1>1, <1>2, KeyMonths DEF Entry
<1>4. Caps' \in [Keys -> Nat]
  BY <1>3 DEF Caps
<1>5. Promised = [k \in Keys |-> entry[k].reserved]
  BY DEF MeterInv, ReservationsMatchIO, Promised
<1>6. Promised' = [k \in Keys |-> entry'[k].reserved]
  BY DEF MeterInv, ReservationsMatchIO, Promised
<1> QED BY <1>4, <1>5, <1>6

\* The ledger's actions on the meter's view: a promise, ...
LEMMA ViewPromise ==
    ASSUME NEW k \in Keys, NEW n \in 1..Chunk,
           Caps[k] = 0 \/ usage[k] + Deltas[k] + Promised[k] + n <= Caps[k],
           Promised' = [Promised EXCEPT ![k] = @ + n], UNCHANGED <<Caps, usage, Deltas>>
    PROVE  Ledger!LedgerNext
<1>1. Ledger!Promise(k, n)
  BY DEF Ledger!Promise, Caps, Promised
<1> QED BY <1>1 DEF Ledger!LedgerNext

\* ... a settlement, ...
LEMMA ViewSettle ==
    ASSUME NEW k \in Keys, NEW n \in 1..Chunk, NEW m \in 0..Chunk, m <= n, n <= Promised[k],
           Promised' = [Promised EXCEPT ![k] = @ - n],
           Ledger!MakeDurable([Deltas EXCEPT ![k] = @ + m]), Caps' \in [Keys -> Nat]
    PROVE  Ledger!LedgerNext
<1>1. Ledger!SettleBytes(k, n, m)
  BY DEF Ledger!SettleBytes, Caps, Promised
<1> QED BY <1>1 DEF Ledger!LedgerNext

\* ... a flush, ...
LEMMA ViewPersist ==
    ASSUME Ledger!MakeDurable(Deltas), Caps' \in [Keys -> Nat], UNCHANGED Promised
    PROVE  Ledger!LedgerNext
<1>1. Ledger!Persist
  BY DEF Ledger!Persist, Caps, Promised
<1> QED BY <1>1 DEF Ledger!LedgerNext

\* ... a crash, ...
LEMMA ViewCrash ==
    ASSUME Deltas' = [k \in Keys |-> 0], Promised' = [k \in Keys |-> 0],
           Caps' \in [Keys -> Nat], UNCHANGED usage
    PROVE  Ledger!LedgerNext
<1>1. Ledger!Crash
  BY DEF Ledger!Crash, Caps, Promised
<1> QED BY <1>1 DEF Ledger!LedgerNext

\* ... a delete, ...
LEMMA ViewRemove ==
    ASSUME NEW S \in SUBSET Keys, usage' = [k \in Keys |-> IF k \in S THEN 0 ELSE usage[k]],
           UNCHANGED <<Caps, Deltas, Promised>>
    PROVE  Ledger!LedgerNext
<1>1. Ledger!Remove(S)
  BY DEF Ledger!Remove, Caps, Promised
<1> QED BY <1>1 DEF Ledger!LedgerNext

\* ... and a new budget.
LEMMA ViewChangeCap ==
    ASSUME Caps' \in [Keys -> Nat], UNCHANGED <<usage, Deltas, Promised>>
    PROVE  Ledger!LedgerNext
<1>1. Ledger!ChangeCap
  BY DEF Ledger!ChangeCap, Caps, Promised
<1> QED BY <1>1 DEF Ledger!LedgerNext

\* A grant, as the ledger sees it: a promise, or nothing when reserve refuses.
LEMMA GrantStep ==
    ASSUME MeterInv, MeterInv', DeltaInTotal, NEW o \in Ops, NEW limit \in Limits, NEW w \in Nat,
           NEW k \in Keys, NEW e \in Entry, NEW b \in Balance, GrantsTo(o, limit, w, k, e, b)
    PROVE  Ledger!LedgerNext \/ UNCHANGED <<Caps, usage, Deltas, Promised>>
<1> USE DEF MeterInv
<1>0. /\ entry \in [Keys -> Entry] /\ k[1] \in Tunnels
      /\ usage[k] \in Nat /\ entry[k].delta \in Nat /\ entry[k].reserved \in Nat /\ entry[k].total \in Nat
      /\ e.total \in Nat /\ e.reserved \in Nat /\ e.quota \in Nat
  BY KeyMonths DEF TypeOK, Entry
<1>1. /\ entry' = [entry EXCEPT ![k] = e] /\ UNCHANGED <<quota, usage>>
      /\ e.loaded /\ e.delta = entry[k].delta /\ e.reserved = entry[k].reserved + w
      /\ w = 0 \/ (w \in 1..Chunk /\ (e.quota = 0 \/ e.total + e.reserved <= e.quota))
  BY DEF GrantsTo, rowVars
<1>2. \A j \in Keys : entry'[j] = IF j = k THEN e ELSE entry[j]
  BY <1>0, <1>1
<1>3. /\ entry[k].loaded => e.total = entry[k].total /\ e.quota = entry[k].quota
      /\ ~entry[k].loaded => e.total = usage[k] /\ e.quota = quota[k[1]]
  BY GrantMarks
<1>4. Caps' = Caps
  <2>1. \A j \in Keys : (IF entry'[j].loaded THEN entry'[j].quota ELSE quota'[j[1]])
                         = (IF entry[j].loaded THEN entry[j].quota ELSE quota[j[1]])
    BY <1>1, <1>2, <1>3
  <2> QED BY <2>1 DEF Caps
<1>5. Deltas' = Deltas
  BY <1>1, <1>2 DEF Deltas
<1>6. /\ Promised = [j \in Keys |-> entry[j].reserved] /\ Promised' = [j \in Keys |-> entry'[j].reserved]
  BY ViewTyped
<1>7. Promised' = [Promised EXCEPT ![k] = @ + w]
  BY <1>1, <1>2, <1>6
<1>8. CASE w = 0
  <2>1. \A j \in Keys : entry'[j].reserved = entry[j].reserved
    BY <1>0, <1>1, <1>2, <1>8
  <2>2. Promised' = Promised
    BY <1>6, <2>1
  <2> QED BY <1>1, <1>4, <1>5, <2>2
<1>9. CASE w \in 1..Chunk /\ (e.quota = 0 \/ e.total + e.reserved <= e.quota)
  <2>1. Caps[k] = e.quota /\ Promised[k] = entry[k].reserved /\ Deltas[k] = entry[k].delta
    BY <1>3, <1>6 DEF Caps, Deltas
  <2>2. usage[k] + entry[k].delta <= e.total
    <3>1. CASE entry[k].loaded /\ status[k[1]] # "gone"
      BY <1>0, <1>3, <3>1 DEF LedgerMatchesRows
    <3>2. CASE entry[k].loaded /\ status[k[1]] = "gone"
      BY <1>0, <1>3, <3>2 DEF GoneIsEmpty, DeltaInTotal
    <3>3. CASE ~entry[k].loaded
      BY <1>0, <1>3, <3>3 DEF UnloadedIsBlank, NoEntry
    <3> QED BY <3>1, <3>2, <3>3
  <2>3. Caps[k] = 0 \/ usage[k] + Deltas[k] + Promised[k] + w <= Caps[k]
    BY <1>0, <1>1, <1>9, <2>1, <2>2
  <2> QED BY <1>1, <1>4, <1>5, <1>7, <1>9, <2>3, ViewPromise
<1> QED BY <1>1, <1>8, <1>9

\* A settlement, flushed or not, as the ledger sees it.
LEMMA SettleStep ==
    ASSUME MeterInv, MeterInv', HeldSmall, NEW o \in Ops, NEW n \in 0..Chunk,
           NEW k \in Keys, NEW e \in Entry, NEW b \in Balance, SettlesTo(o, n, k, e, b)
    PROVE  Ledger!LedgerNext
<1> USE DEF MeterInv
<1> DEFINE ents == [entry EXCEPT ![k] = e]
           bals == [balance EXCEPT ![k[2]] = b]
<1>0. /\ entry \in [Keys -> Entry] /\ entry[k].reserved \in Nat /\ entry[k].delta \in Nat
      /\ \A j \in Keys : ents[j] = IF j = k THEN e ELSE entry[j]
  BY DEF TypeOK, Entry
<1>1. /\ e.delta = entry[k].delta + n /\ e.reserved = entry[k].reserved - held[o]
      /\ held[o] \in Nat /\ held[o] > 0 /\ n <= held[o] /\ held[o] <= entry[k].reserved
      /\ CachesOK(ents, bals, pending + n)
      /\ \/ Flush(ents, bals, pending + n, phase)
         \/ entry' = ents /\ UNCHANGED usage
  BY DEF SettlesTo, rowVars
<1>2. held[o] \in 1..Chunk
  BY <1>1, MeterAssumption DEF HeldSmall
<1>3. DeltasOf(ents) = [Deltas EXCEPT ![k] = @ + n]
  BY <1>0, <1>1 DEF DeltasOf, Deltas
<1> HIDE DEF ents, bals
<1>4. /\ \A j \in Keys : entry'[j].reserved = ents[j].reserved
      /\ \/ /\ usage' = [j \in Keys |-> usage[j] + ents[j].delta] /\ Deltas' = [j \in Keys |-> 0]
         \/ usage' = usage /\ Deltas' = DeltasOf(ents)
  <2>1. CASE Flush(ents, bals, pending + n, phase)
    BY <1>1, <2>1, FlushDurable
  <2>2. CASE entry' = ents /\ UNCHANGED usage
    BY <2>2 DEF Deltas, DeltasOf
  <2> QED BY <1>1, <2>1, <2>2
<1>5. Ledger!MakeDurable([Deltas EXCEPT ![k] = @ + n])
  <2>1. \A j \in Keys : [Deltas EXCEPT ![k] = @ + n][j] = ents[j].delta
    BY <1>3 DEF DeltasOf
  <2> DEFINE moved == [Deltas EXCEPT ![k] = @ + n]
  <2>2. \/ /\ usage' = [j \in Keys |-> usage[j] + moved[j]] /\ Deltas' = [j \in Keys |-> 0]
        \/ usage' = usage /\ Deltas' = moved
    <3>1. [j \in Keys |-> usage[j] + moved[j]] = [j \in Keys |-> usage[j] + ents[j].delta]
      BY <2>1
    <3> QED BY <1>3, <1>4, <3>1
  <2> HIDE DEF moved
  <2>3. Ledger!MakeDurable(moved)
    BY <2>2 DEF Ledger!MakeDurable
  <2> QED BY <2>3 DEF moved
<1>6. /\ Promised = [j \in Keys |-> entry[j].reserved] /\ Promised' = [j \in Keys |-> entry'[j].reserved]
      /\ Caps' \in [Keys -> Nat]
  BY ViewTyped
<1>7. Promised' = [Promised EXCEPT ![k] = @ - held[o]] /\ held[o] <= Promised[k]
  <2>1. \A j \in Keys : entry'[j].reserved = IF j = k THEN entry[k].reserved - held[o] ELSE entry[j].reserved
    BY <1>0, <1>1, <1>4
  <2> QED BY <1>1, <1>6, <2>1
<1> QED BY <1>1, <1>2, <1>5, <1>6, <1>7, ViewSettle

\* Every step of the meter is a step of the ledger or leaves its view alone.
LEMMA StepLedger ==
    ASSUME MeterInv, MeterInv', DeltaInTotal, HeldSmall, [Next]_vars
    PROVE  Ledger!LedgerNext \/ UNCHANGED <<Caps, usage, Deltas, Promised>>
<1> USE DEF MeterInv
<1>0. /\ Promised = [j \in Keys |-> entry[j].reserved] /\ Promised' = [j \in Keys |-> entry'[j].reserved]
      /\ Caps' \in [Keys -> Nat] /\ entry \in [Keys -> Entry]
  BY ViewTyped DEF TypeOK
<1>1. CASE UNCHANGED <<entry, usage, quota>>
  BY <1>0, <1>1 DEF Caps, Deltas
<1>2. ASSUME NEW o \in Ops, NEW n \in Nat, NEW limit \in Limits,
             Reserve(o, n, limit) \/ ReserveRefused(o, n, limit)
      PROVE  Ledger!LedgerNext \/ UNCHANGED <<Caps, usage, Deltas, Promised>>
  <2>0. PICK w \in Nat, k \in Keys, e \in Entry, b \in Balance : GrantsTo(o, limit, w, k, e, b)
    BY <1>2, GrantIs
  <2> QED BY <2>0, GrantStep
<1>3. CASE Flushes
  <2>1. CachesOK(entry, balance, pending)
    BY MeterCaches
  <2>2. /\ \A k \in Keys : entry'[k].reserved = entry[k].reserved
        /\ \/ /\ usage' = [j \in Keys |-> usage[j] + entry[j].delta] /\ Deltas' = [j \in Keys |-> 0]
           \/ usage' = usage /\ Deltas' = DeltasOf(entry)
    BY <1>3, <2>1, FlushDurable DEF Flushes
  <2>3. Promised' = Promised
    BY <1>0, <2>2
  <2>4. Ledger!MakeDurable(Deltas)
    <3>1. Deltas = DeltasOf(entry) /\ \A j \in Keys : Deltas[j] = entry[j].delta
      BY DEF Deltas, DeltasOf
    <3>2. [j \in Keys |-> usage[j] + Deltas[j]] = [j \in Keys |-> usage[j] + entry[j].delta]
      BY <3>1
    <3> QED BY <2>2, <3>1, <3>2 DEF Ledger!MakeDurable
  <2> QED BY <1>0, <2>3, <2>4, ViewPersist
<1>4. ASSUME NEW o \in Ops, NEW n \in 0..Chunk, Settle(o, n) PROVE Ledger!LedgerNext
  <2>1. n \in Nat
    BY MeterAssumption
  <2>0. PICK k \in Keys, e \in Entry, b \in Balance : SettlesTo(o, n, k, e, b)
    BY <1>4, <2>1, SettleIs
  <2> QED BY <2>0, SettleStep
<1>5. CASE Restart
  <2>1. \A k \in Keys : entry'[k].delta = 0 /\ entry'[k].reserved = 0
    BY <1>5 DEF Restart, NoEntry
  <2>2. Deltas' = [k \in Keys |-> 0] /\ Promised' = [k \in Keys |-> 0]
    BY <1>0, <2>1 DEF Deltas
  <2> QED BY <1>0, <1>5, <2>2, ViewCrash DEF Restart, rowVars
<1>6. ASSUME NEW t \in Tunnels, DropRow(t) PROVE Ledger!LedgerNext
  <2> DEFINE S == {k \in Keys : k[1] = t}
  <2>1. /\ usage' = [k \in Keys |-> IF k[1] = t THEN 0 ELSE usage[k]]
        /\ UNCHANGED <<quota, entry>>
    BY <1>6 DEF DropRow, memVars
  <2>2. usage' = [k \in Keys |-> IF k \in S THEN 0 ELSE usage[k]]
    BY <2>1
  <2>3. UNCHANGED <<Caps, Deltas, Promised>>
    BY <1>0, <2>1 DEF Caps, Deltas
  <2> QED BY <2>2, <2>3, ViewRemove
<1>7. ASSUME NEW p \in Patchers, PatchCommit(p) PROVE Ledger!LedgerNext
  <2>1. UNCHANGED <<entry, usage>>
    BY <1>7 DEF PatchCommit, memVars
  <2>2. UNCHANGED <<usage, Deltas, Promised>>
    BY <1>0, <2>1 DEF Deltas
  <2> QED BY <1>0, <2>2, ViewChangeCap
<1>8. ASSUME NEW p \in Patchers, UpdateQuota(p) PROVE Ledger!LedgerNext
  <2>1. \A k \in Keys : entry'[k].delta = entry[k].delta /\ entry'[k].reserved = entry[k].reserved
    BY <1>8, UpdateQuotaIs
  <2>2. Deltas' = Deltas /\ Promised' = Promised /\ usage' = usage
    BY <1>0, <1>8, <2>1 DEF Deltas, UpdateQuota, rowVars
  <2> QED BY <1>0, <2>2, ViewChangeCap
<1>9. CASE RequestNext
  <2>1. 1..Chunk + 1 \subseteq Nat
    BY MeterAssumption
  <2>2. ASSUME NEW r \in Requests, CloseHandle(r) \/ \E t \in Tunnels : Begin(r, t)
        PROVE  UNCHANGED <<entry, usage, quota>>
    BY <2>2 DEF CloseHandle, Begin, rowVars, memVars
  <2>3. ASSUME NEW r \in Requests, CloseFlush(r) PROVE Flushes
    BY <2>3 DEF CloseFlush, Flushes
  <2>4. ASSUME NEW o \in Ops, ReserveUnloaded(o) PROVE UNCHANGED <<entry, usage, quota>>
    BY <2>4 DEF ReserveUnloaded, rowVars
  <2> QED BY <1>1, <1>2, <1>3, <1>4, <1>9, <2>1, <2>2, <2>3, <2>4 DEF RequestNext
<1>10. CASE PatchNext
  <2>1. ASSUME NEW p \in Patchers, PatchFails(p) \/ PatchRearm(p) PROVE UNCHANGED <<entry, usage, quota>>
    BY <2>1 DEF PatchFails, PatchRearm, rowVars, memVars
  <2>2. ASSUME NEW p \in Patchers, NEW t \in Tunnels, NEW s \in StatusFields,
               NEW q \in QuotaFields, PatchLoad(p, t, s, q)
        PROVE  UNCHANGED <<entry, usage, quota>>
    BY <2>2 DEF PatchLoad, rowVars, memVars
  <2> QED BY <1>1, <1>7, <1>8, <1>10, <2>1, <2>2 DEF PatchNext
<1>11. CASE GlobalOverBudget \/ NextMonth \/ UNCHANGED vars
  <2>1. UNCHANGED <<entry, usage, quota>>
    BY <1>11 DEF GlobalOverBudget, NextMonth, vars, rowVars, memVars
  <2> QED BY <1>1, <2>1
<1>12. CASE FlushTick
  BY <1>3, <1>12 DEF FlushTick, Flushes, reqVars
<1>13. CASE \E t \in Tunnels : OwnerDelete(t) \/ DeviceDelete(t)
  BY <1>6, <1>13 DEF OwnerDelete, DeviceDelete
<1> QED BY <1>5, <1>9, <1>10, <1>11, <1>12, <1>13 DEF Next

\* A total grows with its delta, and only a flush takes a delta back.
LEMMA StepDelta == MeterInv /\ DeltaInTotal /\ [Next]_vars => DeltaInTotal'
<1> SUFFICES ASSUME MeterInv, DeltaInTotal, [Next]_vars PROVE DeltaInTotal'
  OBVIOUS
<1> USE DEF MeterInv
<1>0. /\ entry \in [Keys -> Entry]
      /\ \A k \in Keys : entry[k].delta \in Nat /\ entry[k].total \in Nat /\ usage[k] \in Nat
  BY DEF TypeOK, Entry
<1>1. ASSUME UNCHANGED entry PROVE DeltaInTotal'
  BY <1>1 DEF DeltaInTotal
<1>2. ASSUME NEW o \in Ops, NEW n \in Nat, NEW limit \in Limits,
             Reserve(o, n, limit) \/ ReserveRefused(o, n, limit)
      PROVE  DeltaInTotal'
  <2>0. PICK w \in Nat, k \in Keys, e \in Entry, b \in Balance : GrantsTo(o, limit, w, k, e, b)
    BY <1>2, GrantIs
  <2>1. entry' = [entry EXCEPT ![k] = e] /\ e.delta = entry[k].delta
    BY <2>0 DEF GrantsTo
  <2>2. /\ entry[k].loaded => e.total = entry[k].total
        /\ ~entry[k].loaded => e.total = usage[k] /\ entry[k].delta = 0
    BY <2>0, GrantMarks DEF UnloadedIsBlank, NoEntry
  <2>3. \A j \in Keys : entry'[j] = IF j = k THEN e ELSE entry[j]
    BY <1>0, <2>1
  <2>4. e.delta <= e.total
    BY <1>0, <2>1, <2>2 DEF DeltaInTotal
  <2> QED BY <2>3, <2>4 DEF DeltaInTotal
<1>3. ASSUME NEW p \in Patchers, UpdateQuota(p) PROVE DeltaInTotal'
  <2>1. \A k \in Keys : /\ entry'[k].delta = entry[k].delta /\ entry'[k].total = entry[k].total
                        /\ entry'[k].loaded = entry[k].loaded
    BY <1>3, UpdateQuotaIs
  <2> QED BY <2>1 DEF DeltaInTotal
<1>4. ASSUME NEW STATE ents, NEW STATE bals, NEW STATE pend, NEW ACTION ph,
             CachesOK(ents, bals, pend), Flush(ents, bals, pend, ph),
             \A k \in Keys : ents[k].loaded => ents[k].delta <= ents[k].total
      PROVE  DeltaInTotal'
  <2>1. ASSUME NEW k \in Keys, entry'[k].loaded PROVE entry'[k].delta <= entry'[k].total
    <3>1. /\ entry'[k].total = ents[k].total /\ entry'[k].delta <= ents[k].delta /\ ents[k].loaded
          /\ ents[k] \in Entry /\ entry'[k] \in Entry
      BY <1>4, <2>1, FlushDurable, FlushKeeps DEF CachesOK
    <3>2. ents[k].delta \in Nat /\ ents[k].total \in Nat /\ entry'[k].delta \in Nat
      BY <3>1 DEF Entry
    <3> QED BY <1>4, <3>1, <3>2
  <2> QED BY <2>1 DEF DeltaInTotal
<1>5. CASE Flushes
  BY <1>4, <1>5, MeterCaches DEF Flushes, DeltaInTotal
<1>6. ASSUME NEW o \in Ops, NEW n \in Nat, Settle(o, n) PROVE DeltaInTotal'
  <2>0. PICK k \in Keys, e \in Entry, b \in Balance : SettlesTo(o, n, k, e, b)
    BY <1>6, SettleIs
  <2> DEFINE ents == [entry EXCEPT ![k] = e]
             bals == [balance EXCEPT ![k[2]] = b]
  <2>1. /\ entry[k].loaded /\ e.total = entry[k].total + n /\ e.delta = entry[k].delta + n
        /\ CachesOK(ents, bals, pending + n)
        /\ Flush(ents, bals, pending + n, phase) \/ entry' = ents
    BY <2>0 DEF SettlesTo
  <2>2. \A j \in Keys : ents[j] = IF j = k THEN e ELSE entry[j]
    BY <1>0
  <2> HIDE DEF ents, bals
  <2>3. \A j \in Keys : ents[j].loaded => ents[j].delta <= ents[j].total
    BY <1>0, <2>1, <2>2 DEF DeltaInTotal
  <2>4. CASE Flush(ents, bals, pending + n, phase)
    BY <1>4, <2>1, <2>3, <2>4
  <2>5. CASE entry' = ents
    BY <2>3, <2>5 DEF DeltaInTotal
  <2> QED BY <2>1, <2>4, <2>5
<1>7. CASE Restart
  BY <1>7 DEF Restart, DeltaInTotal, NoEntry
<1>8. CASE CachesRest \/ LoadsMonth
  BY <1>1, <1>8 DEF CachesRest, LoadsMonth, memVars
<1> QED BY <1>2, <1>3, <1>5, <1>6, <1>7, <1>8, StepMoves

\* Every reservation is at most a chunk.
LEMMA StepHeld == MeterInv /\ HeldSmall /\ [Next]_vars => HeldSmall'
<1> SUFFICES ASSUME MeterInv, HeldSmall, [Next]_vars PROVE HeldSmall'
  OBVIOUS
<1> USE DEF MeterInv
<1>0. held \in [Ops -> Nat] /\ Chunk \in Nat /\ 0 <= Chunk
  BY MeterAssumption DEF TypeOK
<1>1. ASSUME UNCHANGED held PROVE HeldSmall'
  BY <1>1 DEF HeldSmall
<1>2. ASSUME NEW o \in Ops, NEW n \in Nat, NEW limit \in Limits,
             Reserve(o, n, limit) \/ ReserveRefused(o, n, limit)
      PROVE  HeldSmall'
  <2>0. PICK w \in Nat, k \in Keys, e \in Entry, b \in Balance : GrantsTo(o, limit, w, k, e, b)
    BY <1>2, GrantIs
  <2>1. held' = held \/ (w \in 1..Chunk /\ held' = [held EXCEPT ![o] = w])
    BY <2>0 DEF GrantsTo
  <2> QED BY <1>0, <2>1 DEF HeldSmall
<1>3. ASSUME NEW o \in Ops, NEW n \in Nat, Settle(o, n) PROVE HeldSmall'
  BY <1>0, <1>3 DEF Settle, HeldSmall
<1>4. CASE Restart
  BY <1>0, <1>4 DEF Restart, HeldSmall
<1>5. CASE RequestNext
  <2>1. 1..Chunk + 1 \subseteq Nat /\ 0..Chunk \subseteq Nat
    BY MeterAssumption
  <2>2. ASSUME NEW r \in Requests, CloseFlush(r) \/ CloseHandle(r) \/ \E t \in Tunnels : Begin(r, t)
        PROVE  UNCHANGED held
    BY <2>2 DEF CloseFlush, CloseHandle, Begin
  <2>3. ASSUME NEW o \in Ops, ReserveUnloaded(o) PROVE UNCHANGED held
    BY <2>3 DEF ReserveUnloaded, reqVars
  <2> QED BY <1>1, <1>2, <1>3, <1>5, <2>1, <2>2, <2>3 DEF RequestNext
<1>6. CASE PatchNext
  <2>1. UNCHANGED held
    BY <1>6 DEF PatchNext, PatchCommit, PatchFails, UpdateQuota, PatchRearm, PatchLoad, reqVars
  <2> QED BY <1>1, <2>1
<1>7. CASE FlushTick \/ \E t \in Tunnels : OwnerDelete(t) \/ DeviceDelete(t)
  <2>1. UNCHANGED held
    BY <1>7 DEF FlushTick, OwnerDelete, DeviceDelete, DropRow, reqVars
  <2> QED BY <1>1, <2>1
<1>8. CASE GlobalOverBudget \/ NextMonth \/ UNCHANGED vars
  <2>1. UNCHANGED held
    BY <1>8 DEF GlobalOverBudget, NextMonth, vars, reqVars
  <2> QED BY <1>1, <2>1
<1> QED BY <1>4, <1>5, <1>6, <1>7, <1>8 DEF Next

\* The meter starts where the ledger does.
LEMMA LedgerStart == Init => Ledger!LedgerInit
<1> SUFFICES ASSUME Init PROVE Ledger!LedgerInit
  OBVIOUS
<1>1. MeterInv
  BY InitInv
<1>2. \A k \in Keys : entry[k] = NoEntry /\ quota[k[1]] \in Nat
  BY <1>1, KeyMonths DEF Init, MeterInv, TypeOK
<1>3. Deltas = [k \in Keys |-> 0]
  BY <1>2 DEF Deltas, NoEntry
<1>4. [k \in Keys |-> SumOver(held, OpsOn(k))] = [k \in Keys |-> 0]
  <2>1. \A k \in Keys : SumOver(held, OpsOn(k)) = entry[k].reserved
    BY <1>1 DEF MeterInv, ReservationsMatchIO
  <2>2. \A k \in Keys : SumOver(held, OpsOn(k)) = 0
    BY <1>2, <2>1 DEF NoEntry
  <2> QED BY <2>2
<1>5. [k \in Keys |-> IF entry[k].loaded THEN entry[k].quota ELSE quota[k[1]]] \in [Keys -> Nat]
  BY <1>2 DEF NoEntry
<1>6. usage = [k \in Keys |-> 0]
  BY DEF Init
<1> QED BY <1>3, <1>4, <1>5, <1>6 DEF Ledger!LedgerInit

\* The caches, thresholds, prunes, handlers and failures of the meter implement a
\* ledger that has none of them: promises within the budget in force, all settled
\* bytes made durable together or none, and only a crash forgets (meter.go).
THEOREM LedgerImplemented == Spec => LedgerRefined
<1>1. Init => Ledger!LedgerInit /\ DeltaInTotal /\ HeldSmall
  <2>1. Init => DeltaInTotal /\ HeldSmall
    BY MeterAssumption DEF Init, DeltaInTotal, HeldSmall, NoEntry
  <2> QED BY <2>1, LedgerStart
<1>2. MeterInv /\ MeterInv' /\ DeltaInTotal /\ HeldSmall /\ [Next]_vars
        => [Ledger!LedgerNext]_(Ledger!ledger)
  <2> SUFFICES ASSUME MeterInv, MeterInv', DeltaInTotal, HeldSmall, [Next]_vars
               PROVE  Ledger!LedgerNext \/ UNCHANGED Ledger!ledger
    OBVIOUS
  <2>1. Ledger!LedgerNext \/ UNCHANGED <<Caps, usage, Deltas, Promised>>
    BY StepLedger
  <2>2. Ledger!ledger = <<Caps, usage, Deltas, Promised>>
    BY DEF Ledger!ledger, Caps, Promised
  <2>3. UNCHANGED <<Caps, usage, Deltas, Promised>> => UNCHANGED Ledger!ledger
    BY DEF Ledger!ledger, Caps, Promised
  <2> QED BY <2>1, <2>3
<1> QED BY <1>1, <1>2, StepDelta, StepHeld, Invariance, PTL DEF Spec, LedgerRefined, Ledger!LedgerSpec
=============================================================================
