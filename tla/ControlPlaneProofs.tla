------------------------ MODULE ControlPlaneProofs -------------------------
(***************************************************************************)
(* Proofs about the control plane, for any number of requests, visitors,   *)
(* accounts, boxes, sessions and grants and any limits.  The four modules  *)
(* share no state: each keeps an inductive invariant of its own, and       *)
(* PlaneInv is their conjunction.                                          *)
(*                                                                         *)
(*   AccountInv   of AccountsProofs                                        *)
(*   CodesInv     a request works on a row of its own box, and a code that *)
(*                is usable was not passed                                 *)
(*   SessionsInv  only project sessions have a grant, only logins are the  *)
(*                parents of grants, and what a request between its        *)
(*                statements knows of its grant and its session            *)
(*   SettingInv   what a visitor between its reads knows of the setting    *)
(*   LimiterInv   while an address is not blocked its failures are counted *)
(***************************************************************************)
EXTENDS ControlPlaneParts, AccountsProofs, SequenceTheorems, FiniteSetTheorems, TLAPS

-----------------------------------------------------------------------------
(* Verification codes                                                      *)

\* The modules count with the same operators.
LEMMA CodesCount == \A T : C!Cardinality(T) = Cardinality(T)
BY DEF C!Cardinality, Cardinality

\* A request that works on a row has one, of its own box; a code that is usable
\* has not been passed.
RowsHeld ==
    /\ \A r \in Requests : checks[r].step \in {"mail", "withdraw", "miss", "pass"} =>
          checks[r].row \in DOMAIN codes
    /\ \A i \in DOMAIN codes : codes[i].state = "usable" => codes[i].passed = 0

CodesInv == C!TypeOK /\ RowsHeld /\ C!CodeRacesBounded

LEMMA CodesIdle == C!Idle \in C!Check /\ C!Idle.step = "idle"
BY CodesAssumption DEF C!Idle, C!Check

\* The groups of requests at the second statement of a check.
LEMMA RacersCount ==
  \A i : /\ IsFiniteSet(C!Missing(i)) /\ Cardinality(C!Missing(i)) \in Nat
         /\ IsFiniteSet(C!Passing(i)) /\ Cardinality(C!Passing(i)) \in Nat
         /\ Cardinality(C!Missing(i)) <= Cardinality(Requests)
         /\ Cardinality(C!Passing(i)) <= Cardinality(Requests)
         /\ Cardinality(Requests) \in Nat
<1> SUFFICES ASSUME NEW i
             PROVE  /\ IsFiniteSet(C!Missing(i)) /\ Cardinality(C!Missing(i)) \in Nat
                    /\ IsFiniteSet(C!Passing(i)) /\ Cardinality(C!Passing(i)) \in Nat
                    /\ Cardinality(C!Missing(i)) <= Cardinality(Requests)
                    /\ Cardinality(C!Passing(i)) <= Cardinality(Requests)
                    /\ Cardinality(Requests) \in Nat
  OBVIOUS
<1>1. C!Missing(i) \subseteq Requests /\ C!Passing(i) \subseteq Requests
  BY DEF C!Missing, C!Passing
<1> QED BY <1>1, RequestsAssumption, FS_Subset, FS_CardinalityType

\* What bounds the guesses and the uses of row i, as numbers.
Guesses(i) == codes[i].attempts + Cardinality(C!Missing(i))
Uses(i) == codes[i].passed + Cardinality(C!Passing(i))

LEMMA RacesAre ==
  C!CodeRacesBounded <=>
      /\ \A i \in DOMAIN codes : Guesses(i) < MaxAttempts + Cardinality(Requests)
      /\ \A i \in DOMAIN codes : Uses(i) <= Cardinality(Requests)
      /\ C!CodesProveBox
BY CodesCount DEF C!CodeRacesBounded, C!GuessesBounded, C!UsesBounded, Guesses, Uses

LEMMA RacesWillBe ==
  (/\ \A i \in DOMAIN codes' : Guesses(i)' < MaxAttempts + Cardinality(Requests)
   /\ \A i \in DOMAIN codes' : Uses(i)' <= Cardinality(Requests)
   /\ C!CodesProveBox') => C!CodeRacesBounded'
BY CodesCount DEF C!CodeRacesBounded, C!GuessesBounded, C!UsesBounded, Guesses, Uses

LEMMA RowsAre ==
  ASSUME CodesInv, NEW i \in DOMAIN codes
  PROVE  /\ codes[i] \in C!Code /\ codes[i].attempts \in Nat /\ codes[i].passed \in Nat
         /\ Guesses(i) < MaxAttempts + Cardinality(Requests) /\ Uses(i) <= Cardinality(Requests)
<1>1. codes[i] \in C!Code
  BY DEF CodesInv, C!TypeOK
<1>2. codes[i].attempts \in Nat /\ codes[i].passed \in Nat
  BY <1>1 DEF C!Code
<1>3. C!CodeRacesBounded
  BY DEF CodesInv
<1> QED BY <1>1, <1>2, <1>3, RacesAre

LEMMA CodesInit == C!Init => CodesInv
<1> SUFFICES ASSUME C!Init PROVE CodesInv
  OBVIOUS
<1>1. codes = <<>> /\ \A r \in Requests : checks[r] = C!Idle
  BY DEF C!Init
<1>2. C!TypeOK
  BY CodesIdle, CodesAssumption DEF C!Init, C!TypeOK
<1>3. DOMAIN codes = {}
  BY <1>1
<1> QED BY <1>1, <1>2, <1>3, CodesIdle, RacesAre
        DEF CodesInv, RowsHeld, C!CodesProveBox

\* What a row becomes in every step: it keeps its box.
LEMMA RowStep ==
  ASSUME CodesInv, NEW i \in DOMAIN codes, NEW c \in C!Code, c.box = codes[i].box,
         codes' = [codes EXCEPT ![i] = c]
  PROVE  /\ codes' \in Seq(C!Code) /\ Len(codes') = Len(codes) /\ DOMAIN codes' = DOMAIN codes
         /\ \A j \in DOMAIN codes : codes'[j] = IF j = i THEN c ELSE codes[j]
         /\ \A j \in DOMAIN codes : codes'[j].box = codes[j].box
<1>1. codes \in Seq(C!Code) /\ i \in 1 .. Len(codes)
  BY DEF CodesInv, C!TypeOK
<1>2. codes' \in Seq(C!Code) /\ Len(codes') = Len(codes)
  BY <1>1, ExceptSeq
<1> QED BY <1>1, <1>2

\* A request leaves: no group gains a member.
LEMMA EndShrinks ==
  ASSUME C!TypeOK, NEW r \in Requests, C!Ends(r)
  PROVE  /\ checks' \in [Requests -> C!Check]
         /\ \A q \in Requests : checks'[q] = IF q = r THEN C!Idle ELSE checks[q]
         /\ \A i : C!Missing(i)' = C!Missing(i) \ {r} /\ C!Passing(i)' = C!Passing(i) \ {r}
<1>1. /\ checks' \in [Requests -> C!Check]
      /\ \A q \in Requests : checks'[q] = IF q = r THEN C!Idle ELSE checks[q]
  BY CodesIdle DEF C!TypeOK, C!Ends, C!Goes
<1> QED BY <1>1, CodesIdle DEF C!Missing, C!Passing, C!At

\* A request goes on with c and no row changes.  A group may gain it only by a check
\* of a row that is usable and whose limit is not reached.
LEMMA GoesKeepsCodes ==
  ASSUME CodesInv, NEW r \in Requests, NEW c \in C!Check, C!Goes(r, c), UNCHANGED codes,
         c.step \in {"mail", "withdraw", "miss", "pass"} => c.row \in DOMAIN codes,
         c.step \in {"miss", "pass"} =>
             /\ codes[c.row].state = "usable" /\ codes[c.row].attempts < MaxAttempts
             /\ codes[c.row].box = c.box
             /\ c.step = "pass" => c.guess = c.row
  PROVE  CodesInv'
<1>1. /\ checks' \in [Requests -> C!Check]
      /\ \A q \in Requests : checks'[q] = IF q = r THEN c ELSE checks[q]
  BY DEF CodesInv, C!TypeOK, C!Goes
<1>2. C!TypeOK' /\ RowsHeld'
  BY <1>1 DEF CodesInv, C!TypeOK, RowsHeld
<1>3. C!CodesProveBox'
  <2>1. C!CodesProveBox
    BY DEF CodesInv, C!CodeRacesBounded
  <2> QED BY <1>1, <2>1 DEF C!CodesProveBox, C!Row, C!At
<1>4. ASSUME NEW i \in DOMAIN codes PROVE Guesses(i)' < MaxAttempts + Cardinality(Requests)
  <2>0. Guesses(i) < MaxAttempts + Cardinality(Requests) /\ codes[i].attempts \in Nat
    BY RowsAre
  <2>1. CASE c.step = "miss" /\ c.row = i
    <3>1. codes[i].attempts < MaxAttempts
      BY <2>1
    <3>2. C!Missing(i)' \subseteq Requests
      BY DEF C!Missing
    <3>3. Cardinality(C!Missing(i)') <= Cardinality(Requests) /\ Cardinality(C!Missing(i)') \in Nat
          /\ Cardinality(Requests) \in Nat
      BY <3>2, RequestsAssumption, FS_Subset, FS_CardinalityType
    <3> QED BY <2>0, <3>1, <3>3, CodesAssumption DEF Guesses
  <2>2. CASE ~(c.step = "miss" /\ c.row = i)
    <3>1. C!Missing(i)' \subseteq C!Missing(i)
      BY <1>1, <2>2 DEF C!Missing, C!At
    <3>2. Cardinality(C!Missing(i)') <= Cardinality(C!Missing(i)) /\ Cardinality(C!Missing(i)') \in Nat
      BY <3>1, RacersCount, FS_Subset, FS_CardinalityType
    <3> QED BY <2>0, <3>2, RacersCount, CodesAssumption DEF Guesses
  <2> QED BY <2>1, <2>2
<1>5. ASSUME NEW i \in DOMAIN codes PROVE Uses(i)' <= Cardinality(Requests)
  <2>0. Uses(i) <= Cardinality(Requests) /\ codes[i].passed \in Nat
    BY RowsAre
  <2>1. CASE c.step = "pass" /\ c.row = i
    <3>1. codes[i].passed = 0
      BY <2>1 DEF CodesInv, RowsHeld
    <3>2. C!Passing(i)' \subseteq Requests
      BY DEF C!Passing
    <3>3. Cardinality(C!Passing(i)') <= Cardinality(Requests) /\ Cardinality(C!Passing(i)') \in Nat
      BY <3>2, RequestsAssumption, FS_Subset, FS_CardinalityType
    <3> QED BY <2>0, <3>1, <3>3 DEF Uses
  <2>2. CASE ~(c.step = "pass" /\ c.row = i)
    <3>1. C!Passing(i)' \subseteq C!Passing(i)
      BY <1>1, <2>2 DEF C!Passing, C!At
    <3>2. Cardinality(C!Passing(i)') <= Cardinality(C!Passing(i)) /\ Cardinality(C!Passing(i)') \in Nat
      BY <3>1, RacersCount, FS_Subset, FS_CardinalityType
    <3> QED BY <2>0, <3>2, RacersCount DEF Uses
  <2> QED BY <2>1, <2>2
<1>6. C!CodeRacesBounded'
  BY <1>3, <1>4, <1>5, RacesWillBe
<1> QED BY <1>2, <1>6 DEF CodesInv

\* A row changes to c, and the request r, if it was at the second statement of that
\* row's check, is done with it: what it adds to the row it leaves as a racer.
LEMMA RowKeepsCodes ==
  ASSUME CodesInv, NEW i \in DOMAIN codes, NEW c \in C!Code, c.box = codes[i].box,
         codes' = [codes EXCEPT ![i] = c],
         c.state = "usable" => codes[i].state = "usable" /\ c.passed = codes[i].passed,
         checks' \in [Requests -> C!Check],
         \A q \in Requests : checks'[q] = checks[q] \/ checks'[q] = C!Idle,
         c.attempts + Cardinality(C!Missing(i)') <= Guesses(i),
         c.passed + Cardinality(C!Passing(i)') <= Uses(i)
  PROVE  CodesInv'
<1>1. /\ codes' \in Seq(C!Code) /\ Len(codes') = Len(codes) /\ DOMAIN codes' = DOMAIN codes
      /\ \A j \in DOMAIN codes : codes'[j] = IF j = i THEN c ELSE codes[j]
      /\ \A j \in DOMAIN codes : codes'[j].box = codes[j].box
  BY RowStep
<1>2. C!TypeOK'
  BY <1>1 DEF CodesInv, C!TypeOK
<1>3. RowsHeld'
  <2>1. \A q \in Requests : checks'[q].step \in {"mail", "withdraw", "miss", "pass"} =>
            checks'[q].row \in DOMAIN codes'
    BY <1>1, CodesIdle DEF CodesInv, RowsHeld
  <2>2. \A j \in DOMAIN codes' : codes'[j].state = "usable" => codes'[j].passed = 0
    BY <1>1 DEF CodesInv, RowsHeld
  <2> QED BY <2>1, <2>2 DEF RowsHeld
<1>4. C!CodesProveBox'
  <2>1. C!CodesProveBox
    BY DEF CodesInv, C!CodeRacesBounded
  <2>2. ASSUME NEW q \in Requests, checks'[q].step \in {"miss", "pass"}
        PROVE  /\ checks'[q].row \in DOMAIN codes' /\ codes'[checks'[q].row].box = checks'[q].box
               /\ checks'[q].step = "pass" => checks'[q].guess = checks'[q].row
    <3>1. checks'[q] = checks[q]
      BY <2>2, CodesIdle
    <3>2. /\ checks[q].row \in DOMAIN codes /\ codes[checks[q].row].box = checks[q].box
          /\ checks[q].step = "pass" => checks[q].guess = checks[q].row
      BY <2>1, <2>2, <3>1 DEF C!CodesProveBox, C!Row, C!At
    <3> QED BY <1>1, <3>1, <3>2
  <2> QED BY <2>2 DEF C!CodesProveBox, C!Row, C!At
<1>5. ASSUME NEW j \in DOMAIN codes
      PROVE  /\ Guesses(j)' < MaxAttempts + Cardinality(Requests)
             /\ Uses(j)' <= Cardinality(Requests)
  <2>0. /\ Guesses(j) < MaxAttempts + Cardinality(Requests) /\ codes[j].attempts \in Nat
        /\ Uses(j) <= Cardinality(Requests) /\ codes[j].passed \in Nat
    BY RowsAre
  <2>1. c.attempts \in Nat /\ c.passed \in Nat
    BY DEF C!Code
  <2>2. C!Missing(j)' \subseteq C!Missing(j) /\ C!Passing(j)' \subseteq C!Passing(j)
    BY CodesIdle DEF C!Missing, C!Passing, C!At
  <2>3. /\ Cardinality(C!Missing(j)') <= Cardinality(C!Missing(j))
        /\ Cardinality(C!Missing(j)') \in Nat
        /\ Cardinality(C!Passing(j)') <= Cardinality(C!Passing(j))
        /\ Cardinality(C!Passing(j)') \in Nat
    BY <2>2, RacersCount, FS_Subset, FS_CardinalityType
  <2>4. CASE j = i
    <3>1. codes'[i] = c /\ i \in DOMAIN codes
      BY <1>1
    <3>2. Guesses(i)' <= Guesses(i) /\ Uses(i)' <= Uses(i)
      BY <3>1 DEF Guesses, Uses
    <3>3. /\ Guesses(i) \in Nat /\ Uses(i) \in Nat /\ Cardinality(Requests) \in Nat
          /\ Guesses(i)' \in Nat /\ Uses(i)' \in Nat
      BY <2>0, <2>1, <2>3, <2>4, <3>1, RacersCount DEF Guesses, Uses
    <3> QED BY <2>0, <2>4, <3>2, <3>3, CodesAssumption
  <2>5. CASE j # i
    <3>1. codes'[j] = codes[j]
      BY <1>1, <2>5
    <3> QED BY <2>0, <2>3, <3>1, RacersCount, CodesAssumption DEF Guesses, Uses
  <2> QED BY <2>4, <2>5
<1>6. C!CodeRacesBounded'
  BY <1>1, <1>4, <1>5, RacesWillBe
<1> QED BY <1>2, <1>3, <1>6 DEF CodesInv

\* SendCode: a row is inserted behind the others, and mailed, or taken back.
LEMMA SendKeepsCodes ==
  ASSUME CodesInv, NEW r \in Requests, NEW b \in Boxes, C!Send(r, b)
  PROVE  CodesInv'
<1> DEFINE row == [box |-> b, attempts |-> 0, state |-> "usable", passed |-> 0]
           c == [C!Idle EXCEPT !.step = "mail", !.box = b, !.row = Len(codes) + 1]
<1>0. row \in C!Code /\ row.state = "usable" /\ row.passed = 0 /\ row.attempts = 0
  BY DEF C!Code
<1>1. codes \in Seq(C!Code) /\ codes' = Append(codes, row) /\ Len(codes) < MaxCodes
  BY DEF CodesInv, C!TypeOK, C!Send
<1>2. c \in C!Check /\ c.step = "mail" /\ c.row = Len(codes) + 1
  <2>1. Len(codes) + 1 \in 0 .. MaxCodes
    BY <1>1, CodesAssumption
  <2> QED BY <2>1, CodesIdle DEF C!Check
<1>3. checks' = [checks EXCEPT ![r] = c]
  BY DEF C!Send, C!Goes
<1> HIDE DEF row, c
<1>4. /\ codes' \in Seq(C!Code) /\ Len(codes') = Len(codes) + 1
      /\ \A i \in DOMAIN codes : codes'[i] = codes[i]
      /\ codes'[Len(codes) + 1] = row
      /\ DOMAIN codes = 1 .. Len(codes) /\ DOMAIN codes' = 1 .. (Len(codes) + 1)
      /\ Len(codes) \in Nat
  BY <1>0, <1>1, AppendProperties
<1>5. \A i \in DOMAIN codes' : i \in DOMAIN codes \/ i = Len(codes) + 1
  BY <1>4
<1>6. \A q \in Requests : checks'[q] = IF q = r THEN c ELSE checks[q]
  BY <1>3 DEF CodesInv, C!TypeOK
<1>7. C!TypeOK'
  BY <1>1, <1>2, <1>3, <1>4, CodesAssumption DEF CodesInv, C!TypeOK
<1>8. RowsHeld'
  <2>1. \A q \in Requests : checks'[q].step \in {"mail", "withdraw", "miss", "pass"} =>
            checks'[q].row \in DOMAIN codes'
    BY <1>2, <1>4, <1>6 DEF CodesInv, RowsHeld
  <2>2. \A i \in DOMAIN codes' : codes'[i].state = "usable" => codes'[i].passed = 0
    BY <1>0, <1>4, <1>5 DEF CodesInv, RowsHeld
  <2> QED BY <2>1, <2>2 DEF RowsHeld
<1>9. C!CodesProveBox'
  <2>1. C!CodesProveBox
    BY DEF CodesInv, C!CodeRacesBounded
  <2>2. ASSUME NEW q \in Requests, checks'[q].step \in {"miss", "pass"}
        PROVE  /\ checks'[q].row \in DOMAIN codes' /\ codes'[checks'[q].row].box = checks'[q].box
               /\ checks'[q].step = "pass" => checks'[q].guess = checks'[q].row
    <3>1. checks'[q] = checks[q]
      BY <1>2, <1>6, <2>2
    <3>2. /\ checks[q].row \in DOMAIN codes /\ codes[checks[q].row].box = checks[q].box
          /\ checks[q].step = "pass" => checks[q].guess = checks[q].row
      BY <2>1, <2>2, <3>1 DEF C!CodesProveBox, C!Row, C!At
    <3> QED BY <1>4, <3>1, <3>2
  <2> QED BY <2>2 DEF C!CodesProveBox, C!Row, C!At
<1>10. \A i : C!Missing(i)' \subseteq C!Missing(i) /\ C!Passing(i)' \subseteq C!Passing(i)
  BY <1>2, <1>6 DEF C!Missing, C!Passing, C!At
<1>11. ASSUME NEW i \in DOMAIN codes'
       PROVE  /\ Guesses(i)' < MaxAttempts + Cardinality(Requests)
              /\ Uses(i)' <= Cardinality(Requests)
  <2>1. /\ Cardinality(C!Missing(i)') <= Cardinality(C!Missing(i))
        /\ Cardinality(C!Missing(i)') \in Nat
        /\ Cardinality(C!Passing(i)') <= Cardinality(C!Passing(i))
        /\ Cardinality(C!Passing(i)') \in Nat
    BY <1>10, RacersCount, FS_Subset, FS_CardinalityType
  <2>2. CASE i \in DOMAIN codes
    <3>1. codes'[i] = codes[i]
      BY <1>4, <2>2
    <3> QED BY <2>1, <2>2, <3>1, RowsAre, RacersCount, CodesAssumption DEF Guesses, Uses
  <2>3. CASE i = Len(codes) + 1
    <3>1. codes'[i].attempts = 0 /\ codes'[i].passed = 0
      BY <1>0, <1>4, <2>3
    <3> QED BY <2>1, <3>1, RacersCount, CodesAssumption DEF Guesses, Uses
  <2> QED BY <1>5, <2>2, <2>3
<1>12. C!CodeRacesBounded'
  BY <1>9, <1>11, RacesWillBe
<1> QED BY <1>7, <1>8, <1>12 DEF CodesInv

\* A request that ends, or goes on without a row changing.
LEMMA RequestKeepsCodes ==
  ASSUME CodesInv, NEW r \in Requests,
         \/ \E b \in Boxes : C!Begin(r, b)
         \/ C!MailLeaves(r) \/ C!MailFails(r) \/ C!Select(r) \/ C!Refuse(r)
         \/ C!StatementFails(r)
  PROVE  CodesInv'
<1>0. checks[r] \in C!Check /\ codes \in Seq(C!Code) /\ Len(codes) <= MaxCodes
  BY DEF CodesInv, C!TypeOK
<1>1. ASSUME NEW b \in Boxes, C!Begin(r, b) PROVE CodesInv'
  <2>1. PICK g \in {0} \cup {i \in DOMAIN codes : codes[i].box = b} :
             C!Goes(r, [C!Idle EXCEPT !.step = "select", !.box = b, !.guess = g])
    BY <1>1 DEF C!Begin
  <2>2. g \in 0 .. MaxCodes
    BY <1>0, <2>1, CodesAssumption
  <2> DEFINE c == [C!Idle EXCEPT !.step = "select", !.box = b, !.guess = g]
  <2>3. c \in C!Check /\ c.step = "select"
    BY <2>2, CodesIdle DEF C!Check
  <2>4. C!Goes(r, c) /\ UNCHANGED codes
    BY <1>1, <2>1 DEF C!Begin
  <2> HIDE DEF c
  <2> QED BY <2>3, <2>4, GoesKeepsCodes
<1>2. ASSUME C!Ends(r), UNCHANGED codes PROVE CodesInv'
  BY <1>2, CodesIdle, GoesKeepsCodes DEF C!Ends
<1>3. CASE C!MailFails(r)
  <2> DEFINE c == [checks[r] EXCEPT !.step = "withdraw"]
  <2>1. c \in C!Check /\ c.step = "withdraw" /\ c.row = checks[r].row
    BY <1>0 DEF C!Check
  <2>2. C!Goes(r, c) /\ UNCHANGED codes /\ checks[r].step = "mail"
    BY <1>3 DEF C!MailFails, C!At
  <2>3. c.row \in DOMAIN codes
    BY <2>1, <2>2 DEF CodesInv, RowsHeld
  <2> HIDE DEF c
  <2> QED BY <2>1, <2>2, <2>3, GoesKeepsCodes
<1>4. CASE C!Select(r)
  <2>1. PICK i \in DOMAIN codes :
           /\ C!Newest(i, checks[r].box) /\ C!Guessable(i)
           /\ C!Goes(r, [checks[r] EXCEPT
                  !.row = i, !.step = IF checks[r].guess = i THEN "pass" ELSE "miss"])
    BY <1>4 DEF C!Select
  <2>2. i \in 0 .. MaxCodes
    BY <1>0, CodesAssumption
  <2> DEFINE c == [checks[r] EXCEPT
                     !.row = i, !.step = IF checks[r].guess = i THEN "pass" ELSE "miss"]
  <2>3. /\ c \in C!Check /\ c.row = i /\ c.box = checks[r].box /\ c.guess = checks[r].guess
        /\ c.step = IF checks[r].guess = i THEN "pass" ELSE "miss"
    BY <1>0, <2>2 DEF C!Check
  <2>4. C!Goes(r, c) /\ UNCHANGED codes
    BY <1>4, <2>1 DEF C!Select
  <2> HIDE DEF c
  <2>5. /\ codes[i].state = "usable" /\ codes[i].box = checks[r].box
        /\ codes[i].attempts < MaxAttempts
    BY <2>1 DEF C!Newest, C!Usable, C!Guessable
  <2> QED BY <2>3, <2>4, <2>5, GoesKeepsCodes
<1> QED BY <1>1, <1>2, <1>3, <1>4 DEF C!MailLeaves, C!Refuse, C!StatementFails

\* A row is withdrawn, expires, counts a miss or is passed.
LEMMA RowKeeps ==
  ASSUME CodesInv, NEW r \in Requests,
         C!Withdraw(r) \/ C!CountMiss(r) \/ C!Pass(r)
  PROVE  CodesInv'
<1>a. PICK i : i = checks[r].row
  OBVIOUS
<1>0. C!Ends(r) /\ i \in DOMAIN codes
  BY <1>a DEF C!Withdraw, C!CountMiss, C!Pass, C!At, CodesInv, RowsHeld
<1>1. /\ checks' \in [Requests -> C!Check]
      /\ \A q \in Requests : checks'[q] = IF q = r THEN C!Idle ELSE checks[q]
      /\ \A j : C!Missing(j)' = C!Missing(j) \ {r} /\ C!Passing(j)' = C!Passing(j) \ {r}
  BY <1>0, EndShrinks DEF CodesInv
<1>2. /\ codes[i] \in C!Code /\ codes[i].attempts \in Nat /\ codes[i].passed \in Nat
  BY <1>0, RowsAre
<1>b. C!Missing(i)' = C!Missing(i) \ {r} /\ C!Passing(i)' = C!Passing(i) \ {r}
  BY <1>1
<1>3. /\ Cardinality(C!Missing(i)') <= Cardinality(C!Missing(i))
      /\ Cardinality(C!Passing(i)') <= Cardinality(C!Passing(i))
      /\ Cardinality(C!Missing(i)') \in Nat /\ Cardinality(C!Passing(i)') \in Nat
      /\ r \in C!Missing(i) => Cardinality(C!Missing(i)') = Cardinality(C!Missing(i)) - 1
      /\ r \in C!Passing(i) => Cardinality(C!Passing(i)') = Cardinality(C!Passing(i)) - 1
      /\ Cardinality(C!Missing(i)) \in Nat /\ Cardinality(C!Passing(i)) \in Nat
  BY <1>b, RacersCount, FS_RemoveElement, FS_Subset, FS_CardinalityType
<1>4. CASE C!Withdraw(r)
  <2>1. CASE UNCHANGED codes
    BY <1>0, <2>1, CodesIdle, GoesKeepsCodes DEF C!Ends
  <2>2. CASE codes' = [codes EXCEPT ![i].state = "gone"]
    <3> DEFINE c == [codes[i] EXCEPT !.state = "gone"]
    <3>1. /\ c \in C!Code /\ c.box = codes[i].box /\ c.state = "gone"
          /\ c.attempts = codes[i].attempts /\ c.passed = codes[i].passed
      BY <1>2 DEF C!Code
    <3>2. codes' = [codes EXCEPT ![i] = c]
      BY <2>2
    <3> HIDE DEF c
    <3>3. /\ c.attempts + Cardinality(C!Missing(i)') <= Guesses(i)
          /\ c.passed + Cardinality(C!Passing(i)') <= Uses(i)
      BY <1>2, <1>3, <3>1 DEF Guesses, Uses
    <3> QED BY <1>0, <1>1, <3>1, <3>2, <3>3, RowKeepsCodes
  <2> QED BY <1>a, <1>4, <2>1, <2>2 DEF C!Withdraw
<1>5. CASE C!CountMiss(r)
  <2> DEFINE c == [codes[i] EXCEPT !.attempts = codes[i].attempts + 1]
  <2>1. /\ c \in C!Code /\ c.box = codes[i].box /\ c.state = codes[i].state
        /\ c.attempts = codes[i].attempts + 1 /\ c.passed = codes[i].passed
    BY <1>2 DEF C!Code
  <2>2. codes' = [codes EXCEPT ![i] = c] /\ r \in C!Missing(i)
    BY <1>0, <1>a, <1>5 DEF C!CountMiss, C!Missing
  <2> HIDE DEF c
  <2>3. c.attempts + Cardinality(C!Missing(i)') <= Guesses(i)
    BY <1>2, <1>3, <2>1, <2>2 DEF Guesses
  <2>4. c.passed + Cardinality(C!Passing(i)') <= Uses(i)
    BY <1>2, <1>3, <2>1 DEF Uses
  <2> QED BY <1>0, <1>1, <2>1, <2>2, <2>3, <2>4, RowKeepsCodes
<1>6. CASE C!Pass(r)
  <2>0. PICK s \in {"used", "gone"} :
             s = IF codes[i].state = "gone" THEN codes[i].state ELSE "used"
    OBVIOUS
  <2> DEFINE c == [codes[i] EXCEPT !.passed = codes[i].passed + 1, !.state = s]
  <2>1. /\ c \in C!Code /\ c.box = codes[i].box /\ c.state # "usable"
        /\ c.attempts = codes[i].attempts /\ c.passed = codes[i].passed + 1
    <3>1. codes[i].passed + 1 \in Nat /\ s \in {"usable", "used", "gone"}
      BY <1>2
    <3> QED BY <1>2, <3>1 DEF C!Code
  <2>2. codes' = [codes EXCEPT ![i] = c] /\ r \in C!Passing(i)
    <3>1. codes' = [codes EXCEPT ![i] =
                       [codes[i] EXCEPT !.passed = codes[i].passed + 1,
                                        !.state = IF codes[i].state = "gone"
                                                  THEN codes[i].state ELSE "used"]]
      BY <1>a, <1>6 DEF C!Pass, C!Row
    <3>2. r \in C!Passing(i)
      BY <1>a, <1>6 DEF C!Pass, C!Passing
    <3> QED BY <2>0, <3>1, <3>2
  <2> HIDE DEF c
  <2>3. c.attempts + Cardinality(C!Missing(i)') <= Guesses(i)
    BY <1>2, <1>3, <2>1 DEF Guesses
  <2>4. c.passed + Cardinality(C!Passing(i)') <= Uses(i)
    BY <1>2, <1>3, <2>1, <2>2 DEF Uses
  <2> QED BY <1>0, <1>1, <2>1, <2>2, <2>3, <2>4, RowKeepsCodes
<1> QED BY <1>4, <1>5, <1>6

LEMMA ExpireKeepsCodes ==
  ASSUME CodesInv, NEW i \in DOMAIN codes, C!Expire(i)
  PROVE  CodesInv'
<1> DEFINE c == [codes[i] EXCEPT !.state = "gone"]
<1>1. codes[i] \in C!Code /\ codes[i].attempts \in Nat /\ codes[i].passed \in Nat
  BY RowsAre
<1>2. /\ c \in C!Code /\ c.box = codes[i].box /\ c.state = "gone"
      /\ c.attempts = codes[i].attempts /\ c.passed = codes[i].passed
  BY <1>1 DEF C!Code
<1>3. codes' = [codes EXCEPT ![i] = c] /\ checks' = checks
  BY DEF C!Expire
<1> HIDE DEF c
<1>4. C!Missing(i)' = C!Missing(i) /\ C!Passing(i)' = C!Passing(i)
  BY <1>3 DEF C!Missing, C!Passing, C!At
<1>5. checks' \in [Requests -> C!Check]
  BY <1>3 DEF CodesInv, C!TypeOK
<1>6. /\ c.attempts + Cardinality(C!Missing(i)') <= Guesses(i)
      /\ c.passed + Cardinality(C!Passing(i)') <= Uses(i)
  BY <1>1, <1>2, <1>4, RacersCount DEF Guesses, Uses
<1> QED BY <1>2, <1>3, <1>5, <1>6, RowKeepsCodes

LEMMA CodesStep == ASSUME CodesInv, C!Next PROVE CodesInv'
BY SendKeepsCodes, RequestKeepsCodes, RowKeeps, ExpireKeepsCodes DEF C!Next

-----------------------------------------------------------------------------
(* Sessions and grants                                                     *)

\* What a request with the local variables v knows of given tokens and grants: the
\* grant it redeemed, if it is still there, belongs to a session of its user, and
\* the session it signs out has no grant any more.
VisitSound(v, toks, grs) ==
    /\ v.grant # None => v.step \in {"granted", "undo"}
    /\ v.step \in {"granted", "undo"} => v.grant \in Grants
    /\ v.step = "granted" /\ grs[v.grant] # S!NoGrant =>
          /\ grs[v.grant].client = "mesh"
          /\ toks[grs[v.grant].parent].user = v.user
          /\ toks[grs[v.grant].parent].epoch = v.epoch
    /\ v.step = "logout" => v.token \in Tokens /\ toks[v.token].grant = None
    /\ v.step \in {"verified", "granted", "revoke"} => v.user \in Users

\* Only project sessions have a grant, and only logins are parents of grants.
TokensSound ==
    /\ \A t \in Tokens : tokens[t].name # "sso" => tokens[t].grant = None
    /\ \A g \in Grants : S!Granted(g) => tokens[grants[g].parent].name = "login"

SessionsInv ==
    /\ S!TypeOK /\ TokensSound
    /\ \A r \in Requests : VisitSound(visits[r], tokens, grants)
    /\ S!ProjectSessionsBacked /\ S!GrantsInUse /\ S!ResetEndsSessions

LEMMA SessionsIdle ==
  /\ S!Idle \in S!Visit /\ S!Idle.step = "idle" /\ S!Idle.grant = None
  /\ S!NoToken.grant = None /\ S!NoToken.name = "none" /\ S!NoToken.user = None
  /\ S!NoGrant.client = "none"
BY DEF S!Idle, S!Visit, S!NoToken, S!NoGrant

LEMMA IdleVisitSound ==
  ASSUME NEW toks, NEW grs, NEW v, v.step = "idle", v.grant = None
  PROVE  VisitSound(v, toks, grs)
BY DEF VisitSound

\* The rows of a table.
LEMMA TokenIs ==
  ASSUME S!TypeOK, NEW t \in Tokens
  PROVE  /\ ~S!Valid(t) => tokens[t] = S!NoToken
         /\ S!Valid(t) => /\ tokens[t] \in S!Token /\ tokens[t].user \in Users
                          /\ tokens[t].name \in {"login", "setup", "sso"}
                          /\ tokens[t].epoch \in Nat
         /\ tokens[t].name \in {"login", "setup", "sso"} => S!Valid(t)
         /\ tokens[t].user \in Users => S!Valid(t)
<1>1. tokens[t] \in S!Token \cup {S!NoToken}
  BY DEF S!TypeOK
<1>2. \A k \in S!Token : /\ k.user \in Users /\ k.name \in {"login", "setup", "sso"} /\ k.epoch \in Nat
                         /\ k # S!NoToken
  BY SessionsIdle DEF S!Token
<1> QED BY <1>1, <1>2, SessionsIdle, SessionsAssumption DEF S!Valid

LEMMA GrantIs ==
  ASSUME S!TypeOK, NEW g \in Grants
  PROVE  /\ ~S!Granted(g) => grants[g] = S!NoGrant
         /\ S!Granted(g) => grants[g].parent \in Tokens /\ grants[g].client \in {"mesh", "app"}
         /\ grants[g].client \in {"mesh", "app"} => S!Granted(g)
<1>1. grants[g] \in S!Grant \cup {S!NoGrant}
  BY DEF S!TypeOK
<1>2. \A k \in S!Grant : k.parent \in Tokens /\ k.client \in {"mesh", "app"}
  BY DEF S!Grant
<1> QED BY <1>1, <1>2, SessionsIdle DEF S!Granted

LEMMA SessionsInit == S!Init => SessionsInv
<1> SUFFICES ASSUME S!Init PROVE SessionsInv
  OBVIOUS
<1>1. /\ \A u \in Users : epoch[u] = 0
      /\ \A t \in Tokens : tokens[t] = S!NoToken
      /\ \A g \in Grants : grants[g] = S!NoGrant
      /\ \A r \in Requests : visits[r] = S!Idle
  BY DEF S!Init
<1>2. S!TypeOK
  <2>1. 0 \in 0 .. MaxResets
    BY SessionsAssumption
  <2> QED BY <2>1, SessionsIdle DEF S!Init, S!TypeOK
<1>3. TokensSound
  BY <1>1, SessionsIdle DEF TokensSound, S!Granted
<1>4. \A r \in Requests : VisitSound(visits[r], tokens, grants)
  <2>1. \A r \in Requests : visits[r].step = "idle" /\ visits[r].grant = None
    BY <1>1, SessionsIdle
  <2> QED BY <2>1 DEF VisitSound
<1>5. S!ProjectSessionsBacked /\ S!GrantsInUse /\ S!ResetEndsSessions
  BY <1>1, SessionsIdle
     DEF S!ProjectSessionsBacked, S!GrantsInUse, S!ResetEndsSessions, S!Valid
<1> QED BY <1>2, <1>3, <1>4, <1>5 DEF SessionsInv

\* The grants that go with the tokens T and the grants D.
Gone(T, D) == D \cup {g \in Grants : S!Granted(g) /\ grants[g].parent \in T}

\* What DELETE and its cascade leave.
LEMMA DeletedIs ==
  ASSUME S!TypeOK, NEW T \in SUBSET Tokens, NEW D \in SUBSET Grants, S!Deleted(T, D)
  PROVE  /\ \A g \in Grants : grants'[g] = IF g \in Gone(T, D) THEN S!NoGrant ELSE grants[g]
         /\ \A t \in Tokens : tokens'[t] = IF t \in T \/ tokens[t].grant \in Gone(T, D)
                                           THEN S!NoToken ELSE tokens[t]
         /\ leaked' = leaked \ Gone(T, D)
         /\ grants' \in [Grants -> S!Grant \cup {S!NoGrant}]
         /\ tokens' \in [Tokens -> S!Token \cup {S!NoToken}]
         /\ Gone(T, D) \subseteq Grants
BY DEF S!Deleted, Gone, S!TypeOK

\* A token with rows in use survives with the row of its parent.
LEMMA ParentStays ==
  ASSUME SessionsInv, NEW T \in SUBSET Tokens, NEW D \in SUBSET Grants, S!Deleted(T, D),
         NEW g \in Grants, grants'[g] # S!NoGrant
  PROVE  /\ grants'[g] = grants[g] /\ grants[g].parent \in Tokens /\ S!Granted(g)
         /\ tokens'[grants[g].parent] = tokens[grants[g].parent]
         /\ tokens[grants[g].parent].name = "login"
<1>0. S!TypeOK /\ TokensSound
  BY DEF SessionsInv
<1>a. /\ grants'[g] = IF g \in Gone(T, D) THEN S!NoGrant ELSE grants[g]
      /\ \A t \in Tokens : tokens'[t] = IF t \in T \/ tokens[t].grant \in Gone(T, D)
                                       THEN S!NoToken ELSE tokens[t]
  BY <1>0, DeletedIs
<1>1. g \notin Gone(T, D) /\ grants'[g] = grants[g] /\ S!Granted(g)
  BY <1>a DEF S!Granted
<1>2. grants[g].parent \in Tokens /\ grants[g].parent \notin T
  BY <1>0, <1>1, GrantIs DEF Gone
<1>3. tokens[grants[g].parent].name = "login" /\ tokens[grants[g].parent].grant = None
  BY <1>0, <1>1, <1>2 DEF TokensSound
<1>4. tokens[grants[g].parent].grant \notin Gone(T, D)
  <2>1. Gone(T, D) \subseteq Grants
    BY DEF Gone
  <2> QED BY <1>3, <2>1, SessionsAssumption
<1>5. tokens'[grants[g].parent] = tokens[grants[g].parent]
  BY <1>a, <1>2, <1>4
<1> QED BY <1>1, <1>2, <1>3, <1>5

\* A request keeps what it knows through a deletion.
LEMMA DeletedSound ==
  ASSUME SessionsInv, NEW T \in SUBSET Tokens, NEW D \in SUBSET Grants, S!Deleted(T, D),
         NEW v \in S!Visit, VisitSound(v, tokens, grants)
  PROVE  VisitSound(v, tokens', grants')
<1>0. S!TypeOK
  BY DEF SessionsInv
<1>1. ASSUME v.step = "granted", grants'[v.grant] # S!NoGrant
      PROVE  /\ grants'[v.grant].client = "mesh"
             /\ tokens'[grants'[v.grant].parent].user = v.user
             /\ tokens'[grants'[v.grant].parent].epoch = v.epoch
  <2>1. v.grant \in Grants
    BY <1>1 DEF VisitSound
  <2>2. /\ grants'[v.grant] = grants[v.grant] /\ S!Granted(v.grant)
        /\ tokens'[grants[v.grant].parent] = tokens[grants[v.grant].parent]
    BY <1>1, <2>1, ParentStays
  <2>3. /\ grants[v.grant].client = "mesh"
        /\ tokens[grants[v.grant].parent].user = v.user
        /\ tokens[grants[v.grant].parent].epoch = v.epoch
    BY <1>1, <2>2 DEF VisitSound, S!Granted
  <2> QED BY <2>2, <2>3
<1>2. v.step = "logout" => v.token \in Tokens /\ tokens'[v.token].grant = None
  BY <1>0, DeletedIs, SessionsIdle DEF VisitSound
<1> QED BY <1>1, <1>2 DEF VisitSound

\* A DELETE of tokens and of grants: nothing that stays hangs on what goes.  A token that
\* is deleted takes its grant along, and a request that lets go of a grant has deleted it.
LEMMA DeletedKeeps ==
  ASSUME SessionsInv, NEW T \in SUBSET Tokens, NEW D \in SUBSET Grants, S!Deleted(T, D),
         UNCHANGED epoch, visits' \in [Requests -> S!Visit],
         \A t \in T : tokens[t].grant # None => tokens[t].grant \in Gone(T, D),
         \A r \in Requests : visits'[r] = visits[r] \/
             /\ VisitSound(visits'[r], tokens', grants')
             /\ visits[r].grant # None => visits[r].grant \in Gone(T, D)
             /\ visits[r].step = "revoke" =>
                   \A t \in Tokens : tokens[t].user = visits[r].user => t \in T
  PROVE  SessionsInv'
<1>0. S!TypeOK
  BY DEF SessionsInv
<1>1. /\ \A g \in Grants : grants'[g] = IF g \in Gone(T, D) THEN S!NoGrant ELSE grants[g]
      /\ \A t \in Tokens : tokens'[t] = IF t \in T \/ tokens[t].grant \in Gone(T, D)
                                        THEN S!NoToken ELSE tokens[t]
      /\ leaked' = leaked \ Gone(T, D)
      /\ grants' \in [Grants -> S!Grant \cup {S!NoGrant}]
      /\ tokens' \in [Tokens -> S!Token \cup {S!NoToken}]
      /\ Gone(T, D) \subseteq Grants
  BY <1>0, DeletedIs
<1>2. S!TypeOK'
  BY <1>0, <1>1 DEF S!TypeOK
<1>3. \A t \in Tokens : \/ tokens'[t] = S!NoToken
                       \/ /\ tokens'[t] = tokens[t] /\ t \notin T
                          /\ tokens[t].grant \notin Gone(T, D)
  BY <1>1
<1>4. TokensSound'
  <2>1. \A t \in Tokens : tokens'[t].name # "sso" => tokens'[t].grant = None
    BY <1>3, SessionsIdle DEF SessionsInv, TokensSound
  <2>2. \A g \in Grants : grants'[g] # S!NoGrant => tokens'[grants'[g].parent].name = "login"
    BY ParentStays
  <2> QED BY <2>1, <2>2 DEF TokensSound, S!Granted
<1>5. \A r \in Requests : VisitSound(visits'[r], tokens', grants')
  <2> SUFFICES ASSUME NEW r \in Requests, visits'[r] = visits[r]
               PROVE  VisitSound(visits[r], tokens', grants')
    OBVIOUS
  <2>1. visits[r] \in S!Visit
    BY <1>0 DEF S!TypeOK
  <2>2. VisitSound(visits[r], tokens, grants)
    BY DEF SessionsInv
  <2> QED BY <2>1, <2>2, DeletedSound
<1>6. S!ProjectSessionsBacked'
  <2> SUFFICES ASSUME NEW t \in Tokens, tokens'[t].name = "sso"
               PROVE  /\ tokens'[t].grant \in Grants
                      /\ grants'[tokens'[t].grant].client = "mesh"
                      /\ tokens'[grants'[tokens'[t].grant].parent].name = "login"
                      /\ tokens'[grants'[tokens'[t].grant].parent].user = tokens'[t].user
    BY DEF S!ProjectSessionsBacked
  <2>1. tokens'[t] = tokens[t] /\ tokens[t].grant \notin Gone(T, D)
    BY <1>3, SessionsIdle
  <2>2. /\ tokens[t].grant \in Grants /\ grants[tokens[t].grant].client = "mesh"
        /\ tokens[grants[tokens[t].grant].parent].user = tokens[t].user
    BY <2>1 DEF SessionsInv, S!ProjectSessionsBacked
  <2>3. grants'[tokens[t].grant] = grants[tokens[t].grant]
    BY <1>1, <2>1, <2>2
  <2>4. grants'[tokens[t].grant] # S!NoGrant
    BY <2>2, <2>3, SessionsIdle
  <2>5. /\ tokens'[grants[tokens[t].grant].parent] = tokens[grants[tokens[t].grant].parent]
        /\ tokens[grants[tokens[t].grant].parent].name = "login"
    BY <2>2, <2>4, ParentStays
  <2> QED BY <2>1, <2>2, <2>3, <2>5
<1>7. S!GrantsInUse'
  <2> SUFFICES ASSUME NEW g \in Grants, grants'[g].client = "mesh"
               PROVE  \/ \E t \in Tokens : tokens'[t].grant = g
                      \/ \E r \in Requests : visits'[r].grant = g
                      \/ g \in leaked'
    BY DEF S!GrantsInUse
  <2>1. g \notin Gone(T, D) /\ grants[g].client = "mesh"
    BY <1>1, SessionsIdle
  <2>2. CASE \E t \in Tokens : tokens[t].grant = g
    <3>1. PICK t \in Tokens : tokens[t].grant = g
      BY <2>2
    <3>2. g # None
      BY SessionsAssumption
    <3>3. tokens'[t] = tokens[t]
      BY <1>1, <2>1, <3>1, <3>2
    <3> QED BY <3>1, <3>3
  <2>3. CASE \E r \in Requests : visits[r].grant = g
    <3>1. PICK r \in Requests : visits[r].grant = g
      BY <2>3
    <3>2. visits'[r] = visits[r]
      BY <2>1, <3>1, SessionsAssumption
    <3> QED BY <3>1, <3>2
  <2>4. CASE g \in leaked
    BY <1>1, <2>1, <2>4
  <2> QED BY <2>1, <2>2, <2>3, <2>4 DEF SessionsInv, S!GrantsInUse
<1>8. S!ResetEndsSessions'
  <2> SUFFICES ASSUME NEW t \in Tokens, tokens'[t] # S!NoToken,
                      tokens'[t].epoch < epoch'[tokens'[t].user]
               PROVE  \/ tokens'[t].stays
                      \/ \E r \in Requests : /\ visits'[r].step = "revoke"
                                             /\ visits'[r].user = tokens'[t].user
    BY DEF S!ResetEndsSessions, S!Valid, S!At
  <2>1. tokens'[t] = tokens[t] /\ t \notin T
    BY <1>3
  <2>2. \/ tokens[t].stays
        \/ \E r \in Requests : visits[r].step = "revoke" /\ visits[r].user = tokens[t].user
    BY <2>1 DEF SessionsInv, S!ResetEndsSessions, S!Valid, S!At
  <2>3. ASSUME NEW r \in Requests, visits[r].step = "revoke", visits[r].user = tokens[t].user
        PROVE  visits'[r] = visits[r]
    BY <2>1, <2>3
  <2> QED BY <2>1, <2>2, <2>3
<1> QED BY <1>2, <1>4, <1>5, <1>6, <1>7, <1>8 DEF SessionsInv

\* A token is drawn and inserted: nothing hangs on it yet.  A request that ends with it
\* hands its grant over to it, or has none.
LEMMA InsertKeeps ==
  ASSUME SessionsInv, NEW t \in Tokens, NEW row \in S!Token, S!InsertToken(t, row),
         UNCHANGED <<epoch, grants, leaked>>, visits' \in [Requests -> S!Visit],
         \A r \in Requests : visits'[r] = visits[r] \/
             /\ visits'[r] = S!Idle /\ visits[r].step # "revoke"
             /\ visits[r].grant # None => visits[r].grant = row.grant,
         row.name # "sso" => row.grant = None,
         row.name = "sso" =>
             /\ row.grant \in Grants /\ grants[row.grant].client = "mesh"
             /\ tokens[grants[row.grant].parent].user = row.user,
         row.epoch < epoch[row.user] =>
             \/ row.stays
             \/ \E r \in Requests : visits[r].step = "revoke" /\ visits[r].user = row.user
  PROVE  SessionsInv'
<1>0. S!TypeOK /\ TokensSound
  BY DEF SessionsInv
<1>1. /\ tokens' = [tokens EXCEPT ![t] = row] /\ ~S!Valid(t)
      /\ \A r \in Requests : visits[r].token # t
  BY DEF S!InsertToken
<1>2. \A s \in Tokens : tokens'[s] = IF s = t THEN row ELSE tokens[s]
  BY <1>0, <1>1 DEF S!TypeOK
<1>3. S!TypeOK'
  BY <1>0, <1>1 DEF S!TypeOK
<1>4. ASSUME NEW g \in Grants, S!Granted(g)
      PROVE  /\ grants[g].parent \in Tokens /\ tokens[grants[g].parent].name = "login"
             /\ tokens'[grants[g].parent] = tokens[grants[g].parent]
  <2>1. grants[g].parent \in Tokens /\ tokens[grants[g].parent].name = "login"
    BY <1>0, <1>4, GrantIs DEF TokensSound
  <2>2. grants[g].parent # t
    BY <1>0, <1>1, <2>1, TokenIs
  <2> QED BY <1>2, <2>1, <2>2
<1>5. TokensSound'
  <2>1. \A s \in Tokens : tokens'[s].name # "sso" => tokens'[s].grant = None
    BY <1>0, <1>2 DEF TokensSound
  <2>2. \A g \in Grants : grants'[g] # S!NoGrant => tokens'[grants'[g].parent].name = "login"
    BY <1>4 DEF S!Granted
  <2> QED BY <2>1, <2>2 DEF TokensSound, S!Granted
<1>6. \A r \in Requests : VisitSound(visits'[r], tokens', grants')
  <2> SUFFICES ASSUME NEW r \in Requests PROVE VisitSound(visits'[r], tokens', grants')
    OBVIOUS
  <2>1. CASE visits'[r] = S!Idle
    BY <2>1, SessionsIdle, IdleVisitSound
  <2>2. CASE visits'[r] = visits[r]
    <3>1. VisitSound(visits[r], tokens, grants) /\ visits[r].token # t
      BY <1>1 DEF SessionsInv
    <3>2. ASSUME visits[r].step = "granted", grants'[visits[r].grant] # S!NoGrant
          PROVE  /\ grants'[visits[r].grant].client = "mesh"
                 /\ tokens'[grants'[visits[r].grant].parent].user = visits[r].user
                 /\ tokens'[grants'[visits[r].grant].parent].epoch = visits[r].epoch
      <4>1. visits[r].grant \in Grants /\ S!Granted(visits[r].grant)
        BY <3>1, <3>2 DEF VisitSound, S!Granted
      <4>2. tokens'[grants[visits[r].grant].parent] = tokens[grants[visits[r].grant].parent]
        BY <1>4, <4>1
      <4> QED BY <3>1, <3>2, <4>2 DEF VisitSound
    <3>3. visits[r].step = "logout" =>
              visits[r].token \in Tokens /\ tokens'[visits[r].token].grant = None
      BY <1>2, <3>1 DEF VisitSound
    <3> QED BY <2>2, <3>1, <3>2, <3>3 DEF VisitSound
  <2> QED BY <2>1, <2>2
<1>7. S!ProjectSessionsBacked'
  <2> SUFFICES ASSUME NEW s \in Tokens, tokens'[s].name = "sso"
               PROVE  /\ tokens'[s].grant \in Grants
                      /\ grants'[tokens'[s].grant].client = "mesh"
                      /\ tokens'[grants'[tokens'[s].grant].parent].name = "login"
                      /\ tokens'[grants'[tokens'[s].grant].parent].user = tokens'[s].user
    BY DEF S!ProjectSessionsBacked
  <2>1. /\ tokens'[s].grant \in Grants /\ grants[tokens'[s].grant].client = "mesh"
        /\ tokens[grants[tokens'[s].grant].parent].user = tokens'[s].user
    <3>1. CASE s = t
      BY <1>2, <3>1
    <3>2. CASE s # t
      <4>1. tokens'[s] = tokens[s]
        BY <1>2, <3>2
      <4> QED BY <4>1 DEF SessionsInv, S!ProjectSessionsBacked
    <3> QED BY <3>1, <3>2
  <2>2. S!Granted(tokens'[s].grant)
    BY <1>0, <2>1, GrantIs
  <2> QED BY <1>4, <2>1, <2>2
<1>8. S!GrantsInUse'
  <2> SUFFICES ASSUME NEW g \in Grants, grants[g].client = "mesh"
               PROVE  \/ \E s \in Tokens : tokens'[s].grant = g
                      \/ \E r \in Requests : visits'[r].grant = g
                      \/ g \in leaked
    BY DEF S!GrantsInUse
  <2>0. g # None
    BY SessionsAssumption
  <2>1. CASE \E s \in Tokens : tokens[s].grant = g
    <3>1. PICK s \in Tokens : tokens[s].grant = g
      BY <2>1
    <3>2. s # t
      BY <1>0, <1>1, <2>0, <3>1, TokenIs, SessionsIdle
    <3> QED BY <1>2, <3>1, <3>2
  <2>2. CASE \E r \in Requests : visits[r].grant = g
    BY <1>2, <2>0, <2>2
  <2> QED BY <2>1, <2>2 DEF SessionsInv, S!GrantsInUse
<1>9. S!ResetEndsSessions'
  <2> SUFFICES ASSUME NEW s \in Tokens, tokens'[s] # S!NoToken,
                      tokens'[s].epoch < epoch[tokens'[s].user]
               PROVE  \/ tokens'[s].stays
                      \/ \E r \in Requests : /\ visits'[r].step = "revoke"
                                             /\ visits'[r].user = tokens'[s].user
    BY DEF S!ResetEndsSessions, S!Valid, S!At
  <2>1. \/ tokens'[s].stays
        \/ \E r \in Requests : visits[r].step = "revoke" /\ visits[r].user = tokens'[s].user
    <3>1. CASE s = t
      BY <1>2, <3>1
    <3>2. CASE s # t
      <4>1. tokens'[s] = tokens[s]
        BY <1>2, <3>2
      <4> QED BY <4>1 DEF SessionsInv, S!ResetEndsSessions, S!Valid, S!At
    <3> QED BY <3>1, <3>2
  <2> QED BY <2>1
<1> QED BY <1>3, <1>5, <1>6, <1>7, <1>8, <1>9 DEF SessionsInv

\* A request goes on with v, and only the passwords and the leaked grants change besides.
LEMMA VisitKeeps ==
  ASSUME SessionsInv, NEW r \in Requests, NEW v \in S!Visit, S!Goes(r, v),
         VisitSound(v, tokens, grants), UNCHANGED <<tokens, grants>>,
         epoch' \in [Users -> 0 .. MaxResets], leaked' \subseteq Grants, leaked \subseteq leaked',
         visits[r].grant # None =>
             v.grant = visits[r].grant \/ ~S!Granted(visits[r].grant) \/ visits[r].grant \in leaked',
         S!ResetEndsSessions'
  PROVE  SessionsInv'
<1>0. S!TypeOK
  BY DEF SessionsInv
<1>1. /\ visits' \in [Requests -> S!Visit]
      /\ \A q \in Requests : visits'[q] = IF q = r THEN v ELSE visits[q]
  BY <1>0 DEF S!TypeOK, S!Goes
<1>2. S!TypeOK' /\ TokensSound' /\ S!ProjectSessionsBacked'
  BY <1>0, <1>1
     DEF SessionsInv, S!TypeOK, TokensSound, S!ProjectSessionsBacked, S!Granted
<1>3. \A q \in Requests : VisitSound(visits'[q], tokens', grants')
  BY <1>1 DEF SessionsInv
<1>4. S!GrantsInUse'
  <2> SUFFICES ASSUME NEW g \in Grants, grants[g].client = "mesh"
               PROVE  \/ \E s \in Tokens : tokens[s].grant = g
                      \/ \E q \in Requests : visits'[q].grant = g
                      \/ g \in leaked'
    BY DEF S!GrantsInUse
  <2>1. g # None /\ S!Granted(g)
    BY <1>0, GrantIs, SessionsAssumption
  <2>2. CASE \E q \in Requests : visits[q].grant = g
    BY <1>1, <2>1, <2>2
  <2> QED BY <2>2 DEF SessionsInv, S!GrantsInUse
<1> QED BY <1>2, <1>3, <1>4 DEF SessionsInv

\* A grant is inserted for a login, and a request has it if it is the project's.
LEMMA ExchangeKeeps ==
  ASSUME SessionsInv, NEW g \in Grants, NEW t \in Tokens, NEW client \in {"mesh", "app"},
         S!Exchange(g, t, client), UNCHANGED <<epoch, tokens, leaked>>,
         visits' \in [Requests -> S!Visit],
         \A r \in Requests : visits'[r] = visits[r] \/
             /\ visits[r].step = "idle" /\ visits'[r].step = "granted" /\ visits'[r].grant = g
             /\ visits'[r].user = tokens[t].user /\ visits'[r].epoch = tokens[t].epoch
             /\ client = "mesh",
         client = "mesh" => \E r \in Requests : visits'[r].grant = g
  PROVE  SessionsInv'
<1>0. S!TypeOK /\ TokensSound
  BY DEF SessionsInv
<1> DEFINE row == [parent |-> t, client |-> client]
<1>1. /\ grants' = [grants EXCEPT ![g] = row] /\ ~S!Granted(g) /\ tokens[t].name = "login"
      /\ \A r \in Requests : visits[r].grant # g
  BY DEF S!Exchange, S!Resolve
<1>2. row \in S!Grant /\ row.parent = t /\ row.client = client
  BY DEF S!Grant
<1> HIDE DEF row
<1>3. /\ \A h \in Grants : grants'[h] = IF h = g THEN row ELSE grants[h]
      /\ grants' \in [Grants -> S!Grant \cup {S!NoGrant}]
  BY <1>0, <1>1, <1>2 DEF S!TypeOK
<1>4. S!TypeOK'
  BY <1>0, <1>3 DEF S!TypeOK
<1>5. TokensSound'
  BY <1>0, <1>1, <1>2, <1>3 DEF TokensSound, S!Granted
<1>6. \A r \in Requests : VisitSound(visits'[r], tokens', grants')
  <2> SUFFICES ASSUME NEW r \in Requests PROVE VisitSound(visits'[r], tokens, grants')
    OBVIOUS
  <2>1. CASE visits'[r] = visits[r]
    <3>1. VisitSound(visits[r], tokens, grants) /\ visits[r].grant # g
      BY <1>1 DEF SessionsInv
    <3>2. visits[r].grant \in Grants => grants'[visits[r].grant] = grants[visits[r].grant]
      BY <1>3, <3>1
    <3> QED BY <2>1, <3>1, <3>2 DEF VisitSound
  <2>2. CASE visits'[r] # visits[r]
    <3>1. /\ visits'[r].step = "granted" /\ visits'[r].grant = g /\ client = "mesh"
          /\ visits'[r].user = tokens[t].user /\ visits'[r].epoch = tokens[t].epoch
      BY <2>2
    <3>2. tokens[t].user \in Users
      BY <1>0, <1>1, TokenIs
    <3>3. grants'[g].client = "mesh" /\ grants'[g].parent = t
      BY <1>2, <1>3, <3>1
    <3> QED BY <3>1, <3>2, <3>3 DEF VisitSound
  <2> QED BY <2>1, <2>2
<1>7. S!ProjectSessionsBacked'
  <2> SUFFICES ASSUME NEW s \in Tokens, tokens[s].name = "sso"
               PROVE  /\ tokens[s].grant \in Grants
                      /\ grants'[tokens[s].grant].client = "mesh"
                      /\ tokens[grants'[tokens[s].grant].parent].name = "login"
                      /\ tokens[grants'[tokens[s].grant].parent].user = tokens[s].user
    BY DEF S!ProjectSessionsBacked
  <2>1. /\ tokens[s].grant \in Grants /\ grants[tokens[s].grant].client = "mesh"
        /\ tokens[grants[tokens[s].grant].parent].name = "login"
        /\ tokens[grants[tokens[s].grant].parent].user = tokens[s].user
    BY DEF SessionsInv, S!ProjectSessionsBacked
  <2>2. tokens[s].grant # g
    BY <1>0, <1>1, <2>1, GrantIs
  <2>3. grants'[tokens[s].grant] = grants[tokens[s].grant]
    BY <1>3, <2>1, <2>2
  <2> QED BY <2>1, <2>3
<1>8. S!GrantsInUse'
  <2> SUFFICES ASSUME NEW h \in Grants, grants'[h].client = "mesh"
               PROVE  \/ \E s \in Tokens : tokens[s].grant = h
                      \/ \E q \in Requests : visits'[q].grant = h
                      \/ h \in leaked
    BY DEF S!GrantsInUse
  <2>1. CASE h = g
    BY <1>2, <1>3, <2>1
  <2>2. CASE h # g
    <3>1. grants[h].client = "mesh" /\ h # None
      BY <1>3, <2>2, SessionsAssumption
    <3>2. \A q \in Requests : visits[q].grant = h => visits'[q].grant = h
      <4> SUFFICES ASSUME NEW q \in Requests, visits[q].grant = h, visits[q].step = "idle"
                   PROVE  FALSE
        OBVIOUS
      <4>1. VisitSound(visits[q], tokens, grants)
        BY DEF SessionsInv
      <4> QED BY <3>1, <4>1 DEF VisitSound
    <3> QED BY <3>1, <3>2 DEF SessionsInv, S!GrantsInUse
  <2> QED BY <2>1, <2>2
<1>9. S!ResetEndsSessions'
  <2> SUFFICES ASSUME NEW s \in Tokens, tokens[s] # S!NoToken,
                      tokens[s].epoch < epoch[tokens[s].user], ~tokens[s].stays
               PROVE  \E r \in Requests : /\ visits'[r].step = "revoke"
                                          /\ visits'[r].user = tokens[s].user
    BY DEF S!ResetEndsSessions, S!Valid, S!At
  <2>1. PICK r \in Requests : visits[r].step = "revoke" /\ visits[r].user = tokens[s].user
    BY DEF SessionsInv, S!ResetEndsSessions, S!Valid, S!At
  <2>2. visits'[r] = visits[r]
    BY <2>1
  <2> QED BY <2>1, <2>2
<1> QED BY <1>4, <1>5, <1>6, <1>7, <1>8, <1>9 DEF SessionsInv

\* Where passwords do not change and no reset ends, what a reset leaves behind stays.
LEMMA ResetKept ==
  ASSUME SessionsInv, UNCHANGED <<epoch, tokens>>,
         \A r \in Requests : visits[r].step = "revoke" => visits'[r] = visits[r]
  PROVE  S!ResetEndsSessions'
<1> SUFFICES ASSUME NEW t \in Tokens, tokens[t] # S!NoToken,
                    tokens[t].epoch < epoch[tokens[t].user], ~tokens[t].stays
             PROVE  \E r \in Requests : /\ visits'[r].step = "revoke"
                                        /\ visits'[r].user = tokens[t].user
  BY DEF S!ResetEndsSessions, S!Valid, S!At
<1>1. PICK r \in Requests : visits[r].step = "revoke" /\ visits[r].user = tokens[t].user
  BY DEF SessionsInv, S!ResetEndsSessions, S!Valid, S!At
<1> QED BY <1>1

\* The local variables of one request change.
LEMMA VisitGoes ==
  ASSUME S!TypeOK, NEW r \in Requests, NEW v \in S!Visit, S!Goes(r, v)
  PROVE  /\ visits' \in [Requests -> S!Visit]
         /\ \A q \in Requests : visits'[q] = IF q = r THEN v ELSE visits[q]
BY DEF S!TypeOK, S!Goes

\* Signing in.
LEMMA SignInKeeps ==
  ASSUME SessionsInv,
         \/ \E r \in Requests, u \in Users : S!VerifyPassword(r, u)
         \/ \E r \in Requests, t \in Tokens : S!SignIn(r, t)
         \/ \E t \in Tokens, u \in Users : S!GoogleSignIn(t, u)
  PROVE  SessionsInv'
<1>0. /\ S!TypeOK /\ \A u \in Users : epoch[u] \in Nat
      /\ \A r \in Requests : visits[r] \in S!Visit /\ VisitSound(visits[r], tokens, grants)
  BY SessionsAssumption DEF SessionsInv, S!TypeOK
<1>1. ASSUME NEW r \in Requests, NEW u \in Users, S!VerifyPassword(r, u) PROVE SessionsInv'
  <2> DEFINE v == [S!Idle EXCEPT !.step = "verified", !.user = u, !.epoch = epoch[u]]
  <2>1. v \in S!Visit /\ v.step = "verified" /\ v.user = u /\ v.grant = None
    BY <1>0, SessionsIdle DEF S!Visit
  <2>2. S!Goes(r, v) /\ visits[r].step = "idle" /\ UNCHANGED <<epoch, tokens, grants, leaked>>
    BY <1>1 DEF S!VerifyPassword, S!At, S!Nothing
  <2> HIDE DEF v
  <2>3. VisitSound(v, tokens, grants) /\ visits[r].grant = None
    BY <1>0, <2>1, <2>2 DEF VisitSound
  <2>4. S!ResetEndsSessions'
    BY <1>0, <2>1, <2>2, VisitGoes, ResetKept
  <2>5. epoch' \in [Users -> 0 .. MaxResets] /\ leaked' \subseteq Grants /\ leaked \subseteq leaked'
    BY <1>0, <2>2 DEF S!TypeOK
  <2> QED BY <2>1, <2>2, <2>3, <2>4, <2>5, VisitKeeps
<1>2. ASSUME NEW r \in Requests, NEW t \in Tokens, S!SignIn(r, t) PROVE SessionsInv'
  <2>1. PICK name \in {"login", "setup"} :
           S!InsertToken(t, [user |-> visits[r].user, name |-> name, epoch |-> visits[r].epoch,
                             grant |-> None, stays |-> visits[r].epoch # epoch[visits[r].user]])
    BY <1>2 DEF S!SignIn
  <2>2. /\ visits[r].step = "verified" /\ S!Goes(r, S!Idle) /\ UNCHANGED <<epoch, grants, leaked>>
    BY <1>2 DEF S!SignIn, S!At, S!Ends
  <2>3. visits[r].user \in Users /\ visits[r].grant = None /\ visits[r].epoch \in Nat
    BY <1>0, <2>2 DEF VisitSound, S!Visit
  <2>a. PICK b \in BOOLEAN : b = (visits[r].epoch # epoch[visits[r].user])
    OBVIOUS
  <2> DEFINE row == [user |-> visits[r].user, name |-> name, epoch |-> visits[r].epoch,
                     grant |-> None, stays |-> b]
  <2>4. /\ row \in S!Token /\ row.name # "sso" /\ row.grant = None
        /\ row.user = visits[r].user /\ row.epoch = visits[r].epoch /\ row.stays = b
    BY <2>3 DEF S!Token
  <2>5. S!InsertToken(t, row)
    BY <2>1, <2>a
  <2> HIDE DEF row
  <2>6. /\ visits' \in [Requests -> S!Visit]
        /\ \A q \in Requests : visits'[q] = IF q = r THEN S!Idle ELSE visits[q]
    BY <1>0, <2>2, SessionsIdle, VisitGoes
  <2>7. row.epoch < epoch[row.user] => row.stays
    <3> SUFFICES ASSUME row.epoch < epoch[row.user] PROVE b
      BY <2>4
    <3>1. epoch[visits[r].user] \in Nat /\ visits[r].epoch \in Nat
      BY <1>0, <2>3
    <3>2. visits[r].epoch < epoch[visits[r].user]
      BY <2>4
    <3>3. visits[r].epoch # epoch[visits[r].user]
      BY <3>1, <3>2
    <3> QED BY <2>a, <3>3
  <2> QED BY <2>2, <2>3, <2>4, <2>5, <2>6, <2>7, InsertKeeps
<1>3. ASSUME NEW t \in Tokens, NEW u \in Users, S!GoogleSignIn(t, u) PROVE SessionsInv'
  <2> DEFINE row == [user |-> u, name |-> "login", epoch |-> epoch[u],
                     grant |-> None, stays |-> FALSE]
  <2>1. /\ row \in S!Token /\ row.name = "login" /\ row.grant = None
        /\ row.user = u /\ row.epoch = epoch[u]
    BY <1>0 DEF S!Token
  <2>2. S!InsertToken(t, row) /\ UNCHANGED <<epoch, grants, leaked, visits>>
    BY <1>3 DEF S!GoogleSignIn
  <2> HIDE DEF row
  <2>3. visits' \in [Requests -> S!Visit] /\ visits' = visits
    BY <1>0, <2>2 DEF S!TypeOK
  <2>4. ~(row.epoch < epoch[row.user])
    BY <1>0, <2>1
  <2> QED BY <2>1, <2>2, <2>3, <2>4, InsertKeeps
<1> QED BY <1>1, <1>2, <1>3

\* The platform sign-in: redeeming a code, and inserting the project session.
LEMMA PlatformKeeps ==
  ASSUME SessionsInv,
         \/ \E r \in Requests, t \in Tokens, g \in Grants : S!Complete(r, g, t)
         \/ \E t \in Tokens, g \in Grants : S!AppExchange(g, t)
         \/ \E r \in Requests, t \in Tokens : S!CompleteInsert(r, t)
         \/ \E r \in Requests : S!CompleteFails(r)
  PROVE  SessionsInv'
<1>0. /\ S!TypeOK
      /\ \A r \in Requests : visits[r] \in S!Visit /\ VisitSound(visits[r], tokens, grants)
  BY DEF SessionsInv, S!TypeOK
<1>1. ASSUME NEW r \in Requests, NEW t \in Tokens, NEW g \in Grants, S!Complete(r, g, t)
      PROVE  SessionsInv'
  <2>0. /\ visits[r].step = "idle" /\ S!Exchange(g, t, "mesh")
        /\ S!Goes(r, [S!Idle EXCEPT !.step = "granted", !.user = tokens[t].user,
                                    !.epoch = tokens[t].epoch, !.grant = g])
        /\ UNCHANGED <<epoch, tokens, leaked>>
    BY <1>1 DEF S!Complete, S!At
  <2>1. tokens[t].user \in Users /\ tokens[t].epoch \in Nat
    BY <1>0, <2>0, TokenIs DEF S!Exchange, S!Resolve
  <2> DEFINE v == [S!Idle EXCEPT !.step = "granted", !.user = tokens[t].user,
                                 !.epoch = tokens[t].epoch, !.grant = g]
  <2>2. /\ v \in S!Visit /\ v.step = "granted" /\ v.grant = g
        /\ v.user = tokens[t].user /\ v.epoch = tokens[t].epoch
    BY <2>1, SessionsIdle DEF S!Visit
  <2>3. S!Goes(r, v)
    BY <2>0
  <2> HIDE DEF v
  <2>4. /\ visits' \in [Requests -> S!Visit]
        /\ \A q \in Requests : visits'[q] = IF q = r THEN v ELSE visits[q]
    BY <1>0, <2>2, <2>3, VisitGoes
  <2> QED BY <2>0, <2>2, <2>4, ExchangeKeeps
<1>2. ASSUME NEW t \in Tokens, NEW g \in Grants, S!AppExchange(g, t) PROVE SessionsInv'
  <2>1. S!Exchange(g, t, "app") /\ UNCHANGED <<epoch, tokens, leaked, visits>>
    BY <1>2 DEF S!AppExchange
  <2>2. visits' \in [Requests -> S!Visit]
    BY <1>0, <2>1 DEF S!TypeOK
  <2> QED BY <2>1, <2>2, ExchangeKeeps
<1>3. ASSUME NEW r \in Requests, NEW t \in Tokens, S!CompleteInsert(r, t) PROVE SessionsInv'
  <2>0. /\ visits[r].step = "granted" /\ S!Granted(visits[r].grant)
        /\ S!Goes(r, S!Idle) /\ UNCHANGED <<epoch, grants, leaked>>
    BY <1>3 DEF S!CompleteInsert, S!At, S!Ends
  <2>a. PICK h \in Grants : h = visits[r].grant
    BY <1>0, <2>0 DEF VisitSound
  <2>b. PICK p : p = grants[h].parent
    OBVIOUS
  <2>1. /\ grants[h].client = "mesh" /\ visits[r].user \in Users
        /\ tokens[p].user = visits[r].user /\ tokens[p].epoch = visits[r].epoch
    BY <1>0, <2>0, <2>a, <2>b DEF VisitSound, S!Granted
  <2>2. p \in Tokens /\ visits[r].epoch \in Nat /\ tokens[p].name = "login"
    BY <1>0, <2>0, <2>a, <2>b, GrantIs DEF S!Visit, SessionsInv, TokensSound
  <2>c. S!Valid(p) /\ tokens[p] \in S!Token
    BY <1>0, <2>2, TokenIs
  <2>d. tokens[p].stays \in BOOLEAN
    BY <2>c DEF S!Token
  <2> DEFINE row == [user |-> visits[r].user, name |-> "sso", epoch |-> visits[r].epoch,
                     grant |-> h, stays |-> tokens[p].stays]
  <2>3. /\ row \in S!Token /\ row.name = "sso" /\ row.grant = h
        /\ row.user = visits[r].user /\ row.epoch = visits[r].epoch /\ row.stays = tokens[p].stays
    BY <2>1, <2>2, <2>d DEF S!Token
  <2>4. S!InsertToken(t, row)
    BY <1>3, <2>a, <2>b DEF S!CompleteInsert
  <2> HIDE DEF row
  <2>5. /\ visits' \in [Requests -> S!Visit]
        /\ \A q \in Requests : visits'[q] = IF q = r THEN S!Idle ELSE visits[q]
    BY <1>0, <2>0, SessionsIdle, VisitGoes
  <2>6. row.epoch < epoch[row.user] =>
             \/ row.stays
             \/ \E q \in Requests : visits[q].step = "revoke" /\ visits[q].user = row.user
    BY <2>1, <2>2, <2>3, <2>c DEF SessionsInv, S!ResetEndsSessions, S!At
  <2> QED BY <2>0, <2>1, <2>3, <2>4, <2>5, <2>6, <2>a, <2>b, InsertKeeps
<1>4. ASSUME NEW r \in Requests, S!CompleteFails(r) PROVE SessionsInv'
  <2> DEFINE v == [visits[r] EXCEPT !.step = "undo"]
  <2>1. v \in S!Visit /\ v.step = "undo" /\ v.grant = visits[r].grant
    BY <1>0 DEF S!Visit
  <2>2. S!Goes(r, v) /\ visits[r].step = "granted" /\ UNCHANGED <<epoch, tokens, grants, leaked>>
    BY <1>4 DEF S!CompleteFails, S!At, S!Nothing
  <2> HIDE DEF v
  <2>3. VisitSound(v, tokens, grants)
    BY <1>0, <2>1, <2>2 DEF VisitSound
  <2>4. S!ResetEndsSessions'
    BY <1>0, <2>1, <2>2, VisitGoes, ResetKept
  <2>5. epoch' \in [Users -> 0 .. MaxResets] /\ leaked' \subseteq Grants /\ leaked \subseteq leaked'
    BY <1>0, <2>2 DEF S!TypeOK
  <2> QED BY <2>1, <2>2, <2>3, <2>4, <2>5, VisitKeeps
<1> QED BY <1>1, <1>2, <1>3, <1>4

\* Revoking a grant, signing out.
LEMMA SignOutKeeps ==
  ASSUME SessionsInv,
         \/ \E r \in Requests : S!RevokeGrant(r) \/ S!DeleteToken(r)
         \/ \E r \in Requests, t \in Tokens : S!RevokeBearer(r, t)
         \/ \E g \in Grants : S!GrantEnds(g)
  PROVE  SessionsInv'
<1>0. /\ S!TypeOK
      /\ \A r \in Requests : visits[r] \in S!Visit /\ VisitSound(visits[r], tokens, grants)
  BY DEF SessionsInv, S!TypeOK
<1>1. ASSUME NEW r \in Requests, S!RevokeGrant(r) PROVE SessionsInv'
  <2>0. /\ visits[r].step = "undo" /\ S!Goes(r, S!Idle) /\ UNCHANGED epoch
        /\ visits[r].grant \in Grants
    BY <1>0, <1>1 DEF S!RevokeGrant, S!At, S!Ends, VisitSound
  <2>1. /\ visits' \in [Requests -> S!Visit]
        /\ \A q \in Requests : visits'[q] = IF q = r THEN S!Idle ELSE visits[q]
    BY <1>0, <2>0, SessionsIdle, VisitGoes
  <2>2. CASE S!Deleted({}, {visits[r].grant})
    <3>1. \A q \in Requests : visits'[q] = visits[q] \/
             /\ VisitSound(visits'[q], tokens', grants')
             /\ visits[q].grant # None => visits[q].grant \in Gone({}, {visits[r].grant})
             /\ visits[q].step # "revoke"
      BY <2>0, <2>1, SessionsIdle, IdleVisitSound DEF Gone
    <3> QED BY <2>0, <2>1, <2>2, <3>1, DeletedKeeps
  <2>3. CASE /\ leaked' = IF S!Granted(visits[r].grant) THEN leaked \cup {visits[r].grant} ELSE leaked
             /\ UNCHANGED <<tokens, grants>>
    <3>1. VisitSound(S!Idle, tokens, grants)
      BY SessionsIdle, IdleVisitSound
    <3>2. epoch' \in [Users -> 0 .. MaxResets] /\ leaked' \subseteq Grants /\ leaked \subseteq leaked'
      BY <1>0, <2>0, <2>3 DEF S!TypeOK
    <3>3. S!ResetEndsSessions'
      BY <2>0, <2>1, <2>3, ResetKept
    <3>4. ~S!Granted(visits[r].grant) \/ visits[r].grant \in leaked'
      BY <2>3
    <3> QED BY <2>0, <2>3, <3>1, <3>2, <3>3, <3>4, SessionsIdle, VisitKeeps
  <2> QED BY <1>1, <2>2, <2>3 DEF S!RevokeGrant
<1>2. ASSUME NEW r \in Requests, S!DeleteToken(r) PROVE SessionsInv'
  <2>0. /\ visits[r].step = "logout" /\ S!Goes(r, S!Idle) /\ UNCHANGED epoch
        /\ S!Deleted({visits[r].token}, {})
        /\ visits[r].token \in Tokens /\ tokens[visits[r].token].grant = None
        /\ visits[r].grant = None
    BY <1>0, <1>2 DEF S!DeleteToken, S!At, S!Ends, VisitSound
  <2>1. /\ visits' \in [Requests -> S!Visit]
        /\ \A q \in Requests : visits'[q] = IF q = r THEN S!Idle ELSE visits[q]
    BY <1>0, <2>0, SessionsIdle, VisitGoes
  <2>2. \A q \in Requests : visits'[q] = visits[q] \/
             /\ VisitSound(visits'[q], tokens', grants')
             /\ visits[q].grant = None /\ visits[q].step # "revoke"
    BY <2>0, <2>1, SessionsIdle, IdleVisitSound
  <2> QED BY <2>0, <2>1, <2>2, DeletedKeeps
<1>3. ASSUME NEW r \in Requests, NEW t \in Tokens, S!RevokeBearer(r, t) PROVE SessionsInv'
  <2> DEFINE v == [S!Idle EXCEPT !.step = "logout", !.token = t]
  <2>0. /\ visits[r].step = "idle" /\ S!Goes(r, v) /\ UNCHANGED epoch
        /\ S!Deleted({}, {tokens[t].grant} \ {None}) /\ S!Valid(t)
    BY <1>3 DEF S!RevokeBearer, S!At
  <2>1. v \in S!Visit /\ v.step = "logout" /\ v.token = t /\ v.grant = None
    BY SessionsIdle DEF S!Visit
  <2> HIDE DEF v
  <2>2. /\ visits' \in [Requests -> S!Visit]
        /\ \A q \in Requests : visits'[q] = IF q = r THEN v ELSE visits[q]
    BY <1>0, <2>0, <2>1, VisitGoes
  <2>3. PICK D \in SUBSET Grants : D = {tokens[t].grant} \ {None}
    <3>1. tokens[t].grant \in Grants \cup {None}
      BY <1>0, <2>0, TokenIs DEF S!Token
    <3> QED BY <3>1
  <2>4. tokens'[t].grant = None
    <3>0. S!Deleted({}, D)
      BY <2>0, <2>3
    <3>1. tokens'[t] = IF t \in {} \/ tokens[t].grant \in Gone({}, D)
                       THEN S!NoToken ELSE tokens[t]
      BY <1>0, <3>0, DeletedIs
    <3>2. tokens[t].grant # None => tokens[t].grant \in Gone({}, D)
      BY <2>3 DEF Gone
    <3> QED BY <3>1, <3>2, SessionsIdle
  <2>5. VisitSound(v, tokens', grants')
    BY <2>1, <2>4 DEF VisitSound
  <2>6. visits[r].grant = None
    BY <1>0, <2>0 DEF VisitSound
  <2>7. \A q \in Requests : visits'[q] = visits[q] \/
             /\ VisitSound(visits'[q], tokens', grants')
             /\ visits[q].grant = None /\ visits[q].step # "revoke"
    BY <2>0, <2>2, <2>5, <2>6
  <2> QED BY <2>0, <2>2, <2>3, <2>7, DeletedKeeps
<1>4. ASSUME NEW g \in Grants, S!GrantEnds(g) PROVE SessionsInv'
  <2>1. S!Deleted({}, {g}) /\ UNCHANGED <<epoch, visits>>
    BY <1>4 DEF S!GrantEnds
  <2>2. visits' \in [Requests -> S!Visit]
    BY <1>0, <2>1 DEF S!TypeOK
  <2> QED BY <2>1, <2>2, DeletedKeeps
<1> QED BY <1>1, <1>2, <1>3, <1>4

\* Resetting the password: a session of it that was missed is known to stay.
LEMMA ResetKeeps ==
  ASSUME SessionsInv, NEW r \in Requests,
         \/ \E u \in Users : S!ResetPassword(r, u)
         \/ S!RevokeSessions(r) \/ S!RevokeSessionsFails(r) \/ S!GiveUp(r)
  PROVE  SessionsInv'
<1>0. /\ S!TypeOK /\ visits[r] \in S!Visit /\ VisitSound(visits[r], tokens, grants)
  BY DEF SessionsInv, S!TypeOK
<1>1. ASSUME NEW u \in Users, S!ResetPassword(r, u) PROVE SessionsInv'
  <2> DEFINE v == [S!Idle EXCEPT !.step = "revoke", !.user = u]
  <2>1. v \in S!Visit /\ v.step = "revoke" /\ v.user = u /\ v.grant = None
    BY SessionsIdle DEF S!Visit
  <2>2. /\ S!Goes(r, v) /\ visits[r].step = "idle" /\ UNCHANGED <<tokens, grants, leaked>>
        /\ epoch' = [epoch EXCEPT ![u] = @ + 1] /\ epoch[u] < MaxResets
    BY <1>1 DEF S!ResetPassword, S!At, S!Nothing
  <2> HIDE DEF v
  <2>3. VisitSound(v, tokens, grants) /\ visits[r].grant = None
    BY <1>0, <2>1, <2>2 DEF VisitSound
  <2>4. epoch' \in [Users -> 0 .. MaxResets]
    BY <1>0, <2>2, SessionsAssumption DEF S!TypeOK
  <2>5. leaked' \subseteq Grants /\ leaked \subseteq leaked'
    BY <1>0, <2>2 DEF S!TypeOK
  <2>6. \A q \in Requests : visits'[q] = IF q = r THEN v ELSE visits[q]
    BY <1>0, <2>1, <2>2, VisitGoes
  <2>7. S!ResetEndsSessions'
    <3> SUFFICES ASSUME NEW t \in Tokens, tokens[t] # S!NoToken,
                        tokens[t].epoch < epoch'[tokens[t].user], ~tokens[t].stays
                 PROVE  \E q \in Requests : /\ visits'[q].step = "revoke"
                                            /\ visits'[q].user = tokens[t].user
      BY <2>2 DEF S!ResetEndsSessions, S!Valid, S!At
    <3>1. CASE tokens[t].user = u
      BY <2>1, <2>6, <3>1
    <3>2. CASE tokens[t].user # u
      <4>1. epoch'[tokens[t].user] = epoch[tokens[t].user]
        BY <1>0, <2>2, <3>2, TokenIs DEF S!TypeOK, S!Valid
      <4>2. PICK q \in Requests : visits[q].step = "revoke" /\ visits[q].user = tokens[t].user
        BY <4>1 DEF SessionsInv, S!ResetEndsSessions, S!Valid, S!At
      <4> QED BY <2>2, <2>6, <4>2
    <3> QED BY <3>1, <3>2
  <2> QED BY <2>1, <2>2, <2>3, <2>4, <2>5, <2>7, VisitKeeps
<1>2. CASE S!RevokeSessions(r)
  <2>1. /\ visits[r].step = "revoke" /\ S!Goes(r, S!Idle) /\ UNCHANGED epoch
        /\ S!Deleted({t \in Tokens : tokens[t].user = visits[r].user}, {})
    BY <1>2 DEF S!RevokeSessions, S!At, S!Ends
  <2>2. PICK T \in SUBSET Tokens : T = {t \in Tokens : tokens[t].user = visits[r].user}
    OBVIOUS
  <2>3. /\ visits' \in [Requests -> S!Visit]
        /\ \A q \in Requests : visits'[q] = IF q = r THEN S!Idle ELSE visits[q]
    BY <1>0, <2>1, SessionsIdle, VisitGoes
  <2>4. visits[r].user \in Users /\ visits[r].grant = None
    BY <1>0, <2>1 DEF VisitSound
  <2>5. ASSUME NEW t \in T, tokens[t].grant # None PROVE tokens[t].grant \in Gone(T, {})
    <3>1. tokens[t].name = "sso" /\ t \in Tokens
      BY <2>5 DEF SessionsInv, TokensSound
    <3>2. /\ tokens[t].grant \in Grants /\ grants[tokens[t].grant].client = "mesh"
          /\ tokens[grants[tokens[t].grant].parent].user = tokens[t].user
      BY <3>1 DEF SessionsInv, S!ProjectSessionsBacked
    <3>3. S!Granted(tokens[t].grant) /\ grants[tokens[t].grant].parent \in Tokens
      BY <1>0, <3>2, GrantIs
    <3>4. grants[tokens[t].grant].parent \in T
      BY <2>2, <3>2, <3>3
    <3> QED BY <3>2, <3>3, <3>4 DEF Gone
  <2>6. \A q \in Requests : visits'[q] = visits[q] \/
             /\ VisitSound(visits'[q], tokens', grants')
             /\ visits[q].grant = None
             /\ \A t \in Tokens : tokens[t].user = visits[q].user => t \in T
    BY <2>2, <2>3, <2>4, SessionsIdle, IdleVisitSound
  <2> QED BY <2>1, <2>2, <2>3, <2>5, <2>6, DeletedKeeps
<1>3. CASE S!RevokeSessionsFails(r)
  <2>0. /\ visits[r].step = "revoke" /\ S!Goes(r, S!Idle) /\ UNCHANGED <<epoch, grants, leaked>>
        /\ tokens' = [t \in Tokens |-> IF tokens[t].user = visits[r].user
                                       THEN [tokens[t] EXCEPT !.stays = TRUE] ELSE tokens[t]]
    BY <1>3 DEF S!RevokeSessionsFails, S!At, S!Ends
  <2>1. /\ visits' \in [Requests -> S!Visit]
        /\ \A q \in Requests : visits'[q] = IF q = r THEN S!Idle ELSE visits[q]
    BY <1>0, <2>0, SessionsIdle, VisitGoes
  <2>2. visits[r].user \in Users /\ visits[r].grant = None
    BY <1>0, <2>0 DEF VisitSound
  <2>3. ASSUME NEW t \in Tokens
        PROVE  /\ tokens'[t] \in S!Token \cup {S!NoToken}
               /\ tokens'[t].name = tokens[t].name /\ tokens'[t].user = tokens[t].user
               /\ tokens'[t].grant = tokens[t].grant /\ tokens'[t].epoch = tokens[t].epoch
               /\ tokens'[t] = S!NoToken => tokens[t] = S!NoToken
               /\ tokens[t].stays => tokens'[t].stays
               /\ tokens[t].user = visits[r].user => tokens'[t].stays
    <3>1. CASE tokens[t].user = visits[r].user
      <4>1. tokens[t] \in S!Token
        BY <1>0, <2>2, <3>1, TokenIs
      <4>2. tokens'[t] = [tokens[t] EXCEPT !.stays = TRUE]
        BY <2>0, <3>1
      <4>3. /\ tokens'[t] \in S!Token
            /\ tokens'[t].name = tokens[t].name /\ tokens'[t].user = tokens[t].user
            /\ tokens'[t].grant = tokens[t].grant /\ tokens'[t].epoch = tokens[t].epoch
            /\ tokens'[t].stays
        BY <4>1, <4>2 DEF S!Token
      <4>4. tokens'[t].user # None
        BY <2>2, <3>1, <4>3, SessionsAssumption
      <4> QED BY <4>3, <4>4, SessionsIdle
    <3>2. CASE tokens[t].user # visits[r].user
      BY <1>0, <2>0, <3>2 DEF S!TypeOK
    <3> QED BY <3>1, <3>2
  <2>4. S!TypeOK'
    BY <1>0, <2>0, <2>1, <2>3 DEF S!TypeOK
  <2>5. TokensSound'
    <3>1. \A g \in Grants : S!Granted(g) => grants[g].parent \in Tokens
      BY <1>0, GrantIs
    <3> QED BY <2>0, <2>3, <3>1 DEF SessionsInv, TokensSound, S!Granted
  <2>6. \A q \in Requests : VisitSound(visits'[q], tokens', grants')
    <3> SUFFICES ASSUME NEW q \in Requests PROVE VisitSound(visits'[q], tokens', grants)
      BY <2>0
    <3>1. CASE q = r
      BY <2>1, <3>1, SessionsIdle, IdleVisitSound
    <3>2. CASE q # r
      <4>1. visits'[q] = visits[q] /\ VisitSound(visits[q], tokens, grants)
        BY <2>1, <3>2 DEF SessionsInv
      <4>2. visits[q].grant \in Grants /\ grants[visits[q].grant] # S!NoGrant =>
                grants[visits[q].grant].parent \in Tokens
        BY <1>0, GrantIs DEF S!Granted
      <4> QED BY <2>3, <4>1, <4>2 DEF VisitSound
    <3> QED BY <3>1, <3>2
  <2>7. S!ProjectSessionsBacked'
    <3> SUFFICES ASSUME NEW t \in Tokens, tokens[t].name = "sso"
                 PROVE  /\ tokens[t].grant \in Grants /\ grants[tokens[t].grant].client = "mesh"
                        /\ tokens'[grants[tokens[t].grant].parent].name = "login"
                        /\ tokens'[grants[tokens[t].grant].parent].user = tokens[t].user
      BY <2>0, <2>3 DEF S!ProjectSessionsBacked
    <3>1. /\ tokens[t].grant \in Grants /\ grants[tokens[t].grant].client = "mesh"
          /\ tokens[grants[tokens[t].grant].parent].name = "login"
          /\ tokens[grants[tokens[t].grant].parent].user = tokens[t].user
      BY DEF SessionsInv, S!ProjectSessionsBacked
    <3>2. grants[tokens[t].grant].parent \in Tokens
      BY <1>0, <3>1, GrantIs
    <3> QED BY <2>3, <3>1, <3>2
  <2>8. S!GrantsInUse'
    <3> SUFFICES ASSUME NEW g \in Grants, grants[g].client = "mesh"
                 PROVE  \/ \E t \in Tokens : tokens'[t].grant = g
                        \/ \E q \in Requests : visits'[q].grant = g
                        \/ g \in leaked
      BY <2>0 DEF S!GrantsInUse
    <3>1. g # None
      BY SessionsAssumption
    <3>2. CASE \E q \in Requests : visits[q].grant = g
      BY <2>1, <2>2, <3>1, <3>2
    <3> QED BY <2>3, <3>2 DEF SessionsInv, S!GrantsInUse
  <2>9. S!ResetEndsSessions'
    <3> SUFFICES ASSUME NEW t \in Tokens, tokens'[t] # S!NoToken,
                        tokens'[t].epoch < epoch[tokens'[t].user], ~tokens'[t].stays
                 PROVE  \E q \in Requests : /\ visits'[q].step = "revoke"
                                            /\ visits'[q].user = tokens'[t].user
      BY <2>0 DEF S!ResetEndsSessions, S!Valid, S!At
    <3>1. tokens[t].user # visits[r].user /\ tokens'[t] = tokens[t]
      BY <2>0, <2>3
    <3>2. PICK q \in Requests : visits[q].step = "revoke" /\ visits[q].user = tokens[t].user
      BY <3>1 DEF SessionsInv, S!ResetEndsSessions, S!Valid, S!At
    <3> QED BY <2>1, <3>1, <3>2
  <2> QED BY <2>4, <2>5, <2>6, <2>7, <2>8, <2>9 DEF SessionsInv
<1>4. CASE S!GiveUp(r)
  <2>1. /\ visits[r].step \in {"verified", "logout"} /\ S!Goes(r, S!Idle)
        /\ UNCHANGED <<epoch, tokens, grants, leaked>>
    BY <1>4 DEF S!GiveUp, S!Ends, S!Nothing
  <2>2. VisitSound(S!Idle, tokens, grants) /\ visits[r].grant = None
    BY <1>0, <2>1, SessionsIdle, IdleVisitSound DEF VisitSound
  <2>3. S!ResetEndsSessions'
    BY <1>0, <2>1, SessionsIdle, VisitGoes, ResetKept
  <2>4. epoch' \in [Users -> 0 .. MaxResets] /\ leaked' \subseteq Grants /\ leaked \subseteq leaked'
    BY <1>0, <2>1 DEF S!TypeOK
  <2> QED BY <2>1, <2>2, <2>3, <2>4, SessionsIdle, VisitKeeps
<1> QED BY <1>1, <1>2, <1>3, <1>4

\* Every step of the sessions.
LEMMA SessionsStep ==
  ASSUME SessionsInv, S!Next
  PROVE  SessionsInv'
<1>1. CASE \/ \E r \in Requests, u \in Users : S!VerifyPassword(r, u)
           \/ \E r \in Requests, t \in Tokens : S!SignIn(r, t)
           \/ \E t \in Tokens, u \in Users : S!GoogleSignIn(t, u)
  BY <1>1, SignInKeeps
<1>2. CASE \/ \E r \in Requests, t \in Tokens, g \in Grants : S!Complete(r, g, t)
           \/ \E t \in Tokens, g \in Grants : S!AppExchange(g, t)
           \/ \E r \in Requests, t \in Tokens : S!CompleteInsert(r, t)
           \/ \E r \in Requests : S!CompleteFails(r)
  BY <1>2, PlatformKeeps
<1>3. CASE \/ \E r \in Requests : S!RevokeGrant(r) \/ S!DeleteToken(r)
           \/ \E r \in Requests, t \in Tokens : S!RevokeBearer(r, t)
           \/ \E g \in Grants : S!GrantEnds(g)
  BY <1>3, SignOutKeeps
<1>4. ASSUME NEW r \in Requests,
             \/ \E u \in Users : S!ResetPassword(r, u)
             \/ S!RevokeSessions(r) \/ S!RevokeSessionsFails(r) \/ S!GiveUp(r)
      PROVE  SessionsInv'
  BY <1>4, ResetKeeps
<1> QED BY <1>1, <1>2, <1>3, <1>4 DEF S!Next

-----------------------------------------------------------------------------
(* The gate of a visitor                                                   *)

\* What holds of a request with the local variables d.
VisitorSound(d) ==
    /\ d.paused => enabled = "off" /\ ~unapplied
    /\ d.step = "store" /\ ~d.outdated => d.val = enabled \/ unapplied \/ failure
    /\ d.step = "budget" /\ d.paused => failure
    /\ d.step \in {"gate", "key", "proxied"} => ~d.paused

SettingInv ==
    /\ G!TypeOK
    /\ G!SettingFresh
    /\ \A r \in Visitors : VisitorSound(doing[r])

AtKey == {r \in Visitors : G!At(r, "key")}

\* While an address is not blocked its failures are counted, all of them.
LimiterInv ==
    /\ ~limiter.blocked => guesses <= limiter.count
    /\ guesses + Cardinality(AtKey) < KeyAttempts + Cardinality(Visitors)

-----------------------------------------------------------------------------
(* Types                                                                   *)

LEMMA GateIdle ==
  /\ G!Idle \in G!Doing /\ G!Idle.step = "idle" /\ ~G!Idle.paused /\ ~G!Idle.outdated
BY DEF G!Idle, G!Doing, G!Values

\* The new local variables of each kind of step.
LEMMA VisitIs ==
  \A b \in BOOLEAN : LET d == [G!Idle EXCEPT !.step = "setting", !.paused = b]
                     IN  d \in G!Doing /\ d.step = "setting" /\ d.paused = b
BY DEF G!Idle, G!Doing, G!Values

LEMMA DoingIs ==
  ASSUME G!TypeOK, NEW r \in Visitors
  PROVE  /\ doing[r] \in G!Doing
         /\ \A step \in {"budget", "gate", "key", "proxied", "setting"} :
              LET d == [doing[r] EXCEPT !.step = step]
              IN  d \in G!Doing /\ d.step = step /\ d.paused = doing[r].paused
         /\ LET d == [doing[r] EXCEPT !.step = "read", !.outdated = FALSE]
            IN  d \in G!Doing /\ d.step = "read" /\ d.paused = doing[r].paused
         /\ \A v \in G!Values :
              LET d == [doing[r] EXCEPT !.step = "store", !.val = v]
              IN  /\ d \in G!Doing /\ d.step = "store" /\ d.paused = doing[r].paused
                  /\ d.val = v
BY DEF G!TypeOK, G!Doing, G!Values

\* A step of one request, from d to e, that changes nothing else it relies on.
LEMMA VisitorStep ==
  ASSUME SettingInv, NEW r \in Visitors, NEW e \in G!Doing, G!Goes(r, e), VisitorSound(e)',
         enabled' = enabled, unapplied' = unapplied,
         failure' \in BOOLEAN, failure => failure',
         cache' \in G!Values \cup {"none"}, G!SettingFresh',
         limiter' \in G!Limiter, guesses' \in Nat
  PROVE  SettingInv'
<1>1. G!TypeOK'
  BY DEF SettingInv, G!TypeOK, G!Goes
<1>2. ASSUME NEW q \in Visitors PROVE VisitorSound(doing[q])'
  <2>1. CASE q = r
    <3>1. doing'[q] = e
      BY <2>1 DEF SettingInv, G!TypeOK, G!Goes
    <3> QED BY <3>1 DEF VisitorSound
  <2>2. CASE q # r
    <3>1. doing'[q] = doing[q] /\ VisitorSound(doing[q])
      BY <2>2 DEF SettingInv, G!TypeOK, G!Goes
    <3> QED BY <3>1 DEF VisitorSound
  <2> QED BY <2>1, <2>2
<1> QED BY <1>1, <1>2 DEF SettingInv

\* What the limiter becomes.
LEMMA LimiterIs ==
  ASSUME G!TypeOK
  PROVE  /\ G!Recorded \in G!Limiter
         /\ [count |-> 0, blocked |-> FALSE] \in G!Limiter
         /\ [limiter EXCEPT !.blocked = FALSE] \in G!Limiter
         /\ limiter.count \in 0 .. (KeyAttempts - 1)
         /\ [limiter EXCEPT !.blocked = FALSE].count = limiter.count
         /\ limiter.count + 1 < KeyAttempts =>
              G!Recorded.count = limiter.count + 1 /\ (G!Recorded.blocked <=> limiter.blocked)
         /\ limiter.count + 1 >= KeyAttempts => G!Recorded.blocked
<1>1. limiter.count \in 0 .. (KeyAttempts - 1) /\ limiter.blocked \in BOOLEAN
  BY DEF G!TypeOK, G!Limiter
<1>2. [count |-> 0, blocked |-> FALSE] \in G!Limiter
  BY VisitorGateAssumption DEF G!Limiter
<1>3. /\ [limiter EXCEPT !.blocked = FALSE] \in G!Limiter
      /\ [limiter EXCEPT !.blocked = FALSE].count = limiter.count
  BY DEF G!TypeOK, G!Limiter
<1>4. CASE limiter.count + 1 < KeyAttempts
  <2>1. G!Recorded = [limiter EXCEPT !.count = limiter.count + 1]
    BY <1>1, <1>4, VisitorGateAssumption DEF G!Recorded
  <2>2. limiter.count + 1 \in 0 .. (KeyAttempts - 1)
    BY <1>1, <1>4, VisitorGateAssumption
  <2>3. G!Recorded \in G!Limiter /\ G!Recorded.count = limiter.count + 1
    BY <2>1, <2>2 DEF G!TypeOK, G!Limiter
  <2>4. G!Recorded.blocked = limiter.blocked
    BY <2>1 DEF G!TypeOK, G!Limiter
  <2> QED BY <1>1, <1>2, <1>3, <1>4, <2>3, <2>4, VisitorGateAssumption
<1>5. CASE limiter.count + 1 >= KeyAttempts
  <2>1. G!Recorded = [count |-> 0, blocked |-> TRUE]
    BY <1>5 DEF G!Recorded
  <2>2. G!Recorded \in G!Limiter /\ G!Recorded.blocked
    BY <2>1, VisitorGateAssumption DEF G!Limiter
  <2> QED BY <1>1, <1>2, <1>3, <1>5, <2>2, VisitorGateAssumption
<1> QED BY <1>1, <1>4, <1>5, VisitorGateAssumption

-----------------------------------------------------------------------------
(* The cached setting and the pause                                        *)

\* A step that changes the variables of one request only.
LEMMA VisitorOwnStep ==
  ASSUME SettingInv, NEW r \in Visitors, NEW e \in G!Doing, G!Goes(r, e), VisitorSound(e)',
         UNCHANGED <<enabled, cache, unapplied, failure>>,
         limiter' \in G!Limiter, guesses' \in Nat
  PROVE  SettingInv'
<1>1. cache' \in G!Values \cup {"none"} /\ failure' \in BOOLEAN /\ G!SettingFresh'
  BY DEF SettingInv, G!TypeOK, G!SettingFresh
<1> QED BY <1>1, VisitorStep

LEMMA VisitorEnds ==
  ASSUME SettingInv, NEW r \in Visitors, G!Ends(r),
         UNCHANGED <<enabled, cache, unapplied, failure>>,
         limiter' \in G!Limiter, guesses' \in Nat
  PROVE  SettingInv'
<1>1. VisitorSound(G!Idle)'
  BY GateIdle DEF VisitorSound
<1> QED BY <1>1, GateIdle, VisitorOwnStep DEF G!Ends

\* A request that is not at the budget goes on.
LEMMA VisitorProceeds ==
  ASSUME SettingInv, NEW r \in Visitors, NEW step \in {"gate", "key", "proxied", "setting"},
         G!Proceeds(r, step), step # "setting" => ~doing[r].paused,
         UNCHANGED <<enabled, cache, unapplied, failure>>,
         limiter' \in G!Limiter, guesses' \in Nat
  PROVE  SettingInv'
<1>1. PICK e \in G!Doing : G!Goes(r, e) /\ e.step = step /\ e.paused = doing[r].paused
  <2> DEFINE d == [doing[r] EXCEPT !.step = step]
  <2>1. d \in G!Doing /\ d.step = step /\ d.paused = doing[r].paused
    BY DEF SettingInv, G!TypeOK, G!Doing
  <2>2. G!Goes(r, d)
    BY DEF G!Proceeds
  <2> HIDE DEF d
  <2> QED BY <2>1, <2>2
<1>2. VisitorSound(doing[r])
  BY DEF SettingInv
<1>3. VisitorSound(e)'
  BY <1>1, <1>2 DEF VisitorSound
<1> QED BY <1>1, <1>3, VisitorOwnStep

\* The decision on a value that is as fresh as the cache has to be.
LEMMA VisitorDecides ==
  ASSUME SettingInv, NEW r \in Visitors, NEW v \in G!Values, G!Decides(r, v),
         v = enabled \/ unapplied \/ failure,
         cache' = v, UNCHANGED <<enabled, unapplied, failure, limiter, guesses>>
  PROVE  SettingInv'
<1>0. G!TypeOK /\ VisitorSound(doing[r])
  BY DEF SettingInv
<1>1. /\ cache' \in G!Values \cup {"none"} /\ failure' \in BOOLEAN /\ G!SettingFresh' /\ guesses' \in Nat
      /\ limiter' \in G!Limiter
  BY <1>0 DEF G!TypeOK, G!SettingFresh, G!Values
<1>2. CASE v = "on"
  <2>1. PICK e \in G!Doing : G!Goes(r, e) /\ e.step = "budget" /\ e.paused = doing[r].paused
    <3> DEFINE d == [doing[r] EXCEPT !.step = "budget"]
    <3>1. d \in G!Doing /\ d.step = "budget" /\ d.paused = doing[r].paused
      BY <1>0, <1>2, DoingIs DEF SettingInv, G!TypeOK, G!Values
    <3>2. G!Goes(r, d)
      BY <1>2 DEF G!Decides, G!Proceeds
    <3> HIDE DEF d
    <3> QED BY <3>1, <3>2
  <2>2. VisitorSound(e)'
    BY <1>0, <1>2, <2>1 DEF VisitorSound
  <2> QED BY <1>1, <2>1, <2>2, VisitorStep
<1>3. CASE v # "on"
  <2>1. G!Goes(r, G!Idle) /\ VisitorSound(G!Idle)'
    BY <1>3, GateIdle DEF G!Decides, G!Ends, VisitorSound
  <2> QED BY <1>1, <2>1, GateIdle, VisitorStep
<1> QED BY <1>2, <1>3

LEMMA PutPreserves ==
  ASSUME SettingInv, NEW r \in Visitors,
         (\E v \in G!Values : G!PutWrites(r, v)) \/ G!PutFails(r) \/ G!PutResets(r)
  PROVE  SettingInv'
<1>1. ASSUME NEW v \in G!Values, G!PutWrites(r, v) PROVE SettingInv'
  <2>1. ASSUME NEW q \in Visitors PROVE doing'[q] \in G!Doing /\ ~doing'[q].paused
    <3>1. CASE q = r
      <4>1. doing'[q] = [G!Idle EXCEPT !.step = "put"]
        BY <1>1, <3>1 DEF G!PutWrites
      <4> QED BY <4>1 DEF G!Idle, G!Doing, G!Values
    <3>2. CASE q # r
      <4>1. doing'[q] = [doing[q] EXCEPT !.paused = FALSE] /\ doing[q] \in G!Doing
        BY <1>1, <3>2 DEF G!PutWrites, SettingInv, G!TypeOK
      <4> QED BY <4>1 DEF G!Doing
    <3> QED BY <3>1, <3>2
  <2>2. G!TypeOK'
    BY <1>1, <2>1 DEF G!PutWrites, SettingInv, G!TypeOK
  <2>3. G!SettingFresh' /\ unapplied'
    BY <1>1 DEF G!PutWrites, G!SettingFresh
  <2> QED BY <2>1, <2>2, <2>3 DEF SettingInv, VisitorSound
<1>2. CASE G!PutFails(r)
  BY <1>2, VisitorEnds DEF G!PutFails, SettingInv, G!TypeOK
<1>3. CASE G!PutResets(r)
  <2>1. ASSUME NEW q \in Visitors
        PROVE  /\ doing'[q] \in G!Doing /\ (doing'[q].step = "store" => doing'[q].outdated)
               /\ \/ doing'[q] = G!Idle
                  \/ doing'[q].step = doing[q].step /\ doing'[q].paused = doing[q].paused
    <3>1. CASE q = r
      BY <1>3, <3>1, GateIdle DEF G!PutResets
    <3>2. CASE q # r
      BY <1>3, <3>2 DEF G!PutResets, SettingInv, G!TypeOK, G!Doing
    <3> QED BY <3>1, <3>2
  <2>2. G!TypeOK'
    BY <1>3, <2>1 DEF G!PutResets, SettingInv, G!TypeOK
  <2>3. G!SettingFresh'
    BY <1>3 DEF G!PutResets, G!SettingFresh
  <2>4. ASSUME NEW q \in Visitors PROVE VisitorSound(doing[q])'
    <3>1. VisitorSound(doing[q])
      BY DEF SettingInv
    <3> QED BY <1>3, <2>1, <3>1, GateIdle DEF VisitorSound, G!PutResets
  <2> QED BY <2>2, <2>3, <2>4 DEF SettingInv
<1> QED BY <1>1, <1>2, <1>3

LEMMA ReadPreserves ==
  ASSUME SettingInv, NEW r \in Visitors,
         \/ G!Visit(r) \/ G!CacheHit(r) \/ G!CacheMiss(r)
         \/ G!ReadSetting(r) \/ G!ReadFails(r) \/ G!StoreSetting(r) \/ G!ReadAgain(r)
  PROVE  SettingInv'
<1>0. G!TypeOK /\ VisitorSound(doing[r]) /\ G!SettingFresh
  BY DEF SettingInv
<1>a. limiter \in G!Limiter /\ guesses \in Nat
  BY <1>0 DEF G!TypeOK
<1>1. CASE G!Visit(r)
  <2>1. PICK e \in G!Doing : G!Goes(r, e) /\ e.step = "setting" /\ (e.paused => enabled = "off" /\ ~unapplied)
    <3>1. PICK b \in BOOLEAN : b = (enabled = "off" /\ ~unapplied)
      OBVIOUS
    <3> DEFINE d == [G!Idle EXCEPT !.step = "setting", !.paused = b]
    <3>2. d \in G!Doing /\ d.step = "setting" /\ d.paused = b
      BY VisitIs
    <3>3. G!Goes(r, d)
      BY <1>1, <3>1 DEF G!Visit
    <3> HIDE DEF d
    <3> QED BY <3>1, <3>2, <3>3
  <2>2. VisitorSound(e)'
    BY <1>1, <2>1 DEF VisitorSound, G!Visit
  <2> QED BY <1>1, <1>a, <2>1, <2>2, VisitorOwnStep DEF G!Visit
<1>2. CASE G!CacheHit(r)
  BY <1>0, <1>2, VisitorDecides DEF G!CacheHit, G!SettingFresh, G!TypeOK
<1>3. CASE G!CacheMiss(r)
  <2>1. PICK e \in G!Doing : G!Goes(r, e) /\ e.step = "read" /\ e.paused = doing[r].paused
    <3> DEFINE d == [doing[r] EXCEPT !.step = "read", !.outdated = FALSE]
    <3>1. d \in G!Doing /\ d.step = "read" /\ d.paused = doing[r].paused
      BY <1>0, <1>3, DoingIs DEF SettingInv, G!TypeOK, G!Values
    <3>2. G!Goes(r, d)
      BY <1>3 DEF G!CacheMiss
    <3> HIDE DEF d
    <3> QED BY <3>1, <3>2
  <2>2. VisitorSound(e)'
    BY <1>0, <1>3, <2>1 DEF VisitorSound, G!CacheMiss
  <2> QED BY <1>3, <1>a, <2>1, <2>2, VisitorOwnStep DEF G!CacheMiss
<1>4. CASE G!ReadSetting(r)
  <2>1. PICK e \in G!Doing : G!Goes(r, e) /\ e.step = "store" /\ e.paused = doing[r].paused /\ e.val = enabled
    <3> DEFINE d == [doing[r] EXCEPT !.step = "store", !.val = enabled]
    <3>1. d \in G!Doing /\ d.step = "store" /\ d.paused = doing[r].paused /\ d.val = enabled
      BY <1>0, <1>4, DoingIs DEF SettingInv, G!TypeOK, G!Values
    <3>2. G!Goes(r, d)
      BY <1>4 DEF G!ReadSetting
    <3> HIDE DEF d
    <3> QED BY <3>1, <3>2
  <2>2. VisitorSound(e)'
    BY <1>0, <1>4, <2>1 DEF VisitorSound, G!ReadSetting
  <2> QED BY <1>4, <1>a, <2>1, <2>2, VisitorOwnStep DEF G!ReadSetting
<1>5. CASE G!ReadFails(r)
  <2>1. PICK e \in G!Doing : G!Goes(r, e) /\ e.step = "store" /\ e.paused = doing[r].paused
    <3> DEFINE d == [doing[r] EXCEPT !.step = "store", !.val = "on"]
    <3>1. d \in G!Doing /\ d.step = "store" /\ d.paused = doing[r].paused
      BY <1>0, <1>5, DoingIs DEF SettingInv, G!TypeOK, G!Values
    <3>2. G!Goes(r, d)
      BY <1>5 DEF G!ReadFails
    <3> HIDE DEF d
    <3> QED BY <3>1, <3>2
  <2>2. VisitorSound(e)'
    BY <1>0, <1>5, <2>1 DEF VisitorSound, G!ReadFails
  <2>3. failure' \in BOOLEAN /\ failure' /\ cache' \in G!Values \cup {"none"} /\ G!SettingFresh'
    BY <1>0, <1>5 DEF G!ReadFails, G!TypeOK, G!SettingFresh
  <2> QED BY <1>5, <1>a, <2>1, <2>2, <2>3, VisitorStep DEF G!ReadFails
<1>6. CASE G!StoreSetting(r)
  <2>1. doing[r].val \in G!Values /\ (doing[r].val = enabled \/ unapplied \/ failure)
    BY <1>0, <1>6, DoingIs DEF G!StoreSetting, VisitorSound, G!At, G!Current, G!Doing
  <2> QED BY <1>6, <2>1, VisitorDecides DEF G!StoreSetting
<1>7. CASE G!ReadAgain(r)
  BY <1>7, <1>a, VisitorProceeds DEF G!ReadAgain
<1> QED BY <1>1, <1>2, <1>3, <1>4, <1>5, <1>6, <1>7

LEMMA GatePreserves ==
  ASSUME SettingInv, NEW r \in Visitors,
         G!UnderBudget(r) \/ G!GateOpen(r) \/ G!TryKey(r) \/ G!WrongKey(r) \/ G!RightKey(r) \/ G!Leaves(r)
  PROVE  SettingInv'
<1>0. G!TypeOK /\ VisitorSound(doing[r])
  BY DEF SettingInv
<1>a. limiter \in G!Limiter /\ guesses \in Nat
  BY <1>0 DEF G!TypeOK
<1>1. CASE G!UnderBudget(r)
  BY <1>0, <1>1, <1>a, VisitorProceeds DEF G!UnderBudget, VisitorSound, G!At
<1>2. CASE G!GateOpen(r)
  BY <1>0, <1>2, <1>a, VisitorProceeds DEF G!GateOpen, VisitorSound, G!At
<1>3. CASE G!TryKey(r)
  BY <1>0, <1>3, <1>a, VisitorProceeds DEF G!TryKey, VisitorSound, G!At
<1>4. CASE G!WrongKey(r)
  BY <1>0, <1>4, <1>a, LimiterIs, VisitorEnds DEF G!WrongKey
<1>5. CASE G!RightKey(r)
  <2>1. limiter' \in G!Limiter /\ guesses' \in Nat
        /\ ~doing[r].paused
    BY <1>0, <1>5, LimiterIs DEF G!RightKey, G!Forgotten, VisitorSound, G!At
  <2> QED BY <1>5, <2>1, VisitorProceeds, VisitorEnds DEF G!RightKey
<1>6. CASE G!Leaves(r)
  BY <1>6, <1>a, VisitorEnds DEF G!Leaves
<1> QED BY <1>1, <1>2, <1>3, <1>4, <1>5, <1>6

\* Nobody's step: the cache expires, something else fails, the limiter forgets.
LEMMA AmbientPreserves ==
  ASSUME SettingInv, G!Expires \/ G!OtherFailure \/ G!WindowPasses \/ G!TableDropped
  PROVE  SettingInv'
<1>0. G!TypeOK /\ G!SettingFresh
  BY DEF SettingInv
<1>1. /\ doing' = doing /\ enabled' = enabled /\ unapplied' = unapplied
      /\ (cache' = cache \/ cache' = "none") /\ (failure' = failure \/ failure' = TRUE)
  BY DEF G!Expires, G!OtherFailure, G!WindowPasses, G!TableDropped, G!Forgotten
<1>2. limiter' \in G!Limiter /\ guesses' \in Nat
  <2>1. CASE G!Expires \/ G!OtherFailure
    BY <1>0, <2>1 DEF G!Expires, G!OtherFailure, G!TypeOK
  <2>2. CASE G!WindowPasses
    BY <1>0, <2>2, LimiterIs DEF G!WindowPasses
  <2>3. CASE G!TableDropped
    BY <1>0, <2>3, LimiterIs DEF G!TableDropped, G!Forgotten
  <2> QED BY <2>1, <2>2, <2>3
<1>3. G!TypeOK' /\ G!SettingFresh'
  <2>1. enabled \in G!Values /\ cache' \in G!Values \cup {"none"} /\ unapplied \in BOOLEAN
        /\ failure' \in BOOLEAN /\ doing \in [Visitors -> G!Doing]
    BY <1>0, <1>1 DEF G!TypeOK
  <2>2. G!TypeOK'
    BY <1>1, <1>2, <2>1 DEF G!TypeOK
  <2>3. failure => failure'
    BY <1>1
  <2>4. G!SettingFresh'
    BY <1>0, <1>1, <2>3 DEF G!SettingFresh
  <2> QED BY <2>2, <2>4
<1>4. \A q \in Visitors : VisitorSound(doing[q])'
  BY <1>1 DEF VisitorSound, SettingInv
<1> QED BY <1>3, <1>4 DEF SettingInv

LEMMA SettingInit == G!Init => SettingInv
<1> SUFFICES ASSUME G!Init PROVE SettingInv
  OBVIOUS
<1>1. limiter \in G!Limiter /\ guesses \in Nat
  BY VisitorGateAssumption DEF G!Init, G!Limiter
<1>2. G!TypeOK /\ G!SettingFresh
  BY <1>1, GateIdle DEF G!Init, G!TypeOK, G!SettingFresh, G!Values
<1>3. \A r \in Visitors : VisitorSound(doing[r])
  BY GateIdle DEF G!Init, VisitorSound
<1> QED BY <1>2, <1>3 DEF SettingInv

\* A value that was read before the operator's change is outdated, and a default that
\* stands in for one has latched the failure.
LEMMA SettingNext == ASSUME SettingInv, G!Next PROVE SettingInv'
BY PutPreserves, ReadPreserves, GatePreserves, AmbientPreserves DEF G!Next

-----------------------------------------------------------------------------
(* The limiter of the access key                                           *)

LEMMA KeyCounts ==
  /\ IsFiniteSet(AtKey) /\ Cardinality(AtKey) \in Nat
  /\ Cardinality(Visitors) \in Nat /\ Cardinality(AtKey) <= Cardinality(Visitors)
<1>1. AtKey \subseteq Visitors
  BY DEF AtKey
<1> QED BY <1>1, VisitorsAssumption, FS_Subset, FS_CardinalityType

\* A step after which nobody else compares a key.
LEMMA FewerAtKey ==
  ASSUME AtKey' \subseteq AtKey
  PROVE  Cardinality(AtKey') <= Cardinality(AtKey) /\ Cardinality(AtKey') \in Nat
BY KeyCounts, FS_Subset, FS_CardinalityType

LEMMA LimiterPreserves ==
  ASSUME G!TypeOK, LimiterInv, G!Next
  PROVE  LimiterInv'
<1>0. guesses \in Nat /\ Cardinality(AtKey) \in Nat /\ Cardinality(Visitors) \in Nat
  BY KeyCounts DEF G!TypeOK
<1>1. ASSUME NEW r \in Visitors, G!TryKey(r) PROVE LimiterInv'
  <2>1. guesses' = guesses /\ limiter' = limiter /\ guesses <= limiter.count
    BY <1>1 DEF G!TryKey, LimiterInv
  <2>2. AtKey' \subseteq Visitors
    BY DEF AtKey
  <2>3. Cardinality(AtKey') <= Cardinality(Visitors) /\ Cardinality(AtKey') \in Nat
    BY <2>2, VisitorsAssumption, FS_Subset, FS_CardinalityType
  <2> QED BY <1>0, <2>1, <2>3, LimiterIs, VisitorGateAssumption DEF LimiterInv
<1>2. ASSUME NEW r \in Visitors, G!WrongKey(r) PROVE LimiterInv'
  <2>1. AtKey' \subseteq AtKey \ {r} /\ r \in AtKey
    BY <1>2, GateIdle DEF G!WrongKey, G!Ends, G!Goes, AtKey, G!At, G!TypeOK
  <2>2. Cardinality(AtKey \ {r}) = Cardinality(AtKey) - 1 /\ IsFiniteSet(AtKey \ {r})
    BY <2>1, KeyCounts, FS_RemoveElement
  <2>3. Cardinality(AtKey') <= Cardinality(AtKey) - 1 /\ Cardinality(AtKey') \in Nat
    BY <2>1, <2>2, FS_Subset, FS_CardinalityType
  <2>4. guesses' = guesses + 1 /\ limiter' = G!Recorded
    BY <1>2 DEF G!WrongKey
  <2>5. guesses' + Cardinality(AtKey') < KeyAttempts + Cardinality(Visitors)
    BY <1>0, <2>3, <2>4, VisitorGateAssumption DEF LimiterInv
  <2>6. ~limiter'.blocked => guesses' <= limiter'.count
    BY <1>0, <2>4, LimiterIs, VisitorGateAssumption DEF LimiterInv
  <2> QED BY <2>5, <2>6 DEF LimiterInv
<1>3. ASSUME G!Forgotten \/ G!WindowPasses, AtKey' \subseteq AtKey PROVE LimiterInv'
  <2>1. guesses' = 0 /\ limiter'.count \in Nat
    <3>1. CASE G!Forgotten
      BY <3>1 DEF G!Forgotten
    <3>2. CASE G!WindowPasses
      BY <3>2, LimiterIs, VisitorGateAssumption DEF G!WindowPasses
    <3> QED BY <1>3, <3>1, <3>2
  <2> QED BY <1>0, <1>3, <2>1, FewerAtKey, VisitorGateAssumption DEF LimiterInv
<1>4. ASSUME UNCHANGED <<limiter, guesses>>, AtKey' \subseteq AtKey PROVE LimiterInv'
  BY <1>0, <1>4, FewerAtKey, VisitorGateAssumption DEF LimiterInv
<1>5. ASSUME NEW r \in Visitors, G!RightKey(r) PROVE LimiterInv'
  <2>1. AtKey' \subseteq AtKey
    BY <1>5, GateIdle DEF G!RightKey, G!Proceeds, G!Ends, G!Goes, AtKey, G!At, G!TypeOK
  <2> QED BY <1>3, <1>5, <2>1 DEF G!RightKey
<1>6. ASSUME NEW r \in Visitors, (\E v \in G!Values : G!PutWrites(r, v)) \/ G!PutResets(r)
      PROVE  LimiterInv'
  <2>1. AtKey' \subseteq AtKey
    BY <1>6, GateIdle DEF G!PutWrites, G!PutResets, AtKey, G!At, G!Idle, G!TypeOK, G!Doing
  <2>2. UNCHANGED <<limiter, guesses>>
    BY <1>6 DEF G!PutWrites, G!PutResets
  <2> QED BY <1>4, <2>1, <2>2
<1>7. ASSUME NEW r \in Visitors,
             \/ G!PutFails(r) \/ G!Visit(r) \/ G!CacheHit(r) \/ G!CacheMiss(r) \/ G!ReadSetting(r)
             \/ G!ReadFails(r) \/ G!StoreSetting(r) \/ G!ReadAgain(r) \/ G!UnderBudget(r)
             \/ G!GateOpen(r) \/ G!Leaves(r)
      PROVE  LimiterInv'
  <2>1. UNCHANGED <<limiter, guesses>>
    BY <1>7 DEF G!PutFails, G!Visit, G!CacheHit, G!CacheMiss, G!ReadSetting, G!ReadFails, G!StoreSetting,
                G!ReadAgain, G!UnderBudget, G!GateOpen, G!Leaves
  <2>2. PICK e : G!Goes(r, e) /\ e.step # "key"
    <3>1. \A step \in {"budget", "gate", "proxied", "setting"} :
             G!Proceeds(r, step) => \E e : G!Goes(r, e) /\ e.step # "key"
      BY DoingIs DEF G!Proceeds
    <3>2. G!Ends(r) => \E e : G!Goes(r, e) /\ e.step # "key"
      BY GateIdle DEF G!Ends
    <3>3. \A v \in G!Values : G!Decides(r, v) => \E e : G!Goes(r, e) /\ e.step # "key"
      BY <3>1, <3>2 DEF G!Decides
    <3>4. G!Visit(r) => \E e : G!Goes(r, e) /\ e.step # "key"
      <4> SUFFICES ASSUME G!Visit(r) PROVE \E e : G!Goes(r, e) /\ e.step # "key"
        OBVIOUS
      <4> DEFINE d == [G!Idle EXCEPT !.step = "setting", !.paused = enabled = "off" /\ ~unapplied]
      <4>1. G!Goes(r, d)
        BY DEF G!Visit
      <4>2. d.step = "setting"
        BY DEF G!Idle
      <4> HIDE DEF d
      <4> QED BY <4>1, <4>2
    <3>5. G!CacheMiss(r) \/ G!ReadSetting(r) \/ G!ReadFails(r) => \E e : G!Goes(r, e) /\ e.step # "key"
      BY DoingIs DEF G!CacheMiss, G!ReadSetting, G!ReadFails, G!TypeOK, G!Values
    <3>6. G!CacheHit(r) \/ G!StoreSetting(r) => \E e : G!Goes(r, e) /\ e.step # "key"
      BY <3>3, DoingIs DEF G!CacheHit, G!StoreSetting, G!TypeOK, G!Doing
    <3> QED BY <1>7, <3>1, <3>2, <3>4, <3>5, <3>6
            DEF G!PutFails, G!ReadAgain, G!UnderBudget, G!GateOpen, G!Leaves
  <2>3. AtKey' \subseteq AtKey
    BY <2>2 DEF G!Goes, AtKey, G!At, G!TypeOK
  <2> QED BY <1>4, <2>1, <2>3
<1>8. ASSUME G!Expires \/ G!OtherFailure \/ G!WindowPasses \/ G!TableDropped PROVE LimiterInv'
  <2>1. AtKey' = AtKey
    BY <1>8 DEF G!Expires, G!OtherFailure, G!WindowPasses, G!TableDropped, AtKey, G!At
  <2> QED BY <1>3, <1>4, <1>8, <2>1 DEF G!Expires, G!OtherFailure, G!TableDropped
<1> QED BY <1>1, <1>2, <1>5, <1>6, <1>7, <1>8 DEF G!Next

LEMMA LimiterInit == G!Init => LimiterInv
<1> SUFFICES ASSUME G!Init PROVE LimiterInv
  OBVIOUS
<1>1. AtKey = {}
  BY GateIdle DEF G!Init, AtKey, G!At
<1>2. Cardinality(AtKey) = 0
  BY <1>1, FS_EmptySet
<1> QED BY <1>2, KeyCounts, VisitorGateAssumption DEF G!Init, LimiterInv

LEMMA GateCount == \A T : G!Cardinality(T) = Cardinality(T)
BY DEF G!Cardinality, Cardinality

\* What the properties ask of the gate.
LEMMA GateProperties ==
  ASSUME SettingInv, LimiterInv
  PROVE  G!TypeOK /\ G!PauseObeyed /\ G!SettingFresh /\ G!KeyGuessesBounded
<1>1. G!TypeOK /\ G!PauseObeyed /\ G!SettingFresh
  BY DEF SettingInv, G!PauseObeyed, VisitorSound
<1>2. G!KeyGuessesBounded
  BY GateCount DEF LimiterInv, G!KeyGuessesBounded, AtKey
<1> QED BY <1>1, <1>2

-----------------------------------------------------------------------------
(* The control plane                                                       *)

\* The inductive invariants of the four modules, which share no state.
PlaneInv == AccountInv /\ CodesInv /\ SessionsInv /\ SettingInv /\ LimiterInv

\* What rests keeps its invariant.
LEMMA AccountsRestKeep == ASSUME AccountInv, AccountsRest PROVE AccountInv'
BY AccountNext DEF AccountsRest, accountVars

LEMMA CodesRestKeep == ASSUME CodesInv, CodesRest PROVE CodesInv'
<1>1. codes' = codes /\ checks' = checks
  BY DEF CodesRest
<1>2. C!TypeOK' /\ RowsHeld' /\ C!CodesProveBox'
  <2>1. C!TypeOK'
    BY <1>1 DEF CodesInv, C!TypeOK
  <2>2. RowsHeld'
    BY <1>1 DEF CodesInv, RowsHeld
  <2>3. C!CodesProveBox'
    BY <1>1, RacesAre DEF CodesInv, C!CodesProveBox, C!Row, C!At
  <2> QED BY <2>1, <2>2, <2>3
<1>3. \A i : C!Missing(i)' = C!Missing(i) /\ C!Passing(i)' = C!Passing(i)
  BY <1>1 DEF C!Missing, C!Passing, C!At
<1>4. \A i : Guesses(i)' = Guesses(i) /\ Uses(i)' = Uses(i)
  BY <1>1, <1>3 DEF Guesses, Uses
<1>5. C!CodeRacesBounded'
  BY <1>1, <1>2, <1>4, RacesAre, RacesWillBe DEF CodesInv
<1> QED BY <1>2, <1>5 DEF CodesInv

LEMMA SessionsRestKeep == ASSUME SessionsInv, SessionsRest PROVE SessionsInv'
BY DEF SessionsRest, SessionsInv, S!TypeOK, TokensSound, VisitSound, S!Granted, S!Valid, S!At,
       S!ProjectSessionsBacked, S!GrantsInUse, S!ResetEndsSessions

LEMMA GateRestsKeep ==
  ASSUME SettingInv, LimiterInv, GateRests
  PROVE  SettingInv' /\ LimiterInv'
BY DEF GateRests, SettingInv, G!TypeOK, G!SettingFresh, VisitorSound, LimiterInv, AtKey, G!At

THEOREM PlaneInvariant == PlaneSpec => []PlaneInv
<1>1. PlaneInit => PlaneInv
  BY AccountInit, CodesInit, SessionsInit, SettingInit, LimiterInit DEF PlaneInit, PlaneInv
<1>2. PlaneInv /\ [PlaneNext]_planeVars => PlaneInv'
  <2> SUFFICES ASSUME PlaneInv, [PlaneNext]_planeVars PROVE PlaneInv'
    OBVIOUS
  <2>0. AccountInv /\ CodesInv /\ SessionsInv /\ SettingInv /\ LimiterInv /\ G!TypeOK
    BY DEF PlaneInv, SettingInv
  <2>1. CASE Next /\ CodesRest /\ SessionsRest /\ GateRests
    <3>1. AccountInv'
      BY <2>0, <2>1, AccountNext
    <3> QED BY <2>0, <2>1, <3>1, CodesRestKeep, SessionsRestKeep, GateRestsKeep DEF PlaneInv
  <2>2. CASE C!Next /\ AccountsRest /\ SessionsRest /\ GateRests
    <3>1. CodesInv'
      BY <2>0, <2>2, CodesStep
    <3> QED BY <2>0, <2>2, <3>1, AccountsRestKeep, SessionsRestKeep, GateRestsKeep DEF PlaneInv
  <2>3. CASE S!Next /\ CodesRest /\ AccountsRest /\ GateRests
    <3>1. SessionsInv'
      BY <2>0, <2>3, SessionsStep
    <3> QED BY <2>0, <2>3, <3>1, CodesRestKeep, AccountsRestKeep, GateRestsKeep DEF PlaneInv
  <2>4. CASE G!Next /\ CodesRest /\ AccountsRest /\ SessionsRest
    <3>1. SettingInv' /\ LimiterInv'
      BY <2>0, <2>4, SettingNext, LimiterPreserves
    <3> QED BY <2>0, <2>4, <3>1, CodesRestKeep, AccountsRestKeep, SessionsRestKeep DEF PlaneInv
  <2>5. CASE UNCHANGED planeVars
    <3>1. CodesRest /\ AccountsRest /\ SessionsRest /\ GateRests
      BY <2>5 DEF planeVars, CodesRest, AccountsRest, SessionsRest, GateRests, accountVars,
                  C!codeVars, S!sessionVars, G!gateVars
    <3> QED BY <2>0, <3>1, CodesRestKeep, AccountsRestKeep, SessionsRestKeep, GateRestsKeep
            DEF PlaneInv
  <2> QED BY <2>1, <2>2, <2>3, <2>4, <2>5 DEF PlaneNext
<1> QED BY <1>1, <1>2, PTL DEF PlaneSpec

\* Every variable of the control plane keeps its type.
THEOREM PlaneTypes == PlaneSpec => []PlaneTypeOK
<1>1. PlaneInv => PlaneTypeOK
  BY GateProperties DEF PlaneInv, AccountInv, CodesInv, SessionsInv, PlaneTypeOK
<1> QED BY <1>1, PlaneInvariant, PTL

\* However many requests come between a check and what it permits -- the attempts and the
\* use of a code (codes.go), the absence of an administrator (setup.go), the wrong keys of
\* a tunnel (gateway.go) -- the limit is exceeded by no more than the requests in progress.
THEOREM RacesStayBounded == PlaneSpec => []RacesBounded
<1>1. PlaneInv => RacesBounded
  BY GateProperties DEF PlaneInv, AccountInv, CodesInv, RacesBounded
<1> QED BY <1>1, PlaneInvariant, PTL

\* A project session has its grant and the login behind it, and a grant that counts
\* against the budget of a login is in use (sso.go, project_sso.go).
THEOREM SessionsStayBacked == PlaneSpec => []SessionsBacked
<1>1. PlaneInv => SessionsBacked
  BY DEF PlaneInv, SessionsInv, SessionsBacked
<1> QED BY <1>1, PlaneInvariant, PTL

\* A session of an older password is one that a reset has missed, or that a reset under
\* way is about to delete (setup.go).
THEOREM ResetsEndSessions == PlaneSpec => []ResetEndsSessions
<1>1. PlaneInv => ResetEndsSessions
  BY DEF PlaneInv, SessionsInv, ResetEndsSessions
<1> QED BY <1>1, PlaneInvariant, PTL

\* No visitor passes tunnels that were paused when he came, and the cached setting is
\* right, or about to be emptied, or the gateway refuses (gateway.go, tunnels.go).
THEOREM PauseStaysObeyed == PlaneSpec => []PauseObeyed
<1>1. PlaneInv => PauseObeyed
  BY GateProperties DEF PlaneInv, PauseObeyed
<1> QED BY <1>1, PlaneInvariant, PTL
=============================================================================
