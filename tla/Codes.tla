------------------------------- MODULE Codes --------------------------------
(***************************************************************************)
(* The verification codes of internal/mailer/mailer.go: SendCode inserts a *)
(* row, mails the code and deletes the row if the mail fails; CheckCode    *)
(* selects the newest usable row, compares, and counts a miss or consumes  *)
(* the code in a second statement.  Requests run between the statements of *)
(* each other.                                                             *)
(*                                                                         *)
(* An address and a purpose, by which every query selects, are one Box.    *)
(* Whether a caller may ask for a code is decided by its handler (Accounts *)
(* and setup.go); here any box may be asked for at any time.               *)
(***************************************************************************)
EXTENDS ControlPlane, Sequences

VARIABLES
    codes,  \* email_verification_codes, in the order of their ids
    checks  \* the requests in SendCode or CheckCode, with their variables

codeVars == <<codes, checks>>

\* state: usable, consumed, or of no use any more: past expires_at or deleted.
\* passed: how many checks the code has passed (history).
Code == [box: Boxes, attempts: Nat, state: {"usable", "used", "gone"}, passed: Nat]

\* guess: the row whose code the client presents, 0 if it guesses wrong.
\* row: the row that the request has inserted or selected.
Check == [step: {"idle", "mail", "withdraw", "select", "miss", "pass"},
          box: Boxes \cup {None}, guess: 0 .. MaxCodes, row: 0 .. MaxCodes]

Idle == [step |-> "idle", box |-> None, guess |-> 0, row |-> 0]

Init == codes = <<>> /\ checks = [r \in Requests |-> Idle]

At(r, step) == checks[r].step = step
Row(r) == codes[checks[r].row]
Goes(r, c) == checks' = [checks EXCEPT ![r] = c]
Ends(r) == Goes(r, Idle)

-----------------------------------------------------------------------------
(* SendCode                                                                *)

\* The limits on the rate of codes have been read and allow this one.
Send(r, b) ==
    /\ At(r, "idle") /\ Len(codes) < MaxCodes
    /\ codes' = Append(codes, [box |-> b, attempts |-> 0, state |-> "usable", passed |-> 0])
    /\ Goes(r, [Idle EXCEPT !.step = "mail", !.box = b, !.row = Len(codes) + 1])

MailLeaves(r) ==
    /\ At(r, "mail")
    /\ Ends(r)
    /\ UNCHANGED codes

\* The mail server reports an error, though the mail may have left.
MailFails(r) ==
    /\ At(r, "mail")
    /\ Goes(r, [checks[r] EXCEPT !.step = "withdraw"])
    /\ UNCHANGED codes

\* The row is deleted; an error of the DELETE is ignored.
Withdraw(r) ==
    /\ At(r, "withdraw")
    /\ \/ codes' = [codes EXCEPT ![checks[r].row].state = "gone"]
       \/ UNCHANGED codes
    /\ Ends(r)

Expire(i) ==
    /\ codes[i].state = "usable"
    /\ codes' = [codes EXCEPT ![i].state = "gone"]
    /\ UNCHANGED checks

-----------------------------------------------------------------------------
(* CheckCode                                                               *)

\* A client knows the codes that were sent to it.
Begin(r, b) ==
    /\ At(r, "idle")
    /\ \E g \in {0} \cup {i \in DOMAIN codes : codes[i].box = b} :
          Goes(r, [Idle EXCEPT !.step = "select", !.box = b, !.guess = g])
    /\ UNCHANGED codes

\* Seeded fault: used = 0 is missing from the query.
UsableTwice(i, b) == codes[i].box = b /\ codes[i].state # "gone"

Usable(i, b) == codes[i].box = b /\ codes[i].state = "usable"

Newest(i, b) == Usable(i, b) /\ \A j \in DOMAIN codes : Usable(j, b) => j <= i

Guessable(i) == codes[i].attempts < MaxAttempts

Select(r) ==
    /\ At(r, "select")
    /\ \E i \in DOMAIN codes :
        /\ Newest(i, checks[r].box) /\ Guessable(i)
        /\ Goes(r, [checks[r] EXCEPT
                       !.row = i, !.step = IF checks[r].guess = i THEN "pass" ELSE "miss"])
    /\ UNCHANGED codes

Refuse(r) ==
    /\ At(r, "select")
    /\ \A i \in DOMAIN codes : Newest(i, checks[r].box) => ~Guessable(i)
    /\ Ends(r)
    /\ UNCHANGED codes

CountMiss(r) ==
    /\ At(r, "miss")
    /\ codes' = [codes EXCEPT ![checks[r].row].attempts = @ + 1]
    /\ Ends(r)

\* The request has passed, even if the row was used or deleted meanwhile.
Pass(r) ==
    /\ At(r, "pass")
    /\ codes' = [codes EXCEPT
                    ![checks[r].row] = [Row(r) EXCEPT !.passed = @ + 1,
                                                      !.state = IF @ = "gone" THEN @ ELSE "used"]]
    /\ Ends(r)

\* A statement fails: a miss is not counted, a match is not accepted.
StatementFails(r) ==
    /\ checks[r].step \in {"select", "miss", "pass"}
    /\ Ends(r)
    /\ UNCHANGED codes

Next ==
    \/ \E r \in Requests :
        \/ \E b \in Boxes : Send(r, b) \/ Begin(r, b)
        \/ MailLeaves(r) \/ MailFails(r) \/ Withdraw(r)
        \/ Select(r) \/ Refuse(r) \/ CountMiss(r) \/ Pass(r) \/ StatementFails(r)
    \/ \E i \in DOMAIN codes : Expire(i)

Spec == Init /\ [][Next]_codeVars

-----------------------------------------------------------------------------
(* Properties                                                              *)

TypeOK ==
    /\ codes \in Seq(Code) /\ Len(codes) <= MaxCodes
    /\ checks \in [Requests -> Check]

Missing(i) == {r \in Requests : At(r, "miss") /\ checks[r].row = i}
Passing(i) == {r \in Requests : At(r, "pass") /\ checks[r].row = i}

\* "Max 5 attempts per code" (mailer.go:209): a miss is counted in a statement
\* after the one that reads the count, so requests that run together exceed
\* the limit, but by no more than there are others in progress.  It is the
\* counted misses that are bounded: the error of the UPDATE is dropped, and a
\* miss it does not count is free (StatementFails).
GuessesBounded ==
    \A i \in DOMAIN codes :
        codes[i].attempts + Cardinality(Missing(i)) < MaxAttempts + Cardinality(Requests)

\* A code is consumed after it is found unused: it may be accepted more than
\* once, but only by requests that were in progress together.
UsesBounded ==
    \A i \in DOMAIN codes :
        codes[i].passed + Cardinality(Passing(i)) <= Cardinality(Requests)

\* A request is about to pass, or fail, on a row sent to its own address for
\* its own purpose, and passes only with the code of that row.
CodesProveBox ==
    \A r \in Requests :
        checks[r].step \in {"miss", "pass"} =>
            /\ checks[r].row \in DOMAIN codes /\ Row(r).box = checks[r].box
            /\ At(r, "pass") => checks[r].guess = checks[r].row

CodeRacesBounded == GuessesBounded /\ UsesBounded /\ CodesProveBox
=============================================================================
