-------------------------- MODULE ControlPlaneParts --------------------------
(***************************************************************************)
(* The modules of the control plane side by side.  They share no state, so *)
(* a behaviour is one of them while the others rest: TLC explores the      *)
(* states of each, and not their product.                                  *)
(***************************************************************************)
EXTENDS Accounts

CONSTANT Visitors \* requests of VisitorGate

ASSUME VisitorsAssumption == IsFiniteSet(Visitors) /\ Visitors # {}

VARIABLES
    part,
    codes, checks,
    epoch, tokens, grants, leaked, visits,
    enabled, cache, unapplied, failure, limiter, guesses, doing

C == INSTANCE Codes
S == INSTANCE Sessions
G == INSTANCE VisitorGate WITH Requests <- Visitors

planeVars == <<part, accountVars, C!codeVars, S!sessionVars, G!gateVars>>

PlaneInit ==
    /\ part \in {"codes", "accounts", "sessions", "gate"}
    /\ Init /\ C!Init /\ S!Init /\ G!Init

CodesRest == UNCHANGED <<codes, checks>>
AccountsRest == UNCHANGED <<users, identity, registration, googleOn, calls, misreads>>
SessionsRest == UNCHANGED <<epoch, tokens, grants, leaked, visits>>
GateRests == UNCHANGED <<enabled, cache, unapplied, failure, limiter, guesses, doing>>

PlaneNext ==
    /\ UNCHANGED part
    /\ \/ part = "accounts" /\ Next /\ CodesRest /\ SessionsRest /\ GateRests
       \/ part = "codes" /\ C!Next /\ AccountsRest /\ SessionsRest /\ GateRests
       \/ part = "sessions" /\ S!Next /\ CodesRest /\ AccountsRest /\ GateRests
       \/ part = "gate" /\ G!Next /\ CodesRest /\ AccountsRest /\ SessionsRest

PlaneSpec == PlaneInit /\ [][PlaneNext]_planeVars

-----------------------------------------------------------------------------
(* Properties of the four modules, with EveryAccountHasAWayIn and            *)
(* AccountChangesEarned of Accounts                                          *)

\* Every variable keeps its type.
PlaneTypeOK == TypeOK /\ C!TypeOK /\ S!TypeOK /\ G!TypeOK

\* Checks that are made before what they permit is counted -- the attempts and
\* the use of a code, the absence of an administrator, the attempts at a key --
\* are exceeded by no more than the requests in progress; and a failed read of
\* the administrators, whose error is dropped, lets in at most one more.
RacesBounded ==
    /\ C!CodeRacesBounded
    /\ SetupsBounded
    /\ G!KeyGuessesBounded

\* Project sessions and grants hang together.
SessionsBacked == S!ProjectSessionsBacked /\ S!GrantsInUse

\* What a password reset leaves behind.
ResetEndsSessions == S!ResetEndsSessions

\* The operator's pause, and the cache behind it.
PauseObeyed == G!PauseObeyed /\ G!SettingFresh
=============================================================================
