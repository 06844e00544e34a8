--------------------------- MODULE AccountsProofs ---------------------------
(***************************************************************************)
(* Proofs about Accounts, for any sets of requests, addresses and Google   *)
(* subjects.  AccountInv adds to the properties what a request still knows *)
(* at its next statement: a password that was seen stays, an ordinary      *)
(* account stays ordinary.                                                 *)
(***************************************************************************)
EXTENDS Accounts, FiniteSetTheorems, TLAPS

GoogleSteps == {"identity", "address", "open", "claim", "create", "link"}

\* What a request with the local variables c has found out and may rely on.
Sound(c) ==
    /\ c.step # "idle" => c.who \in Accounts
    /\ c.step \in GoogleSteps => c.sub \in Subs
    /\ c.step = "claim" => Claimable(c.who)
    /\ c.step = "unlink" => Unlinkable(c.who)
    /\ c.op = "reset" => c.who \in Accounts /\ Exists(c.who)

AccountInv ==
    /\ TypeOK
    /\ \A r \in Requests : Sound(calls[r])
    /\ EveryAccountHasAWayIn
    /\ IsFiniteSet(Administrators) /\ SetupsBounded

-----------------------------------------------------------------------------
(* Lemmas                                                                  *)

\* Accounts that exist keep their role and, once set, their password.
UsersKept ==
    \A a \in Accounts : Exists(a) =>
        /\ users'[a].role = users[a].role /\ Exists(a)'
        /\ users[a].password = "set" => users'[a].password = "set"

LEMMA UsersAre ==
  ASSUME TypeOK
  PROVE  \A a \in Accounts :
           /\ Exists(a) <=> users[a].role \in {"user", "admin"}
           /\ Exists(a) <=> users[a].password \in {"none", "set"} /\ users[a].role # "none"
           /\ Exists(a) => users[a] \in User
BY DEF TypeOK, Exists, User, Absent

\* What a request relies on survives every change that keeps users.
LEMMA SoundKept ==
  ASSUME TypeOK, TypeOK', UsersKept, NEW c \in Call, Sound(c)
  PROVE  Sound(c)'
<1>1. \A a \in Accounts : Claimable(a) => Claimable(a)'
  BY UsersAre DEF UsersKept, Claimable
<1>2. \A a \in Accounts : Unlinkable(a) => Unlinkable(a)'
  <2> SUFFICES ASSUME NEW a \in Accounts, Unlinkable(a) PROVE Unlinkable(a)'
    OBVIOUS
  <2>1. users[a] # Absent
    BY DEF Unlinkable, Absent
  <2> QED BY <2>1 DEF UsersKept, Unlinkable, Exists
<1>3. c.step \in {"claim", "unlink"} => c.who \in Accounts
  BY DEF Sound
<1>4. \A a \in Accounts : Exists(a) => Exists(a)'
  BY DEF UsersKept
<1> QED BY <1>1, <1>2, <1>3, <1>4 DEF Sound

\* A step that changes the variables of one request and no row.
LEMMA CallStep ==
  ASSUME AccountInv, NEW r \in Requests, NEW c \in Call, Sound(c),
         misreads' \in misreads .. MaxMisreads,
         c.op = "setup" => calls[r].op = "setup" \/ ~HasAdmin \/ misreads' = misreads + 1,
         Goes(r, c), UNCHANGED <<users, identity>>,
         registration' \in BOOLEAN, googleOn' \in BOOLEAN
  PROVE  AccountInv'
<1>0. misreads \in Nat /\ misreads' \in 0 .. MaxMisreads /\ misreads' >= misreads
  BY AccountsAssumption DEF AccountInv, TypeOK
<1>1. TypeOK'
  BY <1>0 DEF AccountInv, TypeOK, Goes
<1>2. \A q \in Requests : calls'[q] \in Call /\ Sound(calls'[q])
  BY DEF AccountInv, TypeOK, Goes
<1>3. UsersKept
  BY DEF UsersKept, Exists
<1>4. \A q \in Requests : Sound(calls[q])'
  BY <1>2 DEF Sound, Claimable, Unlinkable, Exists
<1>5. EveryAccountHasAWayIn'
  BY DEF AccountInv, EveryAccountHasAWayIn, Exists, Unlinked
<1>6. Administrators' = Administrators
  BY DEF Administrators
<1>7. SetupsBounded'
  <2>0. IsFiniteSet(Requests) /\ IsFiniteSet(Administrators) /\ SetupsBounded
        /\ SettingUp \subseteq Requests /\ SettingUp' \subseteq Requests
    BY RequestsAssumption DEF AccountInv, SettingUp
  <2>1. IsFiniteSet(SettingUp) /\ IsFiniteSet(SettingUp')
    BY <2>0, FS_Subset
  <2>2. Cardinality(SettingUp) \in Nat /\ Cardinality(SettingUp') \in Nat
        /\ Cardinality(Administrators) \in Nat /\ Cardinality(Requests) \in Nat
    BY <2>0, <2>1, FS_CardinalityType
  <2>3. CASE SettingUp' \subseteq SettingUp
    <3>1. Cardinality(SettingUp') <= Cardinality(SettingUp)
      BY <2>1, <2>3, FS_Subset
    <3> QED BY <1>0, <1>6, <2>0, <2>2, <3>1 DEF SetupsBounded
  <2>4. CASE ~(SettingUp' \subseteq SettingUp) /\ ~HasAdmin
    <3>1. Cardinality(Administrators') = 0
      BY <1>6, <2>4, FS_EmptySet DEF Administrators, HasAdmin, Accounts
    <3>2. Cardinality(SettingUp') <= Cardinality(Requests)
      BY <2>0, FS_Subset
    <3> QED BY <1>0, <2>2, <3>1, <3>2 DEF SetupsBounded
  <2>5. CASE ~(SettingUp' \subseteq SettingUp) /\ HasAdmin
    <3>1. misreads' = misreads + 1
      BY <2>5 DEF SettingUp, Goes, AccountInv, TypeOK
    <3> DEFINE S == SettingUp \cup {r}
    <3>2. SettingUp' \subseteq S /\ r \in Requests
      BY DEF SettingUp, Goes, AccountInv, TypeOK
    <3>3. IsFiniteSet(S) /\ (Cardinality(S) = Cardinality(SettingUp)
                             \/ Cardinality(S) = Cardinality(SettingUp) + 1)
      BY <2>1, FS_AddElement
    <3> HIDE DEF S
    <3>4. Cardinality(SettingUp') <= Cardinality(S)
      BY <3>2, <3>3, FS_Subset
    <3> QED BY <1>0, <1>6, <2>0, <2>2, <3>1, <3>3, <3>4 DEF SetupsBounded
  <2> QED BY <2>3, <2>4, <2>5
<1> QED BY <1>1, <1>4, <1>5, <1>6, <1>7 DEF AccountInv

\* A request that ends relies on nothing.
LEMMA IdleSound == Idle \in Call /\ Sound(Idle) /\ Sound(Idle)' /\ Idle.op # "setup"
BY DEF Idle, Call, Sound, GoogleSteps

\* What fails and is not reported is counted.
LEMMA MisreadsGrow ==
  ASSUME AccountInv
  PROVE  /\ UNCHANGED misreads => misreads' \in misreads .. MaxMisreads
         /\ \A answer, instead \in BOOLEAN :
               Passes(answer, instead) =>
                  /\ misreads' \in misreads .. MaxMisreads
                  /\ answer \/ misreads' = misreads + 1
BY AccountsAssumption DEF AccountInv, TypeOK, Passes

\* A request begins.
LEMMA StartsSound ==
  ASSUME AccountInv, NEW r \in Requests, NEW step \in {"check", "known", "identity", "link", "unlink"},
         NEW op \in {"none", "setup", "register", "reset", "burn"},
         NEW who \in Accounts, NEW sub \in Subs \cup {None}, Starts(r, step, op, who, sub),
         step \in GoogleSteps => sub \in Subs, step = "unlink" => Unlinkable(who),
         misreads' \in misreads .. MaxMisreads,
         op = "setup" => ~HasAdmin \/ misreads' = misreads + 1, op = "reset" => Exists(who),
         UNCHANGED <<users, identity, registration, googleOn>>
  PROVE  AccountInv'
<1> DEFINE c == [step |-> step, op |-> op, who |-> who, sub |-> sub]
<1>1. c \in Call /\ Goes(r, c)
  BY DEF Call, Starts
<1>2. Sound(c) /\ (c.op = "setup" => ~HasAdmin \/ misreads' = misreads + 1)
  BY DEF Sound
<1>3. registration' \in BOOLEAN /\ googleOn' \in BOOLEAN
  BY DEF AccountInv, TypeOK
<1> HIDE DEF c
<1> QED BY <1>1, <1>2, <1>3, CallStep

\* A request goes on, with what it knew and what it has just read.
LEMMA ProceedsSound ==
  ASSUME AccountInv, NEW r \in Requests, ~At(r, "idle"),
         NEW step \in {"check", "write", "address", "open", "claim", "create"},
         Proceeds(r, step), step \in GoogleSteps => calls[r].step \in GoogleSteps,
         step = "claim" => Claimable(calls[r].who),
         misreads' \in misreads .. MaxMisreads,
         UNCHANGED <<users, identity, registration, googleOn>>
  PROVE  AccountInv'
<1> DEFINE c == [calls[r] EXCEPT !.step = step]
<1>0. calls[r] \in Call /\ Sound(calls[r])
  BY DEF AccountInv, TypeOK
<1>1. /\ c \in Call /\ Goes(r, c) /\ c.op = calls[r].op /\ c.step = step
      /\ c.who = calls[r].who /\ c.sub = calls[r].sub
  BY <1>0 DEF Call, Proceeds
<1> HIDE DEF c
<1>2. Sound(c)
  BY <1>0, <1>1 DEF Sound, At
<1>3. registration' \in BOOLEAN /\ googleOn' \in BOOLEAN
  BY DEF AccountInv, TypeOK
<1> QED BY <1>1, <1>2, <1>3, CallStep

\* A request ends and has written nothing.
LEMMA EndsSound ==
  ASSUME AccountInv, NEW r \in Requests, Ends(r),
         UNCHANGED <<users, identity, registration, googleOn, misreads>>
  PROVE  AccountInv'
BY IdleSound, MisreadsGrow, CallStep DEF Ends, AccountInv, TypeOK

-----------------------------------------------------------------------------
(* Requests that read                                                      *)

LEMMA CodeReads ==
  ASSUME AccountInv, NEW r \in Requests,
         \/ \E e \in Emails : SetupInitial(r, e) \/ Register(r, e) \/ PasswordReset(r, e)
         \/ RegisterUnknown(r) \/ CodeAccepted(r) \/ GiveUp(r)
  PROVE  AccountInv'
<1>1. ASSUME NEW e \in Emails, SetupInitial(r, e) PROVE AccountInv'
  <2>1. misreads' \in misreads .. MaxMisreads /\ (~HasAdmin \/ misreads' = misreads + 1)
    BY <1>1, MisreadsGrow DEF SetupInitial, SetupOpen
  <2> QED BY <1>1, <2>1, StartsSound DEF SetupInitial, Accounts, GoogleSteps
<1>2. ASSUME NEW e \in Emails, Register(r, e) PROVE AccountInv'
  <2>1. misreads' \in misreads .. MaxMisreads
    BY <1>2, MisreadsGrow DEF Register, AccountInv, TypeOK
  <2> QED BY <1>2, <2>1, StartsSound DEF Register, Accounts, GoogleSteps
<1>3. ASSUME NEW e \in Emails, PasswordReset(r, e) PROVE AccountInv'
  <2>1. CASE Exists(e) /\ Starts(r, "check", "reset", e, None) /\ UNCHANGED misreads
    BY <1>3, <2>1, MisreadsGrow, StartsSound DEF PasswordReset, Accounts, GoogleSteps
  <2>2. CASE Passes(~Exists(e), TRUE) /\ Starts(r, "check", "burn", e, None)
    <3>1. misreads' \in misreads .. MaxMisreads
      BY <2>2, MisreadsGrow
    <3> QED BY <1>3, <2>2, <3>1, StartsSound DEF PasswordReset, Accounts, GoogleSteps
  <2> QED BY <1>3, <2>1, <2>2 DEF PasswordReset
<1>4. CASE RegisterUnknown(r)
  <2>1. misreads' \in misreads .. MaxMisreads
    BY <1>4, MisreadsGrow DEF RegisterUnknown
  <2> QED BY <1>4, <2>1, ProceedsSound DEF RegisterUnknown, At, GoogleSteps
<1>5. CASE CodeAccepted(r)
  BY <1>5, MisreadsGrow, ProceedsSound DEF CodeAccepted, At, GoogleSteps
<1>6. CASE GiveUp(r)
  BY <1>6, EndsSound DEF GiveUp
<1> QED BY <1>1, <1>2, <1>3, <1>4, <1>5, <1>6

LEMMA GoogleReads ==
  ASSUME AccountInv, NEW r \in Requests,
         \/ \E s \in Subs : \/ \E e \in Emails : GoogleLogin(r, s, e)
                            \/ \E a \in Accounts : LinkOwn(r, a, s)
         \/ \E a \in Accounts : UnlinkOwn(r, a)
         \/ ByIdentity(r) \/ ByAddress(r) \/ RegistrationOpen(r)
  PROVE  AccountInv'
<1>1. ASSUME NEW s \in Subs, NEW e \in Emails, GoogleLogin(r, s, e) PROVE AccountInv'
  <2>1. misreads' \in misreads .. MaxMisreads
    BY <1>1, MisreadsGrow, AccountsAssumption DEF GoogleLogin, AccountInv, TypeOK
  <2> QED BY <1>1, <2>1, StartsSound DEF GoogleLogin, Accounts
<1>2. ASSUME NEW s \in Subs, NEW a \in Accounts, LinkOwn(r, a, s) PROVE AccountInv'
  <2>1. misreads' \in misreads .. MaxMisreads
    BY <1>2, MisreadsGrow, AccountsAssumption DEF LinkOwn, AccountInv, TypeOK
  <2> QED BY <1>2, <2>1, StartsSound DEF LinkOwn
<1>3. ASSUME NEW a \in Accounts, UnlinkOwn(r, a) PROVE AccountInv'
  BY <1>3, MisreadsGrow, StartsSound DEF UnlinkOwn, GoogleSteps
<1>4. CASE ByIdentity(r)
  BY <1>4, MisreadsGrow, ProceedsSound, EndsSound DEF ByIdentity, At, GoogleSteps
<1>5. CASE ByAddress(r)
  BY <1>5, MisreadsGrow, ProceedsSound DEF ByAddress, At, GoogleSteps
<1>6. CASE RegistrationOpen(r)
  <2>1. misreads' \in misreads .. MaxMisreads
    BY <1>6, MisreadsGrow DEF RegistrationOpen, AccountInv, TypeOK
  <2> QED BY <1>6, <2>1, ProceedsSound DEF RegistrationOpen, At, GoogleSteps
<1> QED BY <1>1, <1>2, <1>3, <1>4, <1>5, <1>6

-----------------------------------------------------------------------------
(* Requests and operators that write                                       *)

\* What a row may become, and what then remains to be shown.
LEMMA WriteStep ==
  ASSUME AccountInv, UsersKept, users' \in [Accounts -> User \cup {Absent}],
         identity' \in [Subs -> Accounts \cup {None}],
         registration' \in BOOLEAN, googleOn' \in BOOLEAN, misreads' = misreads,
         calls' = calls \/ \E r \in Requests : Ends(r),
         EveryAccountHasAWayIn', IsFiniteSet(Administrators'), SetupsBounded'
  PROVE  AccountInv'
<1>1. TypeOK'
  BY IdleSound DEF AccountInv, TypeOK, Ends, Goes
<1>2. \A c \in Call : Sound(c) => Sound(c)'
  BY <1>1, SoundKept DEF AccountInv
<1>3. \A q \in Requests : calls'[q] \in Call /\ (calls'[q] = calls[q] \/ calls'[q] = Idle)
  BY <1>1 DEF AccountInv, TypeOK, Ends, Goes
<1>4. ASSUME NEW q \in Requests PROVE Sound(calls[q])'
  <2>0. calls[q] \in Call /\ Sound(calls[q])
    BY DEF AccountInv, TypeOK
  <2>1. CASE calls'[q] = Idle
    BY <2>1 DEF Idle, Sound, GoogleSteps, Claimable, Unlinkable, Exists
  <2>2. CASE calls'[q] = calls[q]
    <3>1. PICK c \in Call : c = calls[q]
      BY <2>0
    <3>2. Sound(c)'
      BY <3>1, <2>0, <1>2
    <3>3. /\ c.step = "claim" => users'[c.who].role = "user"
          /\ c.step = "unlink" => users'[c.who].password = "set"
          /\ c.step # "idle" => c.who \in Accounts
          /\ c.step \in GoogleSteps => c.sub \in Subs
          /\ c.op = "reset" => c.who \in Accounts /\ users'[c.who] # Absent
      BY <3>2 DEF Sound, Claimable, Unlinkable, Exists
    <3> QED BY <3>1, <3>3, <2>2 DEF Sound, Claimable, Unlinkable, Exists
  <2> QED BY <1>3, <2>1, <2>2
<1> QED BY <1>1, <1>4 DEF AccountInv

\* Steps that make no administrator leave the bound as it is.
LEMMA AdministratorsKept ==
  ASSUME AccountInv, Administrators' = Administrators, misreads' = misreads,
         calls' = calls \/ \E r \in Requests : Ends(r)
  PROVE  IsFiniteSet(Administrators') /\ SetupsBounded'
<1>1. SettingUp' \subseteq SettingUp /\ SettingUp \subseteq Requests
  BY IdleSound DEF SettingUp, Ends, Goes, AccountInv, TypeOK
<1>2. IsFiniteSet(SettingUp) /\ IsFiniteSet(SettingUp')
      /\ Cardinality(SettingUp') <= Cardinality(SettingUp)
  BY <1>1, RequestsAssumption, FS_Subset
<1>3. Cardinality(SettingUp) \in Nat /\ Cardinality(SettingUp') \in Nat
      /\ Cardinality(Administrators) \in Nat /\ Cardinality(Requests) \in Nat
  BY <1>2, RequestsAssumption, FS_CardinalityType DEF AccountInv
<1>4. misreads \in Nat
  BY AccountsAssumption DEF AccountInv, TypeOK
<1> QED BY <1>2, <1>3, <1>4 DEF AccountInv, SetupsBounded

\* A new row, if there was none.
LEMMA CreateUserIs ==
  ASSUME AccountInv, NEW r \in Requests, NEW role \in {"user", "admin"},
         NEW password \in {"none", "set"}, calls[r].who \in Accounts,
         CreateUser(r, role, password)
  PROVE  /\ users' \in [Accounts -> User \cup {Absent}] /\ UsersKept
         /\ users'[calls[r].who] = [role |-> role, password |-> password]
         /\ \A a \in Accounts \ {calls[r].who} : users'[a] = users[a]
         /\ calls[r].who \notin Administrators
BY UsersAre DEF AccountInv, TypeOK, CreateUser, UsersKept, Exists, User, Absent, Administrators

LEMMA SetupPreserves ==
  ASSUME AccountInv, NEW r \in Requests, SetupWrites(r)
  PROVE  AccountInv'
<1> DEFINE e == calls[r].who
<1>0. e \in Accounts /\ CreateUser(r, "admin", "set") /\ calls[r].op = "setup"
      /\ UNCHANGED <<identity, registration, googleOn, misreads>> /\ Ends(r)
  BY DEF SetupWrites, At, AccountInv, Sound
<1>1. /\ users' \in [Accounts -> User \cup {Absent}] /\ UsersKept
      /\ users'[e] = [role |-> "admin", password |-> "set"]
      /\ \A a \in Accounts \ {e} : users'[a] = users[a]
      /\ e \notin Administrators
  BY <1>0, CreateUserIs
<1>2. EveryAccountHasAWayIn'
  BY <1>0, <1>1 DEF EveryAccountHasAWayIn, AccountInv, Exists, Unlinked
<1>3. Administrators' \subseteq Administrators \cup {e}
  BY <1>1 DEF Administrators, Accounts
<1>4. SettingUp' \subseteq SettingUp \ {r} /\ r \in SettingUp /\ SettingUp \subseteq Requests
  BY <1>0, IdleSound DEF SettingUp, Ends, Goes, AccountInv, TypeOK
<1>5. /\ IsFiniteSet(Administrators \cup {e})
      /\ Cardinality(Administrators \cup {e}) = Cardinality(Administrators) + 1
  BY <1>1, FS_AddElement DEF AccountInv
<1>6. IsFiniteSet(Administrators') /\ Cardinality(Administrators') <= Cardinality(Administrators) + 1
  BY <1>3, <1>5, FS_Subset
<1>7. /\ IsFiniteSet(SettingUp) /\ Cardinality(SettingUp \ {r}) = Cardinality(SettingUp) - 1
      /\ IsFiniteSet(SettingUp \ {r})
  BY <1>4, RequestsAssumption, FS_Subset, FS_RemoveElement
<1>8. IsFiniteSet(SettingUp') /\ Cardinality(SettingUp') <= Cardinality(SettingUp) - 1
  BY <1>4, <1>7, FS_Subset
<1>9. SetupsBounded'
  <2>1. /\ Cardinality(SettingUp) \in Nat /\ Cardinality(SettingUp') \in Nat
        /\ Cardinality(Administrators) \in Nat /\ Cardinality(Administrators') \in Nat
        /\ Cardinality(Requests) \in Nat
    BY <1>6, <1>7, <1>8, RequestsAssumption, FS_CardinalityType DEF AccountInv
  <2>2. Cardinality(Administrators) + Cardinality(SettingUp) <= Cardinality(Requests) + misreads
        /\ misreads \in Nat /\ misreads' = misreads
    BY <1>0, AccountsAssumption DEF AccountInv, SetupsBounded, TypeOK
  <2> QED BY <2>1, <2>2, <1>6, <1>8 DEF SetupsBounded
<1>10. /\ identity' \in [Subs -> Accounts \cup {None}]
       /\ registration' \in BOOLEAN /\ googleOn' \in BOOLEAN
  BY <1>0 DEF AccountInv, TypeOK
<1> QED BY <1>0, <1>1, <1>2, <1>6, <1>9, <1>10, WriteStep

LEMMA RegisterPreserves ==
  ASSUME AccountInv, NEW r \in Requests, RegisterWrites(r)
  PROVE  AccountInv'
<1> DEFINE e == calls[r].who
<1>0. e \in Accounts /\ CreateUser(r, "user", "set") /\ Ends(r)
      /\ UNCHANGED <<identity, registration, googleOn, misreads>>
  BY DEF RegisterWrites, At, AccountInv, Sound
<1>1. /\ users' \in [Accounts -> User \cup {Absent}] /\ UsersKept
      /\ users'[e] = [role |-> "user", password |-> "set"]
      /\ \A a \in Accounts \ {e} : users'[a] = users[a]
      /\ e \notin Administrators
  BY <1>0, CreateUserIs
<1>2. EveryAccountHasAWayIn'
  BY <1>0, <1>1 DEF EveryAccountHasAWayIn, AccountInv, Exists, Unlinked
<1>3. Administrators' = Administrators
  BY <1>1 DEF Administrators, Accounts
<1>4. /\ identity' \in [Subs -> Accounts \cup {None}]
      /\ registration' \in BOOLEAN /\ googleOn' \in BOOLEAN
  BY <1>0 DEF AccountInv, TypeOK
<1> QED BY <1>0, <1>1, <1>2, <1>3, <1>4, WriteStep, AdministratorsKept

\* A password for an account that exists: a reset, or the command line.
LEMMA PasswordSet ==
  ASSUME AccountInv, NEW a \in Accounts,
         users' = [users EXCEPT ![a].password = "set"],
         Exists(a),
         calls' = calls \/ \E r \in Requests : Ends(r),
         UNCHANGED <<identity, registration, googleOn, misreads>>
  PROVE  AccountInv'
<1>1. /\ users' \in [Accounts -> User \cup {Absent}]
      /\ users'[a] = [users[a] EXCEPT !.password = "set"]
      /\ \A b \in Accounts \ {a} : users'[b] = users[b]
  BY UsersAre DEF AccountInv, TypeOK, User, Absent
<1>2. users'[a].role = users[a].role /\ users'[a].password = "set" /\ users'[a] # Absent
  BY <1>1, UsersAre DEF AccountInv, TypeOK, User, Absent
<1>3. UsersKept
  BY <1>1, <1>2 DEF UsersKept, Exists
<1>4. EveryAccountHasAWayIn'
  BY <1>1, <1>2 DEF EveryAccountHasAWayIn, AccountInv, Exists, Unlinked
<1>5. Administrators' = Administrators
  BY <1>1, <1>2 DEF Administrators, Accounts
<1>6. /\ identity' \in [Subs -> Accounts \cup {None}]
      /\ registration' \in BOOLEAN /\ googleOn' \in BOOLEAN
  BY DEF AccountInv, TypeOK
<1> QED BY <1>1, <1>3, <1>4, <1>5, <1>6, WriteStep, AdministratorsKept

LEMMA ResetPreserves ==
  ASSUME AccountInv, NEW r \in Requests, ResetWrites(r)
  PROVE  AccountInv'
<1>1. calls[r].who \in Accounts /\ Exists(calls[r].who)
  BY DEF ResetWrites, AccountInv, Sound
<1> QED BY <1>1, PasswordSet DEF ResetWrites

\* A subject becomes a way into the account at hand.
LEMMA LinkPreserves ==
  ASSUME AccountInv, NEW r \in Requests, LinkGoogleIdentity(r)
  PROVE  AccountInv'
<1> DEFINE a == calls[r].who
<1> DEFINE s == calls[r].sub
<1>0. a \in Accounts /\ s \in Subs /\ identity[s] = None
      /\ identity' = [identity EXCEPT ![s] = a]
      /\ Ends(r) /\ UNCHANGED <<users, registration, googleOn, misreads>>
  BY DEF LinkGoogleIdentity, At, AccountInv, Sound, GoogleSteps
<1>1. identity' \in [Subs -> Accounts \cup {None}]
  BY <1>0 DEF AccountInv, TypeOK
<1>2. EveryAccountHasAWayIn'
  <2> SUFFICES ASSUME NEW b \in Accounts, (Exists(b) /\ users[b].password = "none")'
               PROVE  ~Unlinked(b)'
    BY DEF EveryAccountHasAWayIn
  <2>1. PICK t \in Subs : identity[t] = b
    BY <1>0 DEF EveryAccountHasAWayIn, AccountInv, Exists, Unlinked
  <2>2. t # s
    BY <2>1, <1>0, AccountsAssumption DEF Accounts
  <2>3. identity'[t] = b
    BY <2>1, <2>2, <1>0, <1>1 DEF AccountInv, TypeOK
  <2> QED BY <2>3 DEF Unlinked
<1>3. UsersKept /\ Administrators' = Administrators
  BY <1>0 DEF UsersKept, Exists, Administrators
<1>4. users' \in [Accounts -> User \cup {Absent}]
      /\ registration' \in BOOLEAN /\ googleOn' \in BOOLEAN
  BY <1>0 DEF AccountInv, TypeOK
<1> QED BY <1>0, <1>1, <1>2, <1>3, <1>4, WriteStep, AdministratorsKept

\* A new account and its only way in, in one transaction.
LEMMA CreateGooglePreserves ==
  ASSUME AccountInv, NEW r \in Requests, CreateGoogleUser(r)
  PROVE  AccountInv'
<1> DEFINE a == calls[r].who
<1> DEFINE s == calls[r].sub
<1>0. a \in Accounts /\ s \in Subs /\ identity[s] = None
      /\ CreateUser(r, "user", "none") /\ identity' = [identity EXCEPT ![s] = a]
      /\ Ends(r) /\ UNCHANGED <<registration, googleOn, misreads>>
  BY DEF CreateGoogleUser, At, AccountInv, Sound, GoogleSteps
<1>1. /\ users' \in [Accounts -> User \cup {Absent}] /\ UsersKept
      /\ users'[a] = [role |-> "user", password |-> "none"]
      /\ \A b \in Accounts \ {a} : users'[b] = users[b]
      /\ a \notin Administrators
  BY <1>0, CreateUserIs
<1>2. identity' \in [Subs -> Accounts \cup {None}]
  BY <1>0 DEF AccountInv, TypeOK
<1>3. identity'[s] = a
  BY <1>0 DEF AccountInv, TypeOK
<1>4. EveryAccountHasAWayIn'
  <2> SUFFICES ASSUME NEW b \in Accounts, (Exists(b) /\ users[b].password = "none")'
               PROVE  ~Unlinked(b)'
    BY DEF EveryAccountHasAWayIn
  <2>1. CASE b = a
    BY <2>1, <1>0, <1>3 DEF Unlinked
  <2>2. CASE b # a
    <3>1. PICK t \in Subs : identity[t] = b
      BY <2>2, <1>1 DEF EveryAccountHasAWayIn, AccountInv, Exists, Unlinked
    <3>2. t # s
      BY <3>1, <1>0, AccountsAssumption DEF Accounts
    <3>3. identity'[t] = b
      BY <3>1, <3>2, <1>0 DEF AccountInv, TypeOK
    <3> QED BY <3>3 DEF Unlinked
  <2> QED BY <2>1, <2>2
<1>5. Administrators' = Administrators
  BY <1>1 DEF Administrators, Accounts
<1>6. registration' \in BOOLEAN /\ googleOn' \in BOOLEAN
  BY <1>0 DEF AccountInv, TypeOK
<1> QED BY <1>0, <1>1, <1>2, <1>4, <1>5, <1>6, WriteStep, AdministratorsKept

\* The account that loses its identities still has the password it had.
LEMMA UnlinkPreserves ==
  ASSUME AccountInv, NEW r \in Requests, Unlink(r)
  PROVE  AccountInv'
<1> DEFINE a == calls[r].who
<1>0. a \in Accounts /\ users[a].password = "set"
      /\ identity' = [s \in Subs |-> IF identity[s] = a THEN None ELSE identity[s]]
      /\ Ends(r) /\ UNCHANGED <<users, registration, googleOn, misreads>>
  BY DEF Unlink, At, AccountInv, Sound, Unlinkable
<1>1. identity' \in [Subs -> Accounts \cup {None}]
  BY <1>0 DEF AccountInv, TypeOK
<1>2. EveryAccountHasAWayIn'
  <2> SUFFICES ASSUME NEW b \in Accounts, (Exists(b) /\ users[b].password = "none")'
               PROVE  ~Unlinked(b)'
    BY DEF EveryAccountHasAWayIn
  <2>1. b # a
    BY <1>0
  <2>2. PICK t \in Subs : identity[t] = b
    BY <1>0 DEF EveryAccountHasAWayIn, AccountInv, Exists, Unlinked
  <2>3. identity'[t] = b
    BY <2>1, <2>2, <1>0
  <2> QED BY <2>3 DEF Unlinked
<1>3. UsersKept /\ Administrators' = Administrators
  BY <1>0 DEF UsersKept, Exists, Administrators
<1>4. users' \in [Accounts -> User \cup {Absent}]
      /\ registration' \in BOOLEAN /\ googleOn' \in BOOLEAN
  BY <1>0 DEF AccountInv, TypeOK
<1> QED BY <1>0, <1>1, <1>2, <1>3, <1>4, WriteStep, AdministratorsKept

LEMMA OperatorPreserves ==
  ASSUME AccountInv, OperatorStep
  PROVE  AccountInv'
<1>1. CASE CreateAdmin
  <2>1. /\ users' \in [Accounts -> User \cup {Absent}]
        /\ users'[Root] = [role |-> "admin", password |-> "set"]
        /\ \A a \in Accounts \ {Root} : users'[a] = users[a]
    BY <1>1 DEF CreateAdmin, AccountInv, TypeOK, User, Accounts
  <2>2. UsersKept
    BY <2>1, <1>1 DEF UsersKept, Exists, CreateAdmin
  <2>3. EveryAccountHasAWayIn'
    BY <2>1, <1>1 DEF EveryAccountHasAWayIn, AccountInv, Exists, Unlinked, CreateAdmin
  <2>4. Administrators' = Administrators
    BY <2>1, AccountsAssumption DEF Administrators, Accounts
  <2>5. /\ identity' \in [Subs -> Accounts \cup {None}] /\ calls' = calls
        /\ registration' \in BOOLEAN /\ googleOn' \in BOOLEAN /\ misreads' = misreads
    BY <1>1 DEF CreateAdmin, AccountInv, TypeOK
  <2> QED BY <2>1, <2>2, <2>3, <2>4, <2>5, WriteStep, AdministratorsKept
<1>2. ASSUME NEW a \in Accounts, UpdatePassword(a) PROVE AccountInv'
  BY <1>2, PasswordSet DEF UpdatePassword
<1>3. CASE SetRegistration \/ SaveGoogleClient
  <2>1. /\ users' = users /\ identity' = identity /\ calls' = calls
        /\ registration' \in BOOLEAN /\ googleOn' \in BOOLEAN /\ misreads' = misreads
    BY <1>3 DEF SetRegistration, SaveGoogleClient, AccountInv, TypeOK
  <2>2. UsersKept /\ Administrators' = Administrators /\ EveryAccountHasAWayIn'
    BY <2>1 DEF UsersKept, Exists, Administrators, EveryAccountHasAWayIn, AccountInv, Unlinked
  <2>3. /\ users' \in [Accounts -> User \cup {Absent}]
        /\ identity' \in [Subs -> Accounts \cup {None}]
    BY <2>1 DEF AccountInv, TypeOK
  <2> QED BY <2>1, <2>2, <2>3, WriteStep, AdministratorsKept
<1> QED BY <1>1, <1>2, <1>3 DEF OperatorStep

-----------------------------------------------------------------------------
(* The invariant and what follows from it                                  *)

LEMMA AccountInit == Init => AccountInv
<1> SUFFICES ASSUME Init PROVE AccountInv
  OBVIOUS
<1>1. TypeOK
  BY IdleSound, AccountsAssumption DEF Init, TypeOK
<1>2. \A r \in Requests : Sound(calls[r])
  BY IdleSound DEF Init
<1>3. EveryAccountHasAWayIn
  BY DEF Init, EveryAccountHasAWayIn, Exists
<1>4. Administrators = {} /\ SettingUp = {} /\ misreads = 0
  BY IdleSound DEF Init, Administrators, SettingUp, Accounts, Absent
<1>5. IsFiniteSet(Administrators) /\ SetupsBounded
  BY <1>4, FS_EmptySet, FS_CardinalityType, RequestsAssumption DEF SetupsBounded
<1> QED BY <1>1, <1>2, <1>3, <1>5 DEF AccountInv

LEMMA AccountNext == AccountInv /\ [Next]_accountVars => AccountInv'
<1> SUFFICES ASSUME AccountInv, [Next]_accountVars PROVE AccountInv'
  OBVIOUS
<1>1. ASSUME NEW r \in Requests, CodeStep(r) \/ GiveUp(r) PROVE AccountInv'
  BY <1>1, CodeReads, SetupPreserves, RegisterPreserves, ResetPreserves DEF CodeStep
<1>2. ASSUME NEW r \in Requests, GoogleStep(r) PROVE AccountInv'
  BY <1>2, GoogleReads, LinkPreserves, CreateGooglePreserves, UnlinkPreserves DEF GoogleStep
<1>3. CASE OperatorStep
  BY <1>3, OperatorPreserves
<1>4. CASE UNCHANGED accountVars
  BY <1>4 DEF accountVars, AccountInv, TypeOK, Sound, Claimable, Unlinkable, Exists,
              EveryAccountHasAWayIn, Unlinked, Administrators, SettingUp, SetupsBounded
<1> QED BY <1>1, <1>2, <1>3, <1>4 DEF Next

\* The inductive invariant, of any number of concurrent requests.
THEOREM AccountInvariant == Spec => []AccountInv
BY AccountInit, AccountNext, PTL DEF Spec

\* Rows and the local variables of the requests have their types.
THEOREM AccountTypes == Spec => []TypeOK
BY AccountInvariant, PTL DEF AccountInv

\* Every account has a password or a Google identity, whatever requests to
\* register, to reset, to sign in, to link and to unlink overlap.
THEOREM EveryoneHasAWayIn == Spec => []EveryAccountHasAWayIn
BY AccountInvariant, PTL DEF AccountInv

\* Initial setups make at most as many administrators as requests overlap, and
\* one more for each read that failed and whose error was dropped.
THEOREM SetupsStayBounded == Spec => []SetupsBounded
BY AccountInvariant, PTL DEF AccountInv

\* Each step that writes a row has earned it.
LEMMA EarnedByWrites ==
  ASSUME AccountInv, NEW r \in Requests,
         SetupWrites(r) \/ RegisterWrites(r) \/ ResetWrites(r) \/ CreateGoogleUser(r)
  PROVE  UserChangesEarned
<1> SUFFICES ASSUME NEW a \in Accounts, users'[a] # users[a]
             PROVE  /\ Proves(r, a)
                    /\ Exists(a) => users'[a] = [users[a] EXCEPT !.password = "set"]
  BY DEF UserChangesEarned
<1>1. calls[r].who = a
  BY DEF SetupWrites, RegisterWrites, ResetWrites, CreateGoogleUser, CreateUser, AccountInv, TypeOK
<1>2. At(r, "write") \/ At(r, "create")
  BY DEF SetupWrites, RegisterWrites, ResetWrites, CreateGoogleUser
<1>3. Exists(a) => ResetWrites(r)
  BY <1>1 DEF SetupWrites, RegisterWrites, CreateGoogleUser, CreateUser
<1>4. ResetWrites(r) => users'[a] = [users[a] EXCEPT !.password = "set"]
  BY <1>1 DEF ResetWrites, AccountInv, TypeOK
<1> QED BY <1>1, <1>2, <1>3, <1>4 DEF Proves

LEMMA EarnedByOperator ==
  ASSUME AccountInv, CreateAdmin \/ \E a \in Accounts : UpdatePassword(a)
  PROVE  UserChangesEarned
<1> SUFFICES ASSUME NEW a \in Accounts, users'[a] # users[a]
             PROVE  /\ calls' = calls /\ (Exists(a) \/ a = Root)
                    /\ Exists(a) => users'[a] = [users[a] EXCEPT !.password = "set"]
  BY DEF UserChangesEarned
<1>1. CASE CreateAdmin
  BY <1>1 DEF CreateAdmin, AccountInv, TypeOK
<1>2. ASSUME NEW b \in Accounts, UpdatePassword(b)
      PROVE  /\ calls' = calls /\ Exists(a)
             /\ users'[a] = [users[a] EXCEPT !.password = "set"]
  BY <1>2 DEF UpdatePassword, AccountInv, TypeOK
<1> QED BY <1>1, <1>2

LEMMA EarnedByLinks ==
  ASSUME AccountInv, NEW r \in Requests,
         LinkGoogleIdentity(r) \/ CreateGoogleUser(r) \/ Unlink(r)
  PROVE  IdentityChangesEarned
<1> SUFFICES ASSUME NEW s \in Subs, identity'[s] # identity[s]
             PROVE  \/ /\ identity[s] = None
                       /\ calls[r].sub = s /\ calls[r].who = identity'[s]
                       /\ At(r, "link") \/ users'[calls[r].who].role = "user"
                    \/ At(r, "unlink") /\ calls[r].who = identity[s] /\ identity'[s] = None
  BY DEF IdentityChangesEarned
<1>0. calls[r].step # "idle" => calls[r].who \in Accounts
  BY DEF AccountInv, Sound
<1>1. CASE LinkGoogleIdentity(r)
  <2>1. At(r, "claim") => users[calls[r].who].role = "user"
    BY DEF AccountInv, Sound, Claimable, At
  <2>2. s = calls[r].sub /\ identity[s] = None /\ identity'[s] = calls[r].who
    BY <1>1 DEF LinkGoogleIdentity, AccountInv, TypeOK
  <2> QED BY <1>1, <2>1, <2>2 DEF LinkGoogleIdentity
<1>2. CASE CreateGoogleUser(r)
  <2>1. s = calls[r].sub /\ identity[s] = None /\ identity'[s] = calls[r].who
    BY <1>2 DEF CreateGoogleUser, AccountInv, TypeOK
  <2>2. calls[r].who \in Accounts
    BY <1>0, <1>2 DEF CreateGoogleUser, At
  <2>3. users'[calls[r].who] = [role |-> "user", password |-> "none"]
    BY <1>2, <2>2 DEF CreateGoogleUser, CreateUser, AccountInv, TypeOK
  <2> QED BY <2>1, <2>3
<1>3. CASE Unlink(r)
  BY <1>3 DEF Unlink
<1> QED BY <1>1, <1>2, <1>3

\* A row changes by a proof of its address or on the command line, and never
\* its role; an administrator is not absorbed by a Google account that has the
\* address, and no identity moves from one account to another.
THEOREM ChangesAreEarned == Spec => AccountChangesEarned
<1>1. AccountInv /\ [Next]_accountVars
        => [UserChangesEarned /\ IdentityChangesEarned]_accountVars
  <2> SUFFICES ASSUME AccountInv, Next PROVE UserChangesEarned /\ IdentityChangesEarned
    OBVIOUS
  <2>0. /\ users' = users => UserChangesEarned
        /\ identity' = identity => IdentityChangesEarned
    BY DEF UserChangesEarned, IdentityChangesEarned
  <2>1. ASSUME NEW r \in Requests, CodeStep(r) \/ GiveUp(r)
        PROVE  UserChangesEarned /\ IdentityChangesEarned
    <3>1. identity' = identity
      BY <2>1 DEF CodeStep, GiveUp, SetupInitial, Register, PasswordReset, RegisterUnknown,
                  CodeAccepted, SetupWrites, RegisterWrites, ResetWrites
    <3>2. users' = users \/ SetupWrites(r) \/ RegisterWrites(r) \/ ResetWrites(r)
      BY <2>1 DEF CodeStep, GiveUp, SetupInitial, Register, PasswordReset, RegisterUnknown,
                  CodeAccepted
    <3> QED BY <2>0, <3>1, <3>2, EarnedByWrites
  <2>2. ASSUME NEW r \in Requests, GoogleStep(r)
        PROVE  UserChangesEarned /\ IdentityChangesEarned
    <3>1. \/ UNCHANGED <<users, identity>>
          \/ LinkGoogleIdentity(r) \/ CreateGoogleUser(r) \/ Unlink(r)
      BY <2>2 DEF GoogleStep, GoogleLogin, LinkOwn, ByIdentity, ByAddress, RegistrationOpen, UnlinkOwn
    <3>2. CreateGoogleUser(r) \/ users' = users
      BY <3>1 DEF LinkGoogleIdentity, Unlink
    <3> QED BY <2>0, <3>1, <3>2, EarnedByWrites, EarnedByLinks
  <2>3. CASE OperatorStep
    <3>1. identity' = identity
      BY <2>3 DEF OperatorStep, CreateAdmin, UpdatePassword, SetRegistration, SaveGoogleClient
    <3>2. users' = users \/ CreateAdmin \/ \E a \in Accounts : UpdatePassword(a)
      BY <2>3 DEF OperatorStep, SetRegistration, SaveGoogleClient
    <3> QED BY <2>0, <3>1, <3>2, EarnedByOperator
  <2> QED BY <2>1, <2>2, <2>3 DEF Next
<1> QED BY <1>1, AccountInvariant, PTL DEF AccountChangesEarned, Spec
=============================================================================
