------------------------------ MODULE Accounts ------------------------------
(***************************************************************************)
(* How accounts come into being and how they are opened: the first         *)
(* administrator, registration and password reset (internal/api/setup.go), *)
(* Google identities (internal/api/google.go) and the administrator made   *)
(* on the command line (cmd/meshbridge-server/main.go).                    *)
(*                                                                         *)
(* An account with an address is named by it: the address is unique, and   *)
(* no code deletes or renames an account.  A request is a sequence of SQL  *)
(* statements and transactions; others run between two of them, and it may *)
(* end wherever a check refuses it, a statement fails or the client leaves *)
(* (GiveUp).  What a verification code proves is the matter of Codes: here *)
(* CheckCode may accept or not.                                            *)
(***************************************************************************)
EXTENDS ControlPlane

VARIABLES
    users,        \* rows of users
    identity,     \* user_identities: the account of each Google subject
    registration, \* the setting allow_registration
    googleOn,     \* a Google client id is in force
    calls,        \* the requests and their local variables
    misreads      \* reads that failed and whose error was dropped

accountVars == <<users, identity, registration, googleOn, calls, misreads>>

Accounts == Emails \cup {Root}

Absent == [role |-> "none", password |-> "none"]
User == [role: {"user", "admin"}, password: {"none", "set"}]

Call == [step: {"idle", "known", "check", "write",
                "identity", "address", "open", "claim", "create", "link", "unlink"},
         op: {"none", "setup", "register", "reset", "burn"},
         who: Accounts \cup {None}, sub: Subs \cup {None}]

Idle == [step |-> "idle", op |-> "none", who |-> None, sub |-> None]

\* The client id of the deployment holds until one, or none, is saved.
Init ==
    /\ users = [a \in Accounts |-> Absent]
    /\ identity = [s \in Subs |-> None]
    /\ registration = TRUE
    /\ googleOn = EnvClient
    /\ calls = [r \in Requests |-> Idle]
    /\ misreads = 0

Exists(a) == users[a] # Absent
HasAdmin == \E a \in Accounts : users[a].role = "admin"
Unlinked(a) == \A s \in Subs : identity[s] # a

At(r, step) == calls[r].step = step
Goes(r, c) == calls' = [calls EXCEPT ![r] = c]
Proceeds(r, step) == Goes(r, [calls[r] EXCEPT !.step = step])
Ends(r) == Goes(r, Idle)

Starts(r, step, op, who, sub) ==
    /\ At(r, "idle")
    /\ Goes(r, [step |-> step, op |-> op, who |-> who, sub |-> sub])

\* A read whose error is dropped: a request goes on when the answer lets it, or
\* when the statement fails and what the code takes instead lets it.
Passes(answer, instead) ==
    \/ answer /\ UNCHANGED misreads
    \/ instead /\ misreads < MaxMisreads /\ misreads' = misreads + 1

-----------------------------------------------------------------------------
(* Accounts whose address a code proves                                    *)

\* A COUNT that fails leaves no administrators.
SetupOpen == Passes(~HasAdmin, TRUE)

SetupInitial(r, e) ==
    /\ SetupOpen
    /\ Starts(r, "check", "setup", e, None)
    /\ UNCHANGED <<users, identity, registration, googleOn>>

Register(r, e) ==
    /\ Passes(registration, TRUE)
    /\ Starts(r, "known", "register", e, None)
    /\ UNCHANGED <<users, identity, registration, googleOn>>

RegisterUnknown(r) ==
    /\ At(r, "known")
    /\ Passes(~Exists(calls[r].who), TRUE)
    /\ Proceeds(r, "check")
    /\ UNCHANGED <<users, identity, registration, googleOn>>

\* For an unknown address, or one that cannot be read, the code is checked, to
\* use up an attempt of it, and the answer is no.
PasswordReset(r, e) ==
    /\ \/ Exists(e) /\ Starts(r, "check", "reset", e, None) /\ UNCHANGED misreads
       \/ Passes(~Exists(e), TRUE) /\ Starts(r, "check", "burn", e, None)
    /\ UNCHANGED <<users, identity, registration, googleOn>>

CodeAccepted(r) ==
    /\ At(r, "check") /\ calls[r].op # "burn"
    /\ Proceeds(r, "write")
    /\ UNCHANGED <<users, identity, registration, googleOn, misreads>>

\* The unique index on the address refuses a second account.
CreateUser(r, role, password) ==
    /\ ~Exists(calls[r].who)
    /\ users' = [users EXCEPT ![calls[r].who] = [role |-> role, password |-> password]]

SetupWrites(r) ==
    /\ At(r, "write") /\ calls[r].op = "setup"
    /\ CreateUser(r, "admin", "set")
    /\ Ends(r)
    /\ UNCHANGED <<identity, registration, googleOn, misreads>>

RegisterWrites(r) ==
    /\ At(r, "write") /\ calls[r].op = "register"
    /\ CreateUser(r, "user", "set")
    /\ Ends(r)
    /\ UNCHANGED <<identity, registration, googleOn, misreads>>

ResetWrites(r) ==
    /\ At(r, "write") /\ calls[r].op = "reset"
    /\ users' = [users EXCEPT ![calls[r].who].password = "set"]
    /\ Ends(r)
    /\ UNCHANGED <<identity, registration, googleOn, misreads>>

\* create-admin: a new administrator, or else a password for whoever has the
\* name already, whose role stays what it is.
CreateAdmin ==
    /\ ~Exists(Root)
    /\ users' = [users EXCEPT ![Root] = [role |-> "admin", password |-> "set"]]
    /\ UNCHANGED <<identity, registration, googleOn, calls, misreads>>

UpdatePassword(a) ==
    /\ Exists(a)
    /\ users' = [users EXCEPT ![a].password = "set"]
    /\ UNCHANGED <<identity, registration, googleOn, calls, misreads>>

-----------------------------------------------------------------------------
(* Google identities                                                       *)

\* Google vouches for a subject that has the address at the time.
GoogleLogin(r, s, e) ==
    /\ Passes(googleOn, EnvClient)
    /\ Starts(r, "identity", "none", e, s)
    /\ UNCHANGED <<users, identity, registration, googleOn>>

\* A subject with an identity is signed in to its account, whatever the address.
ByIdentity(r) ==
    /\ At(r, "identity")
    /\ IF identity[calls[r].sub] # None THEN Ends(r) ELSE Proceeds(r, "address")
    /\ UNCHANGED <<users, identity, registration, googleOn, misreads>>

\* Seeded fault: administrators are absorbed by an e-mail coincidence.
AnyoneClaimable(a) == Exists(a)

Claimable(a) == users[a].role = "user"

ByAddress(r) ==
    /\ At(r, "address")
    /\ \/ Claimable(calls[r].who) /\ Proceeds(r, "claim")
       \/ ~Exists(calls[r].who) /\ Proceeds(r, "open")
    /\ UNCHANGED <<users, identity, registration, googleOn, misreads>>

RegistrationOpen(r) ==
    /\ At(r, "open")
    /\ Passes(registration, TRUE)
    /\ Proceeds(r, "create")
    /\ UNCHANGED <<users, identity, registration, googleOn>>

\* One transaction.  A subject bound to this very account already is success.
LinkGoogleIdentity(r) ==
    /\ At(r, "claim") \/ At(r, "link")
    /\ identity[calls[r].sub] = None /\ Unlinked(calls[r].who)
    /\ identity' = [identity EXCEPT ![calls[r].sub] = calls[r].who]
    /\ Ends(r)
    /\ UNCHANGED <<users, registration, googleOn, misreads>>

\* One transaction.  If it fails the subject is looked up once more, in case a
\* concurrent sign-in has created the account (GiveUp: nothing is written).
CreateGoogleUser(r) ==
    /\ At(r, "create")
    /\ identity[calls[r].sub] = None
    /\ CreateUser(r, "user", "none")
    /\ identity' = [identity EXCEPT ![calls[r].sub] = calls[r].who]
    /\ Ends(r)
    /\ UNCHANGED <<registration, googleOn, misreads>>

\* PUT and DELETE of /me/google, in a session of the account.
LinkOwn(r, a, s) ==
    /\ Passes(googleOn, EnvClient) /\ Exists(a)
    /\ Starts(r, "link", "none", a, s)
    /\ UNCHANGED <<users, identity, registration, googleOn>>

\* Seeded fault: the last way into an account may be removed.
AlwaysUnlinkable(a) == Exists(a)

Unlinkable(a) == users[a].password = "set"

UnlinkOwn(r, a) ==
    /\ Unlinkable(a)
    /\ Starts(r, "unlink", "none", a, None)
    /\ UNCHANGED <<users, identity, registration, googleOn, misreads>>

Unlink(r) ==
    /\ At(r, "unlink")
    /\ identity' = [s \in Subs |-> IF identity[s] = calls[r].who THEN None ELSE identity[s]]
    /\ Ends(r)
    /\ UNCHANGED <<users, registration, googleOn, misreads>>

-----------------------------------------------------------------------------
(* Settings of the administrator, failures, the specification              *)

SetRegistration ==
    /\ HasAdmin
    /\ registration' \in BOOLEAN
    /\ UNCHANGED <<users, identity, googleOn, calls, misreads>>

SaveGoogleClient ==
    /\ HasAdmin
    /\ googleOn' \in BOOLEAN
    /\ UNCHANGED <<users, identity, registration, calls, misreads>>

GiveUp(r) ==
    /\ ~At(r, "idle")
    /\ Ends(r)
    /\ UNCHANGED <<users, identity, registration, googleOn, misreads>>

CodeStep(r) ==
    \/ \E e \in Emails : SetupInitial(r, e) \/ Register(r, e) \/ PasswordReset(r, e)
    \/ RegisterUnknown(r) \/ CodeAccepted(r)
    \/ SetupWrites(r) \/ RegisterWrites(r) \/ ResetWrites(r)

GoogleStep(r) ==
    \/ \E s \in Subs : \/ \E e \in Emails : GoogleLogin(r, s, e)
                       \/ \E a \in Accounts : LinkOwn(r, a, s)
    \/ ByIdentity(r) \/ ByAddress(r) \/ RegistrationOpen(r)
    \/ LinkGoogleIdentity(r) \/ CreateGoogleUser(r)
    \/ \E a \in Accounts : UnlinkOwn(r, a)
    \/ Unlink(r)

OperatorStep ==
    \/ CreateAdmin
    \/ \E a \in Accounts : UpdatePassword(a)
    \/ SetRegistration \/ SaveGoogleClient

Next ==
    \/ \E r \in Requests : CodeStep(r) \/ GoogleStep(r) \/ GiveUp(r)
    \/ OperatorStep

Spec == Init /\ [][Next]_accountVars

-----------------------------------------------------------------------------
(* Properties                                                              *)

TypeOK ==
    /\ users \in [Accounts -> User \cup {Absent}]
    /\ identity \in [Subs -> Accounts \cup {None}]
    /\ registration \in BOOLEAN /\ googleOn \in BOOLEAN
    /\ calls \in [Requests -> Call] /\ misreads \in 0..MaxMisreads

\* No order of sign-ups, links, unlinks and resets leaves an account that
\* neither a password nor a Google identity opens: the password that DELETE
\* /me/google has seen is still there when it deletes (google.go:390-402).
EveryAccountHasAWayIn ==
    \A a \in Accounts : Exists(a) /\ users[a].password = "none" => ~Unlinked(a)

\* Setup is permitted only while there is no administrator (setup.go:129-130).
\* That is read long before the administrator is written, and with its error
\* dropped: the requests that run together may all become one, and after them
\* only a read that fails lets one more in.
SettingUp == {r \in Requests : calls[r].op = "setup"}
Administrators == {a \in Emails : users[a].role = "admin"}

SetupsBounded ==
    Cardinality(Administrators) + Cardinality(SettingUp) <= Cardinality(Requests) + misreads

\* A request that writes the account of an address has proved the address.
Proves(r, a) == calls[r].who = a /\ (At(r, "write") \/ At(r, "create"))

\* Accounts appear and get passwords by a proof of their address or on the
\* command line; an account is never replaced and no role ever changes.
UserChangesEarned ==
    \A a \in Accounts : users'[a] # users[a] =>
        /\ \/ \E r \in Requests : Proves(r, a)
           \/ calls' = calls /\ (Exists(a) \/ a = Root)
        /\ Exists(a) => users'[a] = [users[a] EXCEPT !.password = "set"]

\* An identity is gained in the account's own session or by the address of an
\* ordinary account, never of an administrator (google.go:147-164, 345-348),
\* and it is lost in the account's own session only.
IdentityChangesEarned ==
    \A s \in Subs : identity'[s] # identity[s] =>
        \E r \in Requests :
            \/ /\ identity[s] = None
               /\ calls[r].sub = s /\ calls[r].who = identity'[s]
               /\ At(r, "link") \/ users'[calls[r].who].role = "user"
            \/ At(r, "unlink") /\ calls[r].who = identity[s] /\ identity'[s] = None

AccountChangesEarned == [][UserChangesEarned /\ IdentityChangesEarned]_accountVars
=============================================================================
