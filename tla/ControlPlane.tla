---------------------------- MODULE ControlPlane ----------------------------
(***************************************************************************)
(* The constants that the modules of the control plane share: the          *)
(* concurrent HTTP requests of the API server, and what they act on.       *)
(* SQLite is opened with a single connection (internal/db/db.go), so every *)
(* statement, and every transaction, is one step.                          *)
(***************************************************************************)
EXTENDS Naturals, FiniteSets

CONSTANTS
    Requests,    \* HTTP requests in progress at a time
    None         \* nobody, nothing

(* Codes *)
CONSTANTS
    Boxes,       \* an address together with the purpose of a code
    MaxAttempts, \* wrong guesses a code survives: 5 in the code
    MaxCodes     \* bound on the codes ever sent

(* Accounts *)
CONSTANTS
    Emails,      \* e-mail addresses, each the address of at most one account
    Root,        \* the administrator made on the command line, who has none
    Subs,        \* subjects of Google accounts
    EnvClient,   \* whether the deployment configures a Google client id
    MaxMisreads  \* bound on the reads that fail and whose error is dropped

(* Sessions *)
CONSTANTS
    Users,       \* accounts that sign in
    Tokens,      \* rows of api_tokens
    Grants,      \* rows of sso_grants
    GrantBudget, \* grants that a platform session may have: 8 in the code
    MaxResets    \* bound on the password resets of a user

(* VisitorGate *)
CONSTANT
    KeyAttempts  \* wrong keys before an address is blocked: 8 in the code

ASSUME RequestsAssumption == IsFiniteSet(Requests) /\ Requests # {}

ASSUME CodesAssumption == MaxAttempts \in Nat \ {0} /\ MaxCodes \in Nat

ASSUME AccountsAssumption ==
    /\ Root \notin Emails /\ None \notin Emails \cup {Root}
    /\ EnvClient \in BOOLEAN /\ MaxMisreads \in Nat

ASSUME SessionsAssumption ==
    /\ None \notin Users \cup Tokens \cup Grants
    /\ GrantBudget \in Nat \ {0} /\ MaxResets \in Nat

ASSUME VisitorGateAssumption == KeyAttempts \in Nat \ {0}
=============================================================================
