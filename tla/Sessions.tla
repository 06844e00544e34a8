------------------------------ MODULE Sessions ------------------------------
(***************************************************************************)
(* Sessions of people: rows of api_tokens made by a login, a registration  *)
(* or the initial setup (internal/api/api.go, setup.go, google.go), grants *)
(* of the platform sign-in and the project sessions derived from them      *)
(* (internal/api/sso.go, project_sso.go), and what ends them: logout,      *)
(* revocation, password reset.                                             *)
(*                                                                         *)
(* Foreign keys cascade: a grant goes with its parent token, a project     *)
(* session with its grant (migrations 005 and 007).  The grant store of    *)
(* the SSO library is external: it hands out single-use codes for a        *)
(* session that Resolve accepts and inserts the grant when a code is       *)
(* exchanged.                                                              *)
(***************************************************************************)
EXTENDS ControlPlane

VARIABLES
    epoch,   \* per user, the password in force: how many resets have written it
    tokens,  \* rows of api_tokens
    grants,  \* rows of sso_grants
    leaked,  \* grants whose revocation has failed (history)
    visits   \* the requests and their local variables

sessionVars == <<epoch, tokens, grants, leaked, visits>>

\* epoch: the password that was verified for the session.
\* stays: an earlier reset has missed it (history).
Token == [user: Users, name: {"login", "setup", "sso"}, epoch: Nat,
          grant: Grants \cup {None}, stays: BOOLEAN]
NoToken == [user |-> None, name |-> "none", epoch |-> 0, grant |-> None, stays |-> FALSE]

Grant == [parent: Tokens, client: {"mesh", "app"}]
NoGrant == [parent |-> None, client |-> "none"]

Visit == [step: {"idle", "verified", "revoke", "granted", "undo", "logout"},
          user: Users \cup {None}, epoch: Nat,
          grant: Grants \cup {None}, token: Tokens \cup {None}]
Idle == [step |-> "idle", user |-> None, epoch |-> 0, grant |-> None, token |-> None]

Init ==
    /\ epoch = [u \in Users |-> 0]
    /\ tokens = [t \in Tokens |-> NoToken]
    /\ grants = [g \in Grants |-> NoGrant]
    /\ leaked = {}
    /\ visits = [r \in Requests |-> Idle]

Valid(t) == tokens[t] # NoToken
Granted(g) == grants[g] # NoGrant
At(r, step) == visits[r].step = step
Goes(r, v) == visits' = [visits EXCEPT ![r] = v]
Ends(r) == Goes(r, Idle)

\* DELETE of tokens and of grants, with what the foreign keys take along.  A
\* token of a grant is nobody's parent, so the cascade ends there.
Deleted(T, G) ==
    LET H == G \cup {g \in Grants : Granted(g) /\ grants[g].parent \in T}
    IN  /\ grants' = [g \in Grants |-> IF g \in H THEN NoGrant ELSE grants[g]]
        /\ tokens' = [t \in Tokens |->
                         IF t \in T \/ tokens[t].grant \in H THEN NoToken ELSE tokens[t]]
        /\ leaked' = leaked \ H

Nothing == UNCHANGED <<tokens, grants, leaked>>

-----------------------------------------------------------------------------
(* Signing in                                                              *)

\* The stored hash is selected, and then verified.
VerifyPassword(r, u) ==
    /\ At(r, "idle")
    /\ Goes(r, [Idle EXCEPT !.step = "verified", !.user = u, !.epoch = epoch[u]])
    /\ Nothing /\ UNCHANGED epoch

\* Hashes of random tokens: one that a request still holds is not drawn again.
InsertToken(t, row) ==
    /\ ~Valid(t) /\ \A r \in Requests : visits[r].token # t
    /\ tokens' = [tokens EXCEPT ![t] = row]

\* Login and registration; the token of the initial setup is named otherwise.
SignIn(r, t) ==
    /\ At(r, "verified")
    /\ \E name \in {"login", "setup"} :
        InsertToken(t, [user |-> visits[r].user, name |-> name, epoch |-> visits[r].epoch,
                        grant |-> None, stays |-> visits[r].epoch # epoch[visits[r].user]])
    /\ Ends(r)
    /\ UNCHANGED <<epoch, grants, leaked>>

\* A Google sign-in verifies no password: it holds whatever the password is.
GoogleSignIn(t, u) ==
    /\ InsertToken(t, [user |-> u, name |-> "login", epoch |-> epoch[u],
                       grant |-> None, stays |-> FALSE])
    /\ UNCHANGED <<epoch, grants, leaked, visits>>

-----------------------------------------------------------------------------
(* The platform sign-in                                                    *)

\* Resolve: only a session of the platform may authorize.
Resolve(t) == tokens[t].name = "login"

\* The exchange of a code, in one transaction: the foreign key refuses a
\* parent that is gone, and the budget of a parent is limited.
Exchange(g, t, client) ==
    /\ Resolve(t)
    /\ ~Granted(g) /\ \A r \in Requests : visits[r].grant # g
    /\ Cardinality({h \in Grants : grants[h].parent = t}) < GrantBudget
    /\ grants' = [grants EXCEPT ![g] = [parent |-> t, client |-> client]]

\* An application redeems a grant of its own.
AppExchange(g, t) ==
    /\ Exchange(g, t, "app")
    /\ UNCHANGED <<epoch, tokens, leaked, visits>>

\* The application revokes its grant, or a grant that has expired is swept.
GrantEnds(g) ==
    /\ Granted(g)
    /\ Deleted({}, {g})
    /\ UNCHANGED <<epoch, visits>>

\* The project's own server redeems the code and looks the user up, ...
Complete(r, g, t) ==
    /\ At(r, "idle")
    /\ Exchange(g, t, "mesh")
    /\ Goes(r, [Idle EXCEPT !.step = "granted", !.user = tokens[t].user,
                            !.epoch = tokens[t].epoch, !.grant = g])
    /\ UNCHANGED <<epoch, tokens, leaked>>

\* ... and inserts a session that the foreign key binds to the grant.
CompleteInsert(r, t) ==
    /\ At(r, "granted")
    /\ Granted(visits[r].grant)
    /\ InsertToken(t, [user |-> visits[r].user, name |-> "sso", epoch |-> visits[r].epoch,
                       grant |-> visits[r].grant,
                       stays |-> tokens[grants[visits[r].grant].parent].stays])
    /\ Ends(r)
    /\ UNCHANGED <<epoch, grants, leaked>>

CompleteFails(r) ==
    /\ At(r, "granted")
    /\ Goes(r, [visits[r] EXCEPT !.step = "undo"])
    /\ Nothing /\ UNCHANGED epoch

\* revokeGrant deletes with the request's context: if the client has left, or
\* the statement fails, the grant stays.
RevokeGrant(r) ==
    /\ At(r, "undo")
    /\ \/ Deleted({}, {visits[r].grant})
       \/ /\ leaked' = IF Granted(visits[r].grant) THEN leaked \cup {visits[r].grant} ELSE leaked
          /\ UNCHANGED <<tokens, grants>>
    /\ Ends(r)
    /\ UNCHANGED epoch

-----------------------------------------------------------------------------
(* Signing out, resetting the password                                     *)

\* Seeded fault: a project session is deleted and its grant left behind.
RevokeBearerTokenOnly(r, t) ==
    /\ At(r, "idle") /\ Valid(t)
    /\ Deleted({t}, {})
    /\ Goes(r, [Idle EXCEPT !.step = "logout", !.token = t])
    /\ UNCHANGED epoch

\* revokeBearer: the grant of the session, with the session, ...
RevokeBearer(r, t) ==
    /\ At(r, "idle") /\ Valid(t)
    /\ Deleted({}, {tokens[t].grant} \ {None})
    /\ Goes(r, [Idle EXCEPT !.step = "logout", !.token = t])
    /\ UNCHANGED epoch

\* ... and then the session if it has none.
DeleteToken(r) ==
    /\ At(r, "logout")
    /\ Deleted({visits[r].token}, {})
    /\ Ends(r)
    /\ UNCHANGED epoch

\* The new password is written, ...
ResetPassword(r, u) ==
    /\ At(r, "idle") /\ epoch[u] < MaxResets
    /\ epoch' = [epoch EXCEPT ![u] = @ + 1]
    /\ Goes(r, [Idle EXCEPT !.step = "revoke", !.user = u])
    /\ Nothing

\* Seeded fault: only the sessions made by a login are deleted.
RevokeSessionsOfLogins(r) ==
    /\ At(r, "revoke")
    /\ Deleted({t \in Tokens : tokens[t].user = visits[r].user /\ tokens[t].name = "login"}, {})
    /\ Ends(r)
    /\ UNCHANGED epoch

\* ... and then every session of the user is deleted.
RevokeSessions(r) ==
    /\ At(r, "revoke")
    /\ Deleted({t \in Tokens : tokens[t].user = visits[r].user}, {})
    /\ Ends(r)
    /\ UNCHANGED epoch

\* The error of that DELETE is ignored.
RevokeSessionsFails(r) ==
    /\ At(r, "revoke")
    /\ tokens' = [t \in Tokens |-> IF tokens[t].user = visits[r].user
                                   THEN [tokens[t] EXCEPT !.stays = TRUE] ELSE tokens[t]]
    /\ Ends(r)
    /\ UNCHANGED <<epoch, grants, leaked>>

\* A check refuses, a statement fails, or the client leaves.
GiveUp(r) ==
    /\ visits[r].step \in {"verified", "logout"}
    /\ Ends(r)
    /\ Nothing /\ UNCHANGED epoch

Next ==
    \/ \E r \in Requests :
        \/ \E u \in Users : VerifyPassword(r, u) \/ ResetPassword(r, u)
        \/ \E t \in Tokens :
            \/ SignIn(r, t) \/ CompleteInsert(r, t) \/ RevokeBearer(r, t)
            \/ \E g \in Grants : Complete(r, g, t)
        \/ CompleteFails(r) \/ RevokeGrant(r) \/ DeleteToken(r)
        \/ RevokeSessions(r) \/ RevokeSessionsFails(r) \/ GiveUp(r)
    \/ \E t \in Tokens : \/ \E u \in Users : GoogleSignIn(t, u)
                         \/ \E g \in Grants : AppExchange(g, t)
    \/ \E g \in Grants : GrantEnds(g)

Spec == Init /\ [][Next]_sessionVars

-----------------------------------------------------------------------------
(* Properties                                                              *)

TypeOK ==
    /\ epoch \in [Users -> 0 .. MaxResets]
    /\ tokens \in [Tokens -> Token \cup {NoToken}]
    /\ grants \in [Grants -> Grant \cup {NoGrant}]
    /\ leaked \subseteq Grants
    /\ visits \in [Requests -> Visit]

\* A project session lives only while its grant and the platform session the
\* grant was given for do (007_project_sessions.sql:2-5), whatever logouts,
\* revocations and resets come between the redemption and the insertion.
ProjectSessionsBacked ==
    \A t \in Tokens : tokens[t].name = "sso" =>
        /\ tokens[t].grant \in Grants /\ grants[tokens[t].grant].client = "mesh"
        /\ LET p == grants[tokens[t].grant].parent
           IN  tokens[p].name = "login" /\ tokens[p].user = tokens[t].user

\* Every grant of the project that counts against the budget of a platform
\* session is in use, or a request will use it, or its revocation has failed.
GrantsInUse ==
    \A g \in Grants : grants[g].client = "mesh" =>
        \/ \E t \in Tokens : tokens[t].grant = g
        \/ \E r \in Requests : visits[r].grant = g
        \/ g \in leaked

\* A password reset leaves no session of an older password (setup.go:243-244),
\* but those it missed: a login that had verified the old password inserts its
\* token after the DELETE, or the DELETE has failed.
ResetEndsSessions ==
    \A t \in Tokens : Valid(t) /\ tokens[t].epoch < epoch[tokens[t].user] =>
        \/ tokens[t].stays
        \/ \E r \in Requests : At(r, "revoke") /\ visits[r].user = tokens[t].user

=============================================================================
