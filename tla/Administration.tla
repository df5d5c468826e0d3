--------------------------- MODULE Administration ---------------------------
(***************************************************************************)
(* Users, roles and sign-in: rows invited by an administrator, adopted by   *)
(* the first sign-in, and the guards against locking everybody out.         *)
(*                                                                         *)
(* Sources: app/bff/admin_routes.py, app/auth/dependencies.py,              *)
(* permissions.py, onboarding.py, bypass.py, scripts/seed_rbac.py, the      *)
(* User and Role tables of app/db/models.py.                                *)
(*                                                                         *)
(* A request is one database session: sign-in is committed first, the       *)
(* permission and the guards are read in a second transaction, which writes *)
(* at its end.  A session does not autoflush.                               *)
(***************************************************************************)
EXTENDS Integers, FiniteSets

CONSTANTS
    People,         \* Entra object ids
    Emails,
    ClaimedBy,      \* the addresses that a person's tokens have carried
    Roles,
    AdminRoles,     \* roles with the permission "*"
    Founder,        \* the address given to the bootstrap script
    Requests,       \* requests under way at the same time
    None,
    MaxRequests     \* bound on requests and runs of the script

ASSUME AdministrationAssumption ==
    /\ None \notin People /\ None \notin [oid : People \cup {None}, role : Roles,
                                          active : BOOLEAN, seen : BOOLEAN]
    /\ ClaimedBy \in [People -> SUBSET Emails]
    /\ AdminRoles \subseteq Roles /\ AdminRoles # {} /\ Founder \in Emails
    /\ MaxRequests \in Nat
    /\ IsFiniteSet(Emails)

VARIABLES
    users,      \* users, by address
    local,      \* APP_ENV is "local": X-Dev-User may stand for a token
    request,    \* what each request has done
    calm,       \* so far no two requests overlapped (for the properties)
    made        \* requests made
vars == <<users, local, request, calm, made>>

User == [oid : People \cup {None},      \* None: the placeholder "pending:<email>"
         role : Roles,
         active : BOOLEAN,
         seen : BOOLEAN]                \* last_login_at is set
Request == [step : {"idle", "identified", "admitted", "checked"},
            op : {"none", "onboard", "role", "active"},
            who : People \cup {None},   \* the oid to adopt, if any
            me : Emails,                \* the row that signed in
            target : Emails, role : Roles, active : BOOLEAN,
            counted : SUBSET Emails]    \* history: the administrators at the check

TypeOK ==
    /\ users \in [Emails -> User \cup {None}]
    /\ local \in BOOLEAN
    /\ request \in [Requests -> Request]
    /\ calm \in BOOLEAN
    /\ made \in Nat

Rows == {e \in Emails : users[e] # None}
Invited(role) == [oid |-> None, role |-> role, active |-> TRUE, seen |-> FALSE]
IdleRequest == [step |-> "idle", op |-> "none", who |-> None, me |-> Founder, target |-> Founder,
                role |-> CHOOSE r \in AdminRoles : TRUE, active |-> TRUE, counted |-> {}]

\* seed_rbac and seed_dev_user with the default role, on an empty database.
Init ==
    /\ local \in BOOLEAN
    /\ \E r \in AdminRoles : users = [e \in Emails |-> IF e = Founder THEN Invited(r) ELSE None]
    /\ request = [q \in Requests |-> IdleRequest]
    /\ calm = TRUE
    /\ made = 0

-----------------------------------------------------------------------------
Finish(q) == request' = [request EXCEPT ![q] = IdleRequest]
Goes(q, step) == request' = [request EXCEPT ![q].step = step]
At(q, step) == request[q].step = step
Ask == made < MaxRequests /\ made' = made + 1

\* The script again, with any role: an existing row only gets the role, with no
\* look at who else is an administrator.
SeedUser(e, r) ==
    /\ Ask
    /\ users' = [users EXCEPT ![e] = IF @ = None THEN Invited(r) ELSE [@ EXCEPT !.role = r]]
    /\ UNCHANGED <<local, request, calm>>

(***************************************************************************)
(* get_current_user.                                                        *)
(***************************************************************************)
BoundTo(p) == {e \in Rows : users[e].oid = p}

\* Mutant: any row with the address is adopted.
RowOfAnybody(p, e) == IF BoundTo(p) # {} THEN BoundTo(p) ELSE {e} \cap Rows
\* The row of a token of p that carries address e.
RowOf(p, e) ==
    IF BoundTo(p) # {} THEN BoundTo(p) ELSE {x \in Rows : x = e /\ users[x].oid = None}

\* The session has found row x; who is the oid that it is to adopt.
Identified(q, x, who) ==
    /\ At(q, "idle") /\ Ask
    /\ users[x].active
    /\ request' = [request EXCEPT ![q] =
           [IdleRequest EXCEPT !.step = "identified", !.me = x, !.who = who]]
    /\ calm' = (calm /\ \A r \in Requests : At(r, "idle"))
    /\ UNCHANGED <<users, local>>

Identify(q, p, e) ==
    \E x \in RowOf(p, e) : Identified(q, x, IF users[x].oid # p THEN p ELSE None)

\* get_bypass_user: X-Dev-User names the row, in the local environment alone.
IdentifyByHeader(q, e) == local /\ e \in Rows /\ Identified(q, e, None)

\* The placeholder is replaced and the login stamped in one commit; the UNIQUE
\* oid refuses the second of two rows.
SignIn(q) ==
    /\ At(q, "identified")
    /\ LET me == request[q].me
           who == request[q].who
       IN /\ who # None => BoundTo(who) \subseteq {me}
          /\ users' = [users EXCEPT ![me].seen = TRUE,
                                    ![me].oid = IF who = None THEN users[me].oid ELSE who]
    /\ Goes(q, "admitted")
    /\ UNCHANGED <<local, calm, made>>

\* Refused, failed, or abandoned at a restart: what is not committed is lost.
Abandon(q) ==
    /\ ~At(q, "idle")
    /\ Finish(q)
    /\ UNCHANGED <<users, local, calm, made>>

(***************************************************************************)
(* /api/admin: "user:manage" is granted by "*" alone.  Each check reads the *)
(* caller's role, the target and the count of administrators.               *)
(***************************************************************************)
ActiveAdmins == {e \in Rows : users[e].role \in AdminRoles /\ users[e].active}
\* Mutant: counts without the one in question.
IsLastOfAll(e) == users[e].role \in AdminRoles /\ Cardinality(ActiveAdmins) < 1
IsLastActiveAdmin(e) == users[e].role \in AdminRoles /\ Cardinality(ActiveAdmins) <= 1
Allowed(q) == At(q, "admitted") /\ users[request[q].me].role \in AdminRoles

Checked(q, op, e, r, active) ==
    /\ request' = [request EXCEPT ![q].step = "checked", ![q].op = op, ![q].target = e,
                                  ![q].role = r, ![q].active = active,
                                  ![q].counted = ActiveAdmins]
    /\ UNCHANGED <<users, local, calm, made>>

CheckOnboard(q, e, r) ==
    /\ Allowed(q) /\ e \notin Rows
    /\ Checked(q, "onboard", e, r, TRUE)

CheckRole(q, e, r) ==
    /\ Allowed(q) /\ e \in Rows /\ r # users[e].role
    /\ ~(r \notin AdminRoles /\ IsLastActiveAdmin(e))
    /\ Checked(q, "role", e, r, TRUE)

CheckActive(q, e, active) ==
    /\ Allowed(q) /\ e \in Rows
    /\ ~active => e # request[q].me /\ ~IsLastActiveAdmin(e)
    /\ Checked(q, "active", e, users[e].role, active)

\* Mutant: an unknown role is not refused.
OnboardRoleless(q) ==
    /\ request[q].op = "onboard" /\ request[q].target \notin Rows
    /\ users' = [users EXCEPT ![request[q].target] = [Invited(request[q].role) EXCEPT !.role = None]]

\* The UNIQUE address refuses the second of two invitations.
Onboard(q) ==
    /\ request[q].op = "onboard" /\ request[q].target \notin Rows
    /\ users' = [users EXCEPT ![request[q].target] = Invited(request[q].role)]

ChangeRole(q) ==
    /\ request[q].op = "role"
    /\ users' = [users EXCEPT ![request[q].target].role = request[q].role]

SetActive(q) ==
    /\ request[q].op = "active"
    /\ users' = [users EXCEPT ![request[q].target].active = request[q].active]

Write(q) ==
    /\ At(q, "checked")
    /\ Onboard(q) \/ ChangeRole(q) \/ SetActive(q)
    /\ Finish(q)
    /\ UNCHANGED <<local, calm, made>>

-----------------------------------------------------------------------------
Check(q) ==
    \/ \E e \in Emails, r \in Roles : CheckOnboard(q, e, r) \/ CheckRole(q, e, r)
    \/ \E e \in Emails, active \in BOOLEAN : CheckActive(q, e, active)

Next ==
    \/ \E e \in Emails, r \in Roles : SeedUser(e, r)
    \/ \E q \in Requests :
        \/ \E p \in People : \E e \in ClaimedBy[p] : Identify(q, p, e)
        \/ \E e \in Emails : IdentifyByHeader(q, e)
        \/ SignIn(q) \/ Check(q) \/ Write(q) \/ Abandon(q)

Spec == Init /\ [][Next]_vars

-----------------------------------------------------------------------------
(***************************************************************************)
(* Properties.                                                              *)
(***************************************************************************)

(* No request locks everyone out of user management by itself: the last     *)
(* active administrator goes only in a request whose count was stale, for   *)
(* another session changed who is an administrator between its check and    *)
(* its write, or by the bootstrap script, which asks nobody                 *)
(* (admin_routes.py _is_last_active_admin and the two guards that use it;   *)
(* scripts/seed_rbac.py seed_dev_user).                                     *)
ByScript == \E e \in Emails, r \in Roles : SeedUser(e, r)
LocksOut == ActiveAdmins # {} /\ ActiveAdmins' = {}
StaleCount == \E q \in Requests : Write(q) /\ request[q].counted # ActiveAdmins
SomeAdmin == [][LocksOut => ByScript \/ StaleCount]_vars

(* A sign-in binds a row to one person for good: its oid changes only from  *)
(* the placeholder, and never while the row is disabled, as long as         *)
(* requests come one at a time (dependencies.py _validate_azure_and_load_   *)
(* user: match by oid first, adopt only a "pending:" row, and commit after  *)
(* the check of is_active).                                                 *)
Adoption(e) == users'[e] # None /\ users'[e].oid # users[e].oid
BoundForGood ==
    [][calm' => \A e \in Rows : Adoption(e) => users[e].oid = None /\ users[e].active]_vars

\* --- What the comments say, and what the code does not do.

(* The docstring of _is_last_active_admin: "Used to prevent locking         *)
(* everyone out of user management".  Two administrators who demote or      *)
(* disable each other at the same time both count two.                      *)
AlwaysSomeAdmin == [][LocksOut => ByScript]_vars

(* And the script has no such guard at all: --dev-role takes any role for   *)
(* an address that is an administrator's.                                   *)
NeverLockedOut == ActiveAdmins # {}

(* dependencies.py: "an email already bound to a different real oid is      *)
(* treated as not-onboarded".  Two first sign-ins with the same address     *)
(* both see the placeholder, and the second replaces the first.             *)
NeverRebound == [][\A e \in Rows : Adoption(e) => users[e].oid = None]_vars

(* The docstring again: "True if `target` is the only remaining active user *)
(* on an admin role".  The target's own flag is not read, so that a         *)
(* disabled administrator cannot be demoted while one other is active.      *)
LastMeansTarget ==
    \A e \in Rows : IsLastActiveAdmin(e) => ActiveAdmins \subseteq {e} /\ users[e].active

=============================================================================
