-------------------------------- MODULE Auth --------------------------------
(***************************************************************************)
(* Sessions and access control of one organization: AuthService,           *)
(* UsersService, RolesService and JwtStrategy.                             *)
(*                                                                         *)
(* A session is a family of refresh tokens: a refresh revokes the token it *)
(* is given and inserts its successor.  An access token carries the        *)
(* permissions and the security stamp its user had when it was issued; it  *)
(* is honoured while the stamp is still the user's.                        *)
(*                                                                         *)
(* The tables of user roles and role permissions are one set of links,     *)
(* <<user, role>> and <<role, permission>>.  Both are replaced the same    *)
(* way: a delete of the links of an owner, then an insertion.              *)
(***************************************************************************)
EXTENDS Naturals, FiniteSets

CONSTANTS
  Users, Roles, Permissions,
  SystemRoles,   \* roles whose permissions are fixed (isSystem)
  Tokens,        \* refresh tokens that may be issued
  AuthRequests,
  MaxAuthOverlapping,  \* bound: requests begun, once some of a group overlap
  MaxStamp,            \* bound on the changes of one user
  Nothing

VARIABLES
  users,           \* [exists, active, stamp] of each user row
  roles,           \* the role rows
  links,           \* rows of user_roles and role_permissions
  refreshTokens,   \* the refresh token rows
  expired,         \* tokens past their validity
  access,          \* access tokens handed to clients
  loggedOut,       \* families a logout has ended
  authPc, authTx,
  authOverlapped       \* history: the groups two requests of which were in
                   \* progress at once

accounts == <<users, roles, links>>
sessions == <<refreshTokens, expired, access, loggedOut>>
authVars == <<accounts, sessions, authPc, authTx, authOverlapped>>

-----------------------------------------------------------------------------
(* Rows and requests *)

AdminOperations == {"set_roles", "create_user", "update_user",
                    "set_permissions", "create_role", "delete_role"}
TokenOperations == {"refresh", "logout"}
Groups == {AdminOperations, TokenOperations}

Links == (Users \X Roles) \cup (Roles \X Permissions)
LinksOf(owner) == {l \in links : l[1] = owner}
HeldBy(u) == {l[2] : l \in LinksOf(u)}
GrantedBy(held) == {l[2] : l \in {k \in links : k[1] \in held}}
PermissionsOf(u) == GrantedBy(HeldBy(u))

NoToken == [user |-> Nothing, family |-> Nothing, live |-> FALSE, replacedBy |-> Nothing]
Token == [user: Users, family: Tokens, live: BOOLEAN,
          replacedBy: Tokens \cup {Nothing}]
Issued == {t \in Tokens : refreshTokens[t] # NoToken}
Family(f) == {t \in Issued : refreshTokens[t].family = f}
Live(f) == {t \in Family(f) : refreshTokens[t].live}

\* What a request has read, locked and written and not published.
NoAuthWork == [op |-> "none", owner |-> Nothing, wanted |-> {}, seen |-> {},
           dropped |-> {}, added |-> {}, bump |-> {}, bumped |-> {},
           active |-> TRUE, token |-> Nothing, fresh |-> Nothing, stamp |-> 0,
           held |-> {}, permissions |-> {}, locks |-> {}]

\* No other request holds the row.
Free(r, row) == \A q \in AuthRequests \ {r} : row \notin authTx[q].locks
AllFree(r, rows) == \A row \in rows : Free(r, row)

Fresh == {t \in Tokens \ Issued : \A q \in AuthRequests : authTx[q].fresh # t}

OverlappingNow(op) == {g \in Groups : op \in g /\ \E q \in AuthRequests : authTx[q].op \in g}
Begun == {r \in AuthRequests : authPc[r] # "idle"}

\* Any request may begin at any time, up to the bound.
Starts(r, op) ==
  /\ authPc[r] = "idle"
  /\ authOverlapped \cup OverlappingNow(op) # {} => Cardinality(Begun) < MaxAuthOverlapping

AuthGoes(r, label, work) ==
  /\ authPc' = [authPc EXCEPT ![r] = label]
  /\ authTx' = [authTx EXCEPT ![r] = work]
  /\ authOverlapped' =
       authOverlapped \cup (IF authPc[r] = "idle" THEN OverlappingNow(work.op) ELSE {})

Ends(r) == AuthGoes(r, "ended", NoAuthWork)

\* A check that fails, a unique or foreign key violation, a deadlock, the
\* transaction timeout or a crash of the API.
AuthAbort(r) ==
  /\ authPc[r] \notin {"idle", "ended"}
  /\ Ends(r)
  /\ UNCHANGED <<accounts, sessions>>

-----------------------------------------------------------------------------
(* Login and refresh *)

BeginLogin(r, u) ==
  /\ Starts(r, "login")
  /\ users[u].exists /\ users[u].active
  /\ AuthGoes(r, "roles", [NoAuthWork EXCEPT !.op = "login", !.owner = u,
                                     !.stamp = users[u].stamp])
  /\ UNCHANGED <<accounts, sessions>>

BeginRefresh(r, t) ==
  /\ Starts(r, "refresh")
  /\ t \in Issued \ expired
  /\ refreshTokens[t].live
  /\ AuthGoes(r, "user", [NoAuthWork EXCEPT !.op = "refresh", !.token = t,
                                    !.owner = refreshTokens[t].user])
  /\ UNCHANGED <<accounts, sessions>>

\* A token that was replaced is presented: the updateMany that revokes the family
\* waits for its rows, and the exception that follows it rolls it back.
RejectReuse(r, t) ==
  /\ Starts(r, "refresh")
  /\ t \in Issued \ expired
  /\ ~refreshTokens[t].live
  /\ AllFree(r, Live(refreshTokens[t].family))
  /\ Ends(r)
  /\ UNCHANGED <<accounts, refreshTokens, expired, access, loggedOut>>

ReadUser(r) ==
  /\ authPc[r] = "user"
  /\ users[authTx[r].owner].active
  /\ AuthGoes(r, "rotate", [authTx[r] EXCEPT !.stamp = users[authTx[r].owner].stamp])
  /\ UNCHANGED <<accounts, sessions>>

\* The update names the row alone: what another request did to it while this
\* one waited is not seen.
Rotate(r) ==
  /\ authPc[r] = "rotate"
  /\ Free(r, authTx[r].token)
  /\ \E s \in Fresh :
       AuthGoes(r, "roles", [authTx[r] EXCEPT !.fresh = s, !.locks = {authTx[r].token}])
  /\ UNCHANGED <<accounts, sessions>>

\* loadPermissionKeys: the roles of the user, then what they grant.
ReadRoles(r) ==
  /\ authPc[r] = "roles"
  /\ AuthGoes(r, "grants", [authTx[r] EXCEPT !.held = HeldBy(authTx[r].owner)])
  /\ UNCHANGED <<accounts, sessions>>

ReadGrants(r) ==
  /\ authPc[r] = "grants"
  /\ AuthGoes(r, "issue", [authTx[r] EXCEPT !.permissions = GrantedBy(authTx[r].held)])
  /\ UNCHANGED <<accounts, sessions>>

AccessToken(r) == [user |-> authTx[r].owner, stamp |-> authTx[r].stamp,
                   permissions |-> authTx[r].permissions]

IssueLogin(r) ==
  /\ authPc[r] = "issue" /\ authTx[r].op = "login"
  /\ \E s \in Fresh :
       refreshTokens' = [refreshTokens EXCEPT ![s] =
         [user |-> authTx[r].owner, family |-> s, live |-> TRUE, replacedBy |-> Nothing]]
  /\ access' = access \cup {AccessToken(r)}
  /\ Ends(r)
  /\ UNCHANGED <<accounts, expired, loggedOut>>

IssueRefresh(r) ==
  /\ authPc[r] = "issue" /\ authTx[r].op = "refresh"
  /\ refreshTokens' = [refreshTokens EXCEPT
       ![authTx[r].token].live = FALSE,
       ![authTx[r].token].replacedBy = authTx[r].fresh,
       ![authTx[r].fresh] = [user |-> authTx[r].owner,
                         family |-> refreshTokens[authTx[r].token].family,
                         live |-> TRUE, replacedBy |-> Nothing]]
  /\ access' = access \cup {AccessToken(r)}
  /\ Ends(r)
  /\ UNCHANGED <<accounts, expired, loggedOut>>

-----------------------------------------------------------------------------
(* Logout *)

\* The rows the updateMany of a logout finds live when it starts.
BeginLogout(r, t) ==
  /\ Starts(r, "logout")
  /\ t \in Issued \ expired
  /\ AuthGoes(r, "revoke", [NoAuthWork EXCEPT !.op = "logout", !.token = t,
                                      !.seen = Live(refreshTokens[t].family)])
  /\ UNCHANGED <<accounts, sessions>>

\* Mutant: logout revokes the token it is given and not its family.
RevokeToken(r) ==
  /\ authPc[r] = "revoke"
  /\ AllFree(r, authTx[r].seen)
  /\ refreshTokens' = [refreshTokens EXCEPT ![authTx[r].token].live = FALSE]
  /\ loggedOut' = loggedOut \cup {refreshTokens[authTx[r].token].family}
  /\ Ends(r)
  /\ UNCHANGED <<accounts, expired, access>>

RevokeFamily(r) ==
  /\ authPc[r] = "revoke"
  /\ AllFree(r, authTx[r].seen)
  /\ refreshTokens' = [t \in Tokens |->
       IF t \in authTx[r].seen THEN [refreshTokens[t] EXCEPT !.live = FALSE]
       ELSE refreshTokens[t]]
  /\ loggedOut' = loggedOut \cup {refreshTokens[authTx[r].token].family}
  /\ Ends(r)
  /\ UNCHANGED <<accounts, expired, access>>

Expire(t) ==
  /\ t \in Issued \ expired
  /\ expired' = expired \cup {t}
  /\ UNCHANGED <<accounts, refreshTokens, access, loggedOut, authPc, authTx,
                 authOverlapped>>

-----------------------------------------------------------------------------
(* Users and roles *)

Replaces(op, owner, wanted, bump) ==
  [NoAuthWork EXCEPT !.op = op, !.owner = owner, !.wanted = wanted, !.bump = bump]

BeginSetRoles(r, u, held) ==
  /\ Starts(r, "set_roles")
  /\ users[u].exists
  /\ held \subseteq roles
  /\ AuthGoes(r, "see", Replaces("set_roles", u, {u} \X held, {u}))
  /\ UNCHANGED <<accounts, sessions>>

BeginCreateUser(r, u, held) ==
  /\ Starts(r, "create_user")
  /\ ~users[u].exists /\ Free(r, u)
  /\ held \subseteq roles
  /\ AuthGoes(r, IF held = {} THEN "commit" ELSE "see",
          [Replaces("create_user", u, {u} \X held, IF held = {} THEN {} ELSE {u})
           EXCEPT !.locks = {u}])
  /\ UNCHANGED <<accounts, sessions>>

\* Only the update that carries isActive; the name of a user is left out.
BeginUpdateUser(r, u, active) ==
  /\ Starts(r, "update_user")
  /\ users[u].exists
  /\ AuthGoes(r, "bump", [Replaces("update_user", u, {}, {u})
                      EXCEPT !.active = active])
  /\ UNCHANGED <<accounts, sessions>>

BeginSetPermissions(r, role, granted) ==
  /\ Starts(r, "set_permissions")
  /\ role \in roles \ SystemRoles
  /\ AuthGoes(r, "see", Replaces("set_permissions", role, {role} \X granted, {}))
  /\ UNCHANGED <<accounts, sessions>>

BeginCreateRole(r, role, granted) ==
  /\ Starts(r, "create_role")
  /\ role \notin roles \cup SystemRoles /\ Free(r, role)
  /\ AuthGoes(r, IF granted = {} THEN "commit" ELSE "see",
          [Replaces("create_role", role, {role} \X granted, {})
           EXCEPT !.locks = {role}])
  /\ UNCHANGED <<accounts, sessions>>

BeginDeleteRole(r, role) ==
  /\ Starts(r, "delete_role")
  /\ role \in roles \ SystemRoles
  /\ AuthGoes(r, "users", Replaces("delete_role", role, {}, {}))
  /\ UNCHANGED <<accounts, sessions>>

\* deleteMany: the rows it sees when it starts, those of them that are left
\* when it has waited for their locks.
SeeLinks(r) ==
  /\ authPc[r] = "see"
  /\ AuthGoes(r, "drop", [authTx[r] EXCEPT !.seen = LinksOf(authTx[r].owner)])
  /\ UNCHANGED <<accounts, sessions>>

\* Mutant: the old links are kept.
KeepLinks(r) ==
  /\ authPc[r] = "drop"
  /\ AuthGoes(r, "add", [authTx[r] EXCEPT !.wanted = authTx[r].wanted \ links])
  /\ UNCHANGED <<accounts, sessions>>

DropLinks(r) ==
  /\ authPc[r] = "drop"
  /\ AllFree(r, authTx[r].seen)
  /\ LET dropped == authTx[r].seen \cap links
     IN AuthGoes(r, "add", [authTx[r] EXCEPT !.dropped = dropped,
                                     !.locks = authTx[r].locks \cup dropped])
  /\ UNCHANGED <<accounts, sessions>>

\* createMany: unique keys, and roles that exist and are not being deleted.
RolesNamed(r) == (({authTx[r].owner} \cup {l[2] : l \in authTx[r].wanted}) \cap Roles)
AddLinks(r) ==
  /\ authPc[r] = "add"
  /\ AllFree(r, authTx[r].wanted)
  /\ authTx[r].wanted \cap (links \ authTx[r].dropped) = {}
  /\ authTx[r].wanted # {} =>
       \A role \in RolesNamed(r) : Free(r, role) /\ (role \in roles \/ role \in authTx[r].locks)
  /\ AuthGoes(r, IF authTx[r].bump = {} THEN "users" ELSE "bump",
          [authTx[r] EXCEPT !.added = authTx[r].wanted,
                        !.locks = authTx[r].locks \cup authTx[r].wanted])
  /\ UNCHANGED <<accounts, sessions>>

\* What follows when the stamps of `bump' are to be incremented.
Bumping(op, bump) ==
  IF bump # {} THEN "bump" ELSE IF op = "delete_role" THEN "delete" ELSE "commit"

\* Mutant: no user of the role is found.
ReadNoUsers(r) ==
  /\ authPc[r] = "users"
  /\ AuthGoes(r, Bumping(authTx[r].op, {}), authTx[r])
  /\ UNCHANGED <<accounts, sessions>>

\* bumpSecurityStampForRoleUsers: the users that hold the role, then each.
ReadUsers(r) ==
  /\ authPc[r] = "users"
  /\ LET holders == {u \in Users : authTx[r].owner \in HeldBy(u)}
     IN AuthGoes(r, Bumping(authTx[r].op, holders), [authTx[r] EXCEPT !.bump = holders])
  /\ UNCHANGED <<accounts, sessions>>

Bump(r) ==
  /\ authPc[r] = "bump"
  /\ \E u \in authTx[r].bump :
       /\ Free(r, u)
       /\ users[u].stamp < MaxStamp
       /\ AuthGoes(r, Bumping(authTx[r].op, authTx[r].bump \ {u}),
               [authTx[r] EXCEPT !.bump = @ \ {u}, !.bumped = @ \cup {u},
                             !.locks = @ \cup {u}])
  /\ UNCHANGED <<accounts, sessions>>

\* The row waits for the insertions that refer to it; the cascade then drops
\* every link that does, read after the wait.
DeleteRole(r) ==
  LET role == authTx[r].owner
      naming == {l \in links : role \in {l[1], l[2]}}
  IN /\ authPc[r] = "delete"
     /\ role \in roles
     /\ Free(r, role)
     /\ \A q \in AuthRequests \ {r} : \A l \in authTx[q].added : role \notin {l[1], l[2]}
     /\ AllFree(r, naming)
     /\ AuthGoes(r, "commit", [authTx[r] EXCEPT !.dropped = naming,
                                        !.locks = @ \cup naming \cup {role}])
     /\ UNCHANGED <<accounts, sessions>>

AuthCommit(r) ==
  /\ authPc[r] = "commit"
  /\ LET w == authTx[r]
     IN /\ links' = (links \ w.dropped) \cup w.added
        /\ roles' = CASE w.op = "create_role" -> roles \cup {w.owner}
                      [] w.op = "delete_role" -> roles \ {w.owner}
                      [] OTHER -> roles
        /\ users' = [u \in Users |->
             [exists |-> users[u].exists \/ (w.op = "create_user" /\ u = w.owner),
              active |-> IF w.op = "update_user" /\ u = w.owner THEN w.active
                         ELSE users[u].active,
              stamp |-> users[u].stamp + (IF u \in w.bumped THEN 1 ELSE 0)]]
  /\ Ends(r)
  /\ UNCHANGED sessions

-----------------------------------------------------------------------------
\* registerOrganization leaves one user, its administrator, holding a system
\* role with every permission.  Runs that need other rows from the start say
\* which; each can be reached by the operations above.
CONSTANTS FirstUsers, FirstLinks

\* The rows of different tables are different.
ASSUME AuthAssumption ==
  /\ SystemRoles \subseteq Roles
  /\ {MaxAuthOverlapping, MaxStamp} \subseteq Nat
  /\ FirstUsers \subseteq Users
  /\ FirstLinks \subseteq Links
  /\ Users \cap Roles = {} /\ Roles \cap Permissions = {}
  /\ Nothing \notin Users \cup Roles \cup Tokens

FirstRoles == {role \in Roles : \E l \in FirstLinks : role \in {l[1], l[2]}}

AuthInit ==
  /\ users = [u \in Users |-> [exists |-> u \in FirstUsers, active |-> TRUE, stamp |-> 0]]
  /\ roles = FirstRoles
  /\ links = FirstLinks
  /\ refreshTokens = [t \in Tokens |-> NoToken]
  /\ expired = {} /\ access = {} /\ loggedOut = {}
  /\ authPc = [r \in AuthRequests |-> "idle"]
  /\ authTx = [r \in AuthRequests |-> NoAuthWork]
  /\ authOverlapped = {}

SessionStep(r) ==
  \/ \E u \in Users : BeginLogin(r, u)
  \/ \E t \in Tokens : BeginRefresh(r, t) \/ RejectReuse(r, t) \/ BeginLogout(r, t)
  \/ ReadUser(r) \/ Rotate(r) \/ ReadRoles(r) \/ ReadGrants(r)
  \/ IssueLogin(r) \/ IssueRefresh(r) \/ RevokeFamily(r)

AdminStep(r) ==
  \/ \E u \in Users, held \in SUBSET Roles :
       BeginSetRoles(r, u, held) \/ BeginCreateUser(r, u, held)
  \/ \E u \in Users, active \in BOOLEAN : BeginUpdateUser(r, u, active)
  \/ \E role \in Roles, granted \in SUBSET Permissions :
       BeginSetPermissions(r, role, granted) \/ BeginCreateRole(r, role, granted)
  \/ \E role \in Roles : BeginDeleteRole(r, role)
  \/ SeeLinks(r) \/ DropLinks(r) \/ AddLinks(r) \/ ReadUsers(r)
  \/ Bump(r) \/ DeleteRole(r) \/ AuthCommit(r)

AuthNext ==
  \/ \E r \in AuthRequests : SessionStep(r) \/ AdminStep(r) \/ AuthAbort(r)
  \/ \E t \in Tokens : Expire(t)

AuthSpec == AuthInit /\ [][AuthNext]_authVars

-----------------------------------------------------------------------------
(* Properties *)

\* Rows have their columns, and what a request locks it locks alone.
AuthTypeOK ==
  /\ users \in [Users -> [exists: BOOLEAN, active: BOOLEAN, stamp: 0..MaxStamp]]
  /\ roles \subseteq Roles
  /\ links \subseteq Links
  /\ refreshTokens \in [Tokens -> Token \cup {NoToken}]
  /\ access \subseteq [user: Users, stamp: 0..MaxStamp, permissions: SUBSET Permissions]
  /\ expired \subseteq Issued
  /\ authOverlapped \subseteq Groups
  /\ \A r, q \in AuthRequests : r # q => authTx[r].locks \cap authTx[q].locks = {}

\* Until administrative requests overlap, a token whose stamp is its user's
\* carries the permissions its user has: whatever changed them since, or while
\* the token was being issued, has changed the stamp (JwtStrategy.validate,
\* RolesService.setPermissions).
StampVouches ==
  AdminOperations \notin authOverlapped =>
    \A a \in access :
      a.stamp = users[a.user].stamp => a.permissions = PermissionsOf(a.user)

\* Until administrative requests overlap, replacing the roles of a user or the
\* permissions of a role leaves those asked for and no others (the deleteMany
\* and createMany of setRoles and setPermissions).
ReplacesThem ==
  AdminOperations \notin authOverlapped' =>
     \A r \in AuthRequests :
       authPc[r] = "commit" /\ authPc'[r] = "ended" /\ authTx[r].op \in {"set_roles", "set_permissions"}
         /\ <<users', roles', links'>> # accounts
       => {l \in links' : l[1] = authTx[r].owner} = authTx[r].wanted
ReplacesLinks == [][ReplacesThem]_authVars

\* Until refreshes and logouts overlap, a session has one refresh token in use
\* ("de uso único" in api-client.ts), and none once it has logged out.
\* (With the types.)
OneLiveToken ==
  /\ AuthTypeOK
  /\ TokenOperations \notin authOverlapped =>
       \A f \in Tokens : Cardinality(Live(f)) <= IF f \in loggedOut THEN 0 ELSE 1
=============================================================================
