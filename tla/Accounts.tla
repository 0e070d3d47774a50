------------------------------- MODULE Accounts -------------------------------
(***************************************************************************)
(* AuthService.register and login, TenantsService.createForUser and         *)
(* upsertMember behind TenantGuard and RolesGuard, over the tables users,   *)
(* tenants, memberships and refresh_tokens.                                 *)
(*                                                                          *)
(* Ids are fresh, so a row is known by the request that inserts it: a user  *)
(* by its registration, a tenant by the registration or the POST /tenants   *)
(* that makes it, a membership by the request that inserts it.  Passwords   *)
(* and the hashes argon2 makes of them are kept apart.                      *)
(***************************************************************************)
EXTENDS Integers, FiniteSets

CONSTANTS
    Registrars, \* POST /auth/register requests, and the users they make
    Logins,     \* POST /auth/login requests
    Openers,    \* POST /tenants requests
    Upserters,  \* POST /tenants/:id/members requests
    Emails,
    Passwords,
    NoRow,      \* "no such row"
    MaxFaults   \* bound on failed statements and crashes

Users == Registrars
Tenants == Registrars \cup Openers
Members == Registrars \cup Openers \cup Upserters
Requests == Members \cup Logins

Roles == {"owner", "admin", "member"}

\* A hash is not a password.
Hash(p) == [hash |-> p]
Hashes == {Hash(p) : p \in Passwords}

User == [email : Emails, passwordHash : Hashes]
Membership == [user : Users, tenant : Tenants, role : Roles]

ASSUME AccountsAssumption ==
    /\ Registrars \cap (Openers \cup Upserters \cup Logins) = {}
    /\ Openers \cap (Upserters \cup Logins) = {}
    /\ Upserters \cap Logins = {}
    /\ Passwords \cap Hashes = {}
    /\ NoRow \notin User \cup Membership \cup Members
    /\ MaxFaults \in Nat

VARIABLES
    users,   \* [Users -> User or NoRow]
    tenants, \* tenants in the table
    members, \* [Members -> Membership or NoRow]
    tokens,  \* users with a refresh token
    tx,      \* [Registrars -> tables its open transaction has written]
    at,      \* [Requests -> where the request is]
    arg,     \* [Requests -> what it works on]
    found,   \* [Upserters -> the membership row findOne returned, or NoRow]
    asker,   \* [Upserters -> the user whose request it is, or NoRow]
    crossed, \* upserts another one has overlapped (history)
    faults

tables == <<users, tenants, members, tokens>>
sides == <<found, asker, crossed>>
vars == <<tables, tx, at, arg, sides, faults>>

Init ==
    /\ users = [u \in Users |-> NoRow]
    /\ tenants = {}
    /\ members = [m \in Members |-> NoRow]
    /\ tokens = {}
    /\ tx = [r \in Registrars |-> {}]
    /\ at = [r \in Requests |-> "idle"]
    /\ arg = [r \in Requests |-> NoRow]
    /\ found = [r \in Upserters |-> NoRow]
    /\ asker = [r \in Upserters |-> NoRow]
    /\ crossed = {}
    /\ faults = 0

Goto(r, label) == at' = [at EXCEPT ![r] = label]

\* The answer; the request's values are gone.
End(r, label) ==
    /\ Goto(r, label)
    /\ arg' = [arg EXCEPT ![r] = NoRow]

\* The answer of an upsert.
EndUpsert(r, label) ==
    /\ End(r, label)
    /\ found' = [found EXCEPT ![r] = NoRow]
    /\ asker' = [asker EXCEPT ![r] = NoRow]
    /\ crossed' = crossed \ {r}

EmailUsed(e) == \E u \in Users : users[u] # NoRow /\ users[u].email = e

MemberRows(u, t) == {m \in Members : members[m] # NoRow /\ members[m].user = u
                                     /\ members[m].tenant = t}

-----------------------------------------------------------------------------
(* AuthService.register                                                     *)

PasswordUnhashed(r, e, p) ==
    /\ at[r] = "idle"
    /\ ~EmailUsed(e)
    /\ arg' = [arg EXCEPT ![r] = [email |-> e, passwordHash |-> p]]
    /\ Goto(r, "user")
    /\ UNCHANGED <<tables, tx, sides, faults>>

\* The findOne by email; hashing the password takes a while.
RegisterStart(r, e, p) ==
    /\ at[r] = "idle"
    /\ ~EmailUsed(e)
    /\ arg' = [arg EXCEPT ![r] = [email |-> e, passwordHash |-> Hash(p)]]
    /\ Goto(r, "user")
    /\ UNCHANGED <<tables, tx, sides, faults>>

RegisterRefused(r, e) ==
    /\ at[r] = "idle"
    /\ EmailUsed(e)
    /\ Goto(r, "refused")
    /\ UNCHANGED <<tables, tx, arg, sides, faults>>

EmailUnchecked(e) == FALSE
\* The unique index on users.email.
EmailTaken(e) == EmailUsed(e)

\* The INSERT waits for another transaction that has inserted the same email.
EmailLocked(r) == \E q \in Registrars \ {r} :
                     tx[q] # {} /\ arg[q].email = arg[r].email

\* BEGIN and the first INSERT.
InsertUser(r) ==
    /\ at[r] = "user"
    /\ ~EmailLocked(r) /\ ~EmailTaken(arg[r].email)
    /\ tx' = [tx EXCEPT ![r] = {"users"}]
    /\ Goto(r, "tenant")
    /\ UNCHANGED <<tables, arg, sides, faults>>

\* The index refuses it: the transaction is rolled back, the client gets a 500.
InsertUserClash(r) ==
    /\ at[r] = "user"
    /\ ~EmailLocked(r) /\ EmailTaken(arg[r].email)
    /\ End(r, "error")
    /\ UNCHANGED <<tables, tx, sides, faults>>

InsertTenant(r) ==
    /\ at[r] = "tenant"
    /\ tx' = [tx EXCEPT ![r] = @ \cup {"tenants"}]
    /\ Goto(r, "member")
    /\ UNCHANGED <<tables, arg, sides, faults>>

InsertMember(r) ==
    /\ at[r] = "member"
    /\ tx' = [tx EXCEPT ![r] = @ \cup {"memberships"}]
    /\ Goto(r, "commit")
    /\ UNCHANGED <<tables, arg, sides, faults>>

\* What the transaction has written becomes visible.
Publish(r) ==
    /\ users' = IF "users" \in tx[r] THEN [users EXCEPT ![r] = arg[r]]
                ELSE users
    /\ tenants' = IF "tenants" \in tx[r] THEN tenants \cup {r} ELSE tenants
    /\ members' = IF "memberships" \in tx[r]
                  THEN [members EXCEPT ![r] =
                          [user |-> r, tenant |-> r, role |-> "owner"]]
                  ELSE members

Commit(r) ==
    /\ at[r] = "commit"
    /\ Publish(r)
    /\ tx' = [tx EXCEPT ![r] = {}]
    /\ Goto(r, "token")
    /\ UNCHANGED <<tokens, arg, sides, faults>>

\* issueTokens
StoreToken(r) ==
    /\ at[r] = "token"
    /\ tokens' = tokens \cup {r}
    /\ End(r, "registered")
    /\ UNCHANGED <<users, tenants, members, tx, sides, faults>>

-----------------------------------------------------------------------------
(* AuthService.login                                                        *)

\* argon2.verify(digest, password) throws when the digest is not one.
Verify(digest, password) ==
    IF digest \notin Hashes THEN "throws"
    ELSE IF digest = Hash(password) THEN "yes" ELSE "no"

\* findOne by email, then argon2.verify(dto.password, user.passwordHash).
Login(r, u, p) ==
    /\ at[r] = "idle"
    /\ users[u] # NoRow
    /\ LET answer == Verify(p, users[u].passwordHash) IN
       /\ Goto(r, CASE answer = "throws" -> "error"
                    [] answer = "no"     -> "refused"
                    [] answer = "yes"    -> "logged in")
       /\ tokens' = IF answer = "yes" THEN tokens \cup {u} ELSE tokens
    /\ arg' = [arg EXCEPT ![r] = [email |-> users[u].email,
                                  passwordHash |-> Hash(p)]]
    /\ UNCHANGED <<users, tenants, members, tx, sides, faults>>

LoginRefused(r, e) ==
    /\ at[r] = "idle"
    /\ ~EmailUsed(e)
    /\ Goto(r, "refused")
    /\ UNCHANGED <<tables, tx, arg, sides, faults>>

-----------------------------------------------------------------------------
(* TenantsService.createForUser: two statements, no transaction.            *)

OpenTenant(r, u) ==
    /\ at[r] = "idle"
    /\ users[u] # NoRow
    /\ tenants' = tenants \cup {r}
    /\ arg' = [arg EXCEPT ![r] = [user |-> u, tenant |-> r, role |-> "owner"]]
    /\ Goto(r, "own")
    /\ UNCHANGED <<users, members, tokens, tx, sides, faults>>

OwnTenant(r) ==
    /\ at[r] = "own"
    /\ members' = [members EXCEPT ![r] = arg[r]]
    /\ End(r, "opened")
    /\ UNCHANGED <<users, tenants, tokens, tx, sides, faults>>

-----------------------------------------------------------------------------
(* TenantsService.upsertMember for user u, asked for by a.                  *)

AnyMember(a, t) == MemberRows(a, t) # {}
\* TenantGuard finds the caller's row, RolesGuard looks at its role.
Manages(a, t) ==
    \E m \in MemberRows(a, t) : members[m].role \in {"owner", "admin"}

\* The guards let the caller in by the role it has now; u exists.
UpsertStart(r, a, t, u, role) ==
    /\ at[r] = "idle"
    /\ Manages(a, t)
    /\ users[u] # NoRow
    /\ arg' = [arg EXCEPT ![r] = [user |-> u, tenant |-> t, role |-> role]]
    /\ asker' = [asker EXCEPT ![r] = a]
    /\ LET others == {q \in Upserters : asker[q] # NoRow} IN
       crossed' = IF others = {} THEN {} ELSE others \cup {r}
    /\ Goto(r, "find")
    /\ UNCHANGED <<tables, tx, found, faults>>

\* No membership, a lesser role, or no such user.
UpsertRefused(r, a, t, u) ==
    /\ at[r] = "idle"
    /\ ~(Manages(a, t) /\ users[u] # NoRow)
    /\ Goto(r, "refused")
    /\ UNCHANGED <<tables, tx, arg, sides, faults>>

FindMember(r) ==
    LET rows == MemberRows(arg[r].user, arg[r].tenant) IN
    /\ at[r] = "find"
    /\ found' = [found EXCEPT ![r] =
                   IF rows = {} THEN NoRow ELSE CHOOSE m \in rows : TRUE]
    /\ Goto(r, "save")
    /\ UNCHANGED <<tables, tx, arg, asker, crossed, faults>>

\* The row is there: its role is replaced, whatever it is by now.  (When
\* save() finds it equal it writes nothing, which is the same write earlier.)
ChangeRole(r) ==
    /\ at[r] = "save"
    /\ found[r] # NoRow
    /\ members' = [members EXCEPT ![found[r]].role = arg[r].role]
    /\ EndUpsert(r, "upserted")
    /\ UNCHANGED <<users, tenants, tokens, tx, faults>>

PairUnchecked(u, t) == FALSE
\* The unique index on (userId, tenantId).
PairTaken(u, t) == MemberRows(u, t) # {}

\* It was not: a row is inserted ...
AddMember(r) ==
    /\ at[r] = "save"
    /\ found[r] = NoRow
    /\ ~PairTaken(arg[r].user, arg[r].tenant)
    /\ members' = [members EXCEPT ![r] = arg[r]]
    /\ EndUpsert(r, "upserted")
    /\ UNCHANGED <<users, tenants, tokens, tx, faults>>

\* ... unless another request has inserted one since.
AddMemberClash(r) ==
    /\ at[r] = "save"
    /\ found[r] = NoRow
    /\ PairTaken(arg[r].user, arg[r].tenant)
    /\ EndUpsert(r, "error")
    /\ UNCHANGED <<tables, tx, faults>>

-----------------------------------------------------------------------------
Fault == faults < MaxFaults /\ faults' = faults + 1

RollbackForgotten(r) == Publish(r)
\* The transaction of a registration is undone.
Rollback(r) == UNCHANGED <<users, tenants, members>>

\* A statement of the transaction fails.
RegisterFails(r) ==
    /\ Fault
    /\ at[r] \in {"tenant", "member", "commit"}
    /\ Rollback(r)
    /\ tx' = [tx EXCEPT ![r] = {}]
    /\ End(r, "error")
    /\ UNCHANGED <<tokens, sides>>

\* A statement outside of one fails.
StatementFails(r) ==
    /\ Fault
    /\ \/ /\ at[r] \in {"user", "token", "own"}
          /\ End(r, "error")
          /\ UNCHANGED sides
       \/ /\ at[r] \in {"find", "save"}
          /\ EndUpsert(r, "error")
    /\ UNCHANGED <<tables, tx>>

Ended == {"idle", "refused", "error", "registered", "logged in", "opened",
          "upserted", "cut"}

\* The server dies; the database undoes open transactions.
Crash ==
    /\ Fault
    /\ tx' = [r \in Registrars |-> {}]
    /\ at' = [r \in Requests |-> IF at[r] \in Ended THEN at[r] ELSE "cut"]
    /\ arg' = [r \in Requests |-> IF at[r] \in Ended THEN arg[r] ELSE NoRow]
    /\ found' = [r \in Upserters |-> NoRow]
    /\ asker' = [r \in Upserters |-> NoRow]
    /\ crossed' = {}
    /\ UNCHANGED tables

Next ==
    \/ \E r \in Registrars :
         \/ \E e \in Emails :
              \/ RegisterRefused(r, e)
              \/ \E p \in Passwords : RegisterStart(r, e, p)
         \/ InsertUser(r) \/ InsertUserClash(r) \/ InsertTenant(r)
         \/ InsertMember(r) \/ Commit(r) \/ StoreToken(r) \/ RegisterFails(r)
    \/ \E r \in Logins :
         \/ \E e \in Emails : LoginRefused(r, e)
         \/ \E u \in Users, p \in Passwords : Login(r, u, p)
    \/ \E r \in Openers : OwnTenant(r) \/ \E u \in Users : OpenTenant(r, u)
    \/ \E r \in Upserters :
         \/ \E a \in Users, t \in Tenants, u \in Users :
              \/ UpsertRefused(r, a, t, u)
              \/ \E role \in Roles : UpsertStart(r, a, t, u, role)
         \/ FindMember(r) \/ ChangeRole(r) \/ AddMember(r) \/ AddMemberClash(r)
    \/ \E r \in Requests : StatementFails(r)
    \/ Crash

Spec == Init /\ [][Next]_vars

-----------------------------------------------------------------------------
(* Properties *)

\* The type of every variable.
TypeOK ==
    /\ users \in [Users -> User \cup {NoRow}]
    /\ tenants \subseteq Tenants
    /\ members \in [Members -> Membership \cup {NoRow}]
    /\ tokens \subseteq Users
    /\ tx \in [Registrars -> SUBSET {"users", "tenants", "memberships"}]
    /\ at \in [Requests -> Ended \cup {"user", "tenant", "member", "commit",
                                       "token", "own", "find", "save"}]
    /\ arg \in [Requests -> User \cup Membership \cup {NoRow}]
    /\ found \in [Upserters -> Members \cup {NoRow}]
    /\ asker \in [Upserters -> Users \cup {NoRow}]
    /\ crossed \subseteq Upserters
    /\ faults \in 0 .. MaxFaults

\* No two accounts have one email: register looks before it hashes the
\* password and inserts long after.
OneUserPerEmail ==
    \A u, v \in Users :
        (users[u] # NoRow /\ users[v] # NoRow /\ u # v)
            => users[u].email # users[v].email

\* No user is twice a member of a tenant, although upsertMember looks first
\* and inserts later: TenantGuard takes any row it finds for the role.
OneMembershipEach ==
    \A u \in Users, t \in Tenants : Cardinality(MemberRows(u, t)) <= 1

\* An account has its tenant and belongs to it, and a tenant whose creation
\* was answered has a member, whichever statement fails and whenever the
\* server dies.
AccountsHaveTenants ==
    /\ \A u \in Users : users[u] # NoRow =>
          u \in tenants /\ MemberRows(u, u) # {}
    /\ \A r \in Openers : at[r] = "opened" =>
          \E u \in Users : MemberRows(u, r) # {}

\* Roles change hands only as the guards mean it: the first row of a tenant
\* is that of its creator, so a tenant a failure has left without members
\* stays closed to everybody, and any other write is asked for by a member.
\* The guards have read the asker's role before the write: it manages the
\* tenant still, unless another upsert has come in between.
MembersChangeByManagers ==
    [][\A m \in Members : members'[m] # members[m] =>
          \/ /\ members[m] = NoRow /\ members'[m].role = "owner"
             /\ members'[m].tenant = m
             /\ \A u \in Users : MemberRows(u, m) = {}
          \/ \E r \in Upserters :
                /\ at[r] = "save" /\ at'[r] = "upserted"
                /\ \E a \in MemberRows(asker[r], members'[m].tenant) :
                      r \in crossed \/ members[a].role # "member"]_vars

\* A login with the password of the account is answered with tokens (docs:
\* the login verifies the password and issues access and refresh token).
RightPasswordLogsIn ==
    \A r \in Logins, u \in Users :
        (at[r] \in Ended \ {"idle"} /\ users[u] # NoRow /\ arg[r] = users[u])
            => at[r] = "logged in"

-----------------------------------------------------------------------------
(* The inductive invariant, from which the safety properties above follow.  *)

\* Each kind of request goes its own way, with values of its own.
RequestsFit ==
    \A r \in Requests :
        /\ at[r] \in {"user", "tenant", "member", "commit", "token"} =>
              r \in Registrars /\ arg[r] \in User
        /\ at[r] = "own" =>
              /\ r \in Openers /\ arg[r] \in Membership
              /\ arg[r].tenant = r /\ arg[r].role = "owner"
              /\ users[arg[r].user] # NoRow
        /\ at[r] \in {"find", "save"} =>
              /\ r \in Upserters /\ arg[r] \in Membership
              /\ users[arg[r].user] # NoRow

\* A registration has inserted what comes before the point it has reached.
TxFits ==
    \A r \in Registrars :
        /\ "users" \in tx[r] <=> at[r] \in {"tenant", "member", "commit"}
        /\ "tenants" \in tx[r] <=> at[r] \in {"member", "commit"}
        /\ "memberships" \in tx[r] <=> at[r] = "commit"

\* Where a request has not inserted its rows yet.
Before == {"idle", "user", "tenant", "member", "commit", "own", "find", "save"}

\* Until then it has none, and nobody belongs to the tenant it will make.
NothingBefore ==
    \A m \in Members :
        at[m] \in Before =>
            /\ members[m] = NoRow
            /\ m \in Users => users[m] = NoRow
            /\ \A n \in Members : members[n] # NoRow => members[n].tenant # m

\* The foreign key of a membership.
MembersAreUsers ==
    \A m \in Members : members[m] # NoRow => users[members[m].user] # NoRow

\* The emails of committed and of open registrations are all different.
EmailsApart ==
    /\ OneUserPerEmail
    /\ \A q \in Registrars : tx[q] # {} =>
         /\ \A r \in Registrars : r # q /\ tx[r] # {} =>
                arg[r].email # arg[q].email
         /\ \A u \in Users : users[u] # NoRow => users[u].email # arg[q].email

\* The unique index on (userId, tenantId).
PairsApart ==
    \A m, n \in Members :
        (/\ members[m] # NoRow /\ members[n] # NoRow
         /\ members[m].user = members[n].user
         /\ members[m].tenant = members[n].tenant) => m = n

\* An upsert is asked for by somebody the tenant has; while no other upsert
\* has overlapped it, by somebody who manages it.  The row it has found is the
\* row of its pair.
UpsertsFit ==
    \A r \in Upserters :
        /\ asker[r] # NoRow <=> at[r] \in {"find", "save"}
        /\ r \in crossed => asker[r] # NoRow
        /\ asker[r] # NoRow =>
             /\ MemberRows(asker[r], arg[r].tenant) # {}
             /\ r \notin crossed =>
                  /\ Manages(asker[r], arg[r].tenant)
                  /\ \A q \in Upserters : asker[q] # NoRow => q = r
        /\ at[r] = "save" /\ found[r] # NoRow =>
             found[r] \in MemberRows(arg[r].user, arg[r].tenant)

\* Rows, open transactions and the requests on their way fit together.
AccountsInv ==
    /\ TypeOK
    /\ RequestsFit
    /\ TxFits
    /\ NothingBefore
    /\ MembersAreUsers
    /\ EmailsApart
    /\ PairsApart
    /\ UpsertsFit
    /\ AccountsHaveTenants
=============================================================================
