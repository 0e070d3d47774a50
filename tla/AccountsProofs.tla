--------------------------- MODULE AccountsProofs ---------------------------
(***************************************************************************)
(* Proofs about Accounts for any sets of requests, emails and passwords and *)
(* any number of faults.  AccountsInv is inductive.  Four actions write     *)
(* users and memberships (RowsWritten); what each of them writes is a lemma *)
(* (CommitWrites, OwnTenantWrites, AddMemberWrites, ChangeRoleWrites), and  *)
(* the lemmas on rows use no action but these.  Lemmas that go through all  *)
(* actions say what a step does to the types, the values and transactions   *)
(* of requests, and the upserts under way.                                  *)
(***************************************************************************)
EXTENDS Accounts, FiniteSetTheorems, TLAPS

\* What a dto and its hash make is a user.
LEMMA UserTyped ==
    ASSUME NEW e \in Emails, NEW p \in Passwords
    PROVE  [email |-> e, passwordHash |-> Hash(p)] \in User
  BY DEF User, Hashes

\* What a request asks for is a membership.
LEMMA MembershipTyped ==
    ASSUME NEW u \in Users, NEW t \in Tenants, NEW role \in Roles
    PROVE  [user |-> u, tenant |-> t, role |-> role] \in Membership
  BY DEF Membership

\* A fault is counted.
LEMMA FaultTyped ==
    ASSUME faults \in 0 .. MaxFaults, Fault
    PROVE  faults' \in 0 .. MaxFaults
<1>1. MaxFaults \in Nat
  BY AccountsAssumption
<1> QED
  BY <1>1 DEF Fault

\* A login is answered in one of three ways.
LEMMA LoginEnds ==
    ASSUME NEW r \in Logins, NEW u \in Users, NEW p \in Passwords,
           Login(r, u, p)
    PROVE    /\ \E label \in {"error", "refused", "logged in"} : Goto(r, label)
             /\ tokens' \in {tokens, tokens \cup {u}}
             /\ users[u] # NoRow
             /\ arg' = [arg EXCEPT ![r] = [email |-> users[u].email,
                                          passwordHash |-> Hash(p)]]
             /\ users' = users /\ tenants' = tenants /\ members' = members
             /\ tx' = tx /\ found' = found /\ asker' = asker
             /\ crossed' = crossed /\ faults' = faults
<1> DEFINE answer == Verify(p, users[u].passwordHash)
<1>1. answer \in {"throws", "yes", "no"}
  BY DEF Verify
<1> HIDE DEF answer
<1>2. /\ answer = "throws" => Goto(r, "error")
      /\ answer = "no" => Goto(r, "refused")
      /\ answer = "yes" => Goto(r, "logged in")
  BY DEF Login, answer
<1> QED
  BY <1>1, <1>2 DEF Login, sides

\* Every action keeps every variable in its type.
LEMMA TypeStep == ASSUME AccountsInv, Next PROVE TypeOK'
<1> USE DEF TypeOK, tables, sides, Ended, Requests, Members, Tenants, Users
<1>1. TypeOK /\ RequestsFit /\ TxFits /\ UpsertsFit
  BY DEF AccountsInv
<1>2. ASSUME NEW r \in Registrars, NEW e \in Emails, NEW p \in Passwords,
             RegisterStart(r, e, p)
     PROVE  TypeOK'
  BY <1>1, <1>2, UserTyped DEF RegisterStart, Goto
<1>3. ASSUME NEW r \in Registrars, NEW e \in Emails, RegisterRefused(r, e)
     PROVE  TypeOK'
  BY <1>3, <1>1 DEF RegisterRefused, Goto
<1>4. ASSUME NEW r \in Registrars, InsertUser(r)
     PROVE  TypeOK'
  BY <1>4, <1>1 DEF InsertUser, Goto
<1>5. ASSUME NEW r \in Registrars, InsertUserClash(r)
     PROVE  TypeOK'
  BY <1>5, <1>1 DEF InsertUserClash, End, Goto
<1>6. ASSUME NEW r \in Registrars, InsertTenant(r)
     PROVE  TypeOK'
  BY <1>6, <1>1 DEF InsertTenant, Goto
<1>7. ASSUME NEW r \in Registrars, InsertMember(r)
     PROVE  TypeOK'
  BY <1>7, <1>1 DEF InsertMember, Goto
<1>8. ASSUME NEW r \in Registrars, Commit(r)
     PROVE  TypeOK'
  <2>1. arg[r] \in User /\ r \in Users /\ r \in Tenants /\ r \in Members
    BY <1>1, <1>8 DEF Commit, RequestsFit
  <2>2. [user |-> r, tenant |-> r, role |-> "owner"] \in Membership
    BY <2>1, MembershipTyped DEF Roles
  <2>3. users' \in [Users -> User \cup {NoRow}]
    BY <1>1, <1>8, <2>1 DEF Commit, Publish
  <2>4. members' \in [Members -> Membership \cup {NoRow}]
    BY <1>1, <1>8, <2>1, <2>2 DEF Commit, Publish
  <2>5. tenants' \subseteq Tenants
    BY <1>1, <1>8, <2>1 DEF Commit, Publish
  <2> QED
    BY <1>1, <1>8, <2>3, <2>4, <2>5 DEF Commit, Goto
<1>9. ASSUME NEW r \in Registrars, StoreToken(r)
     PROVE  TypeOK'
  <2>1. tokens' \subseteq Users
    BY <1>1, <1>9 DEF StoreToken
  <2> QED
    BY <1>1, <1>9, <2>1 DEF StoreToken, End, Goto
<1>10. ASSUME NEW r \in Registrars, RegisterFails(r)
     PROVE  TypeOK'
  <2>1. faults' \in 0 .. MaxFaults
    BY <1>1, <1>10, FaultTyped DEF RegisterFails
  <2> QED
    BY <1>1, <1>10, <2>1 DEF RegisterFails, Rollback, End, Goto
<1>11. ASSUME NEW r \in Logins, NEW e \in Emails, LoginRefused(r, e)
     PROVE  TypeOK'
  BY <1>11, <1>1 DEF LoginRefused, Goto
<1>12. ASSUME NEW r \in Logins, NEW u \in Users, NEW p \in Passwords,
             Login(r, u, p)
     PROVE  TypeOK'
  <2>1. PICK label \in {"error", "refused", "logged in"} :
           /\ Goto(r, label)
           /\ tokens' \in {tokens, tokens \cup {u}}
           /\ users[u] # NoRow
           /\ arg' = [arg EXCEPT ![r] = [email |-> users[u].email,
                                        passwordHash |-> Hash(p)]]
           /\ UNCHANGED <<users, tenants, members, tx, found, asker, crossed,
                         faults>>
    BY <1>12, LoginEnds
  <2>2. users[u] \in User
    BY <1>1, <2>1
  <2>3. [email |-> users[u].email, passwordHash |-> Hash(p)] \in User
    BY <2>2, UserTyped DEF User
  <2>4. tokens' \subseteq Users
    BY <1>1, <2>1
  <2>5. r \in Requests
    OBVIOUS
  <2>6. arg' \in [Requests -> User \cup Membership \cup {NoRow}]
    BY <1>1, <2>1, <2>3, <2>5
  <2> QED
    BY <1>1, <2>1, <2>4, <2>5, <2>6 DEF Goto
<1>13. ASSUME NEW r \in Openers, OwnTenant(r)
     PROVE  TypeOK'
  BY <1>1, <1>13 DEF OwnTenant, End, Goto, RequestsFit
<1>14. ASSUME NEW r \in Openers, NEW u \in Users, OpenTenant(r, u)
     PROVE  TypeOK'
  <2>1. [user |-> u, tenant |-> r, role |-> "owner"] \in Membership
    BY MembershipTyped DEF Roles
  <2> QED
    BY <1>1, <1>14, <2>1 DEF OpenTenant, Goto
<1>15. ASSUME NEW r \in Upserters, NEW a \in Users, NEW t \in Tenants,
             NEW u \in Users, UpsertRefused(r, a, t, u)
     PROVE  TypeOK'
  BY <1>15, <1>1 DEF UpsertRefused, Goto
<1>16. ASSUME NEW r \in Upserters, NEW a \in Users, NEW t \in Tenants,
             NEW u \in Users, NEW role \in Roles, UpsertStart(r, a, t, u, role)
     PROVE  TypeOK'
  <2>1. [user |-> u, tenant |-> t, role |-> role] \in Membership
    BY MembershipTyped
  <2>2. crossed' \subseteq Upserters
    BY <1>1, <1>16 DEF UpsertStart
  <2>3. asker' \in [Upserters -> Users \cup {NoRow}]
    BY <1>1, <1>16 DEF UpsertStart
  <2> QED
    BY <1>1, <1>16, <2>1, <2>2, <2>3 DEF UpsertStart, Goto
<1>17. ASSUME NEW r \in Upserters, FindMember(r)
     PROVE  TypeOK'
  <2>1. \E m \in Members \cup {NoRow} : found' = [found EXCEPT ![r] = m]
    BY <1>17 DEF FindMember, MemberRows
  <2> QED
    BY <1>1, <1>17, <2>1 DEF FindMember, Goto
<1>18. ASSUME NEW r \in Upserters, ChangeRole(r)
     PROVE  TypeOK'
  <2>1. found[r] \in Members /\ members[found[r]] \in Membership
    BY <1>1, <1>18 DEF ChangeRole, MemberRows, UpsertsFit
  <2>2. arg[r].role \in Roles
    BY <1>1, <1>18 DEF ChangeRole, Membership, RequestsFit
  <2>3. [members[found[r]] EXCEPT !.role = arg[r].role] \in Membership
    BY <2>1, <2>2 DEF Membership
  <2>4. members' = [members EXCEPT ![found[r]] =
                      [members[found[r]] EXCEPT !.role = arg[r].role]]
    BY <1>18 DEF ChangeRole
  <2>5. members' \in [Members -> Membership \cup {NoRow}]
    BY <1>1, <2>1, <2>3, <2>4
  <2> QED
    BY <1>1, <1>18, <2>5 DEF ChangeRole, EndUpsert, End, Goto
<1>19. ASSUME NEW r \in Upserters, AddMember(r)
     PROVE  TypeOK'
  BY <1>1, <1>19 DEF AddMember, EndUpsert, End, Goto, RequestsFit
<1>20. ASSUME NEW r \in Upserters, AddMemberClash(r)
     PROVE  TypeOK'
  BY <1>20, <1>1 DEF AddMemberClash, EndUpsert, End, Goto
<1>21. ASSUME NEW r \in Requests, StatementFails(r)
     PROVE  TypeOK'
  <2>1. faults' \in 0 .. MaxFaults
    BY <1>1, <1>21, FaultTyped DEF StatementFails
  <2>2. CASE at[r] \in {"user", "token", "own"}
    BY <1>1, <1>21, <2>1, <2>2 DEF StatementFails, End, EndUpsert, Goto
  <2>3. CASE at[r] \in {"find", "save"}
    BY <1>1, <1>21, <2>1, <2>3 DEF StatementFails, End, EndUpsert, Goto
  <2> QED
    BY <1>21, <2>2, <2>3 DEF StatementFails
<1>22. ASSUME Crash
     PROVE  TypeOK'
  <2>1. faults' \in 0 .. MaxFaults
    BY <1>1, <1>22, FaultTyped DEF Crash
  <2> QED
    BY <1>1, <1>22, <2>1 DEF Crash
<1> QED
  BY <1>2, <1>3, <1>4, <1>5, <1>6, <1>7, <1>8, <1>9, <1>10,
     <1>11, <1>12, <1>13, <1>14, <1>15, <1>16, <1>17, <1>18, <1>19, <1>20,
     <1>21, <1>22
  DEF Next, Users

\* Each kind of request keeps to its way and to its values.
LEMMA FitStep == ASSUME AccountsInv, Next PROVE RequestsFit'
<1> USE DEF tables, sides, Requests, Members, Tenants, Users, RequestsFit, TypeOK
<1>1. TypeOK /\ RequestsFit /\ TxFits /\ UpsertsFit
  BY DEF AccountsInv
<1>2. ASSUME NEW r \in Registrars, NEW e \in Emails, NEW p \in Passwords,
             RegisterStart(r, e, p)
     PROVE  RequestsFit'
  <2>1. [email |-> e, passwordHash |-> Hash(p)] \in User
    BY UserTyped
  <2> QED
    BY <1>1, <1>2, <2>1 DEF RegisterStart, Goto
<1>3. ASSUME NEW r \in Registrars, NEW e \in Emails, RegisterRefused(r, e)
     PROVE  RequestsFit'
  BY <1>3, <1>1, AccountsAssumption DEF RegisterRefused, Goto
<1>4. ASSUME NEW r \in Registrars, InsertUser(r)
     PROVE  RequestsFit'
  BY <1>4, <1>1, AccountsAssumption DEF InsertUser, Goto
<1>5. ASSUME NEW r \in Registrars, InsertUserClash(r)
     PROVE  RequestsFit'
  BY <1>5, <1>1, AccountsAssumption DEF InsertUserClash, End, Goto
<1>6. ASSUME NEW r \in Registrars, InsertTenant(r)
     PROVE  RequestsFit'
  BY <1>6, <1>1, AccountsAssumption DEF InsertTenant, Goto
<1>7. ASSUME NEW r \in Registrars, InsertMember(r)
     PROVE  RequestsFit'
  BY <1>7, <1>1, AccountsAssumption DEF InsertMember, Goto
<1>8. ASSUME NEW r \in Registrars, Commit(r)
     PROVE  RequestsFit'
  BY <1>8, <1>1, AccountsAssumption DEF Commit, Publish, Goto
<1>9. ASSUME NEW r \in Registrars, StoreToken(r)
     PROVE  RequestsFit'
  BY <1>9, <1>1, AccountsAssumption DEF StoreToken, End, Goto
<1>10. ASSUME NEW r \in Registrars, RegisterFails(r)
     PROVE  RequestsFit'
  BY <1>10, <1>1, AccountsAssumption
  DEF RegisterFails, Fault, Rollback, End, Goto
<1>11. ASSUME NEW r \in Logins, NEW e \in Emails, LoginRefused(r, e)
     PROVE  RequestsFit'
  BY <1>11, <1>1, AccountsAssumption DEF LoginRefused, Goto
<1>12. ASSUME NEW r \in Logins, NEW u \in Users, NEW p \in Passwords,
             Login(r, u, p)
     PROVE  RequestsFit'
  <2>1. PICK label \in {"error", "refused", "logged in"} : Goto(r, label)
    BY <1>12, LoginEnds
  <2>2. UNCHANGED <<users, members, tx, found, asker, crossed>>
    BY <1>12, LoginEnds
  <2>3. arg' = [arg EXCEPT ![r] = [email |-> users[u].email,
                                   passwordHash |-> Hash(p)]]
    BY <1>12, LoginEnds
  <2>4. \A q \in Requests \ {r} : arg'[q] = arg[q] /\ at'[q] = at[q]
    BY <1>1, <2>1, <2>3 DEF Goto
  <2>5. at'[r] = label /\ r \notin Registrars
    BY <1>1, <2>1, AccountsAssumption DEF Goto
  <2> QED
    BY <1>1, <2>2, <2>4, <2>5
<1>13. ASSUME NEW r \in Openers, OwnTenant(r)
     PROVE  RequestsFit'
  BY <1>13, <1>1, AccountsAssumption DEF OwnTenant, End, Goto
<1>14. ASSUME NEW r \in Openers, NEW u \in Users, OpenTenant(r, u)
     PROVE  RequestsFit'
  <2>1. [user |-> u, tenant |-> r, role |-> "owner"] \in Membership
    BY MembershipTyped DEF Roles
  <2>2. /\ arg'[r] = [user |-> u, tenant |-> r, role |-> "owner"]
        /\ at'[r] = "own" /\ users[u] # NoRow /\ users' = users
        /\ \A q \in Requests \ {r} : arg'[q] = arg[q] /\ at'[q] = at[q]
    BY <1>1, <1>14 DEF OpenTenant, Goto
  <2> QED
    BY <1>1, <2>1, <2>2
<1>15. ASSUME NEW r \in Upserters, NEW a \in Users, NEW t \in Tenants,
             NEW u \in Users, UpsertRefused(r, a, t, u)
     PROVE  RequestsFit'
  BY <1>15, <1>1, AccountsAssumption DEF UpsertRefused, Goto
<1>16. ASSUME NEW r \in Upserters, NEW a \in Users, NEW t \in Tenants,
             NEW u \in Users, NEW role \in Roles, UpsertStart(r, a, t, u, role)
     PROVE  RequestsFit'
  <2>1. [user |-> u, tenant |-> t, role |-> role] \in Membership
    BY MembershipTyped
  <2>2. /\ arg'[r] = [user |-> u, tenant |-> t, role |-> role]
        /\ at'[r] = "find" /\ users[u] # NoRow /\ users' = users
        /\ \A q \in Requests \ {r} : arg'[q] = arg[q] /\ at'[q] = at[q]
    BY <1>1, <1>16 DEF UpsertStart, Goto
  <2> QED
    BY <1>1, <2>1, <2>2
<1>17. ASSUME NEW r \in Upserters, FindMember(r)
     PROVE  RequestsFit'
  BY <1>17, <1>1, AccountsAssumption DEF FindMember, Goto
<1>18. ASSUME NEW r \in Upserters, ChangeRole(r)
     PROVE  RequestsFit'
  BY <1>18, <1>1, AccountsAssumption DEF ChangeRole, EndUpsert, End, Goto
<1>19. ASSUME NEW r \in Upserters, AddMember(r)
     PROVE  RequestsFit'
  BY <1>19, <1>1, AccountsAssumption DEF AddMember, EndUpsert, End, Goto
<1>20. ASSUME NEW r \in Upserters, AddMemberClash(r)
     PROVE  RequestsFit'
  BY <1>20, <1>1, AccountsAssumption DEF AddMemberClash, EndUpsert, End, Goto
<1>21. ASSUME NEW r \in Requests, StatementFails(r)
     PROVE  RequestsFit'
  BY <1>21, <1>1, AccountsAssumption
  DEF StatementFails, Fault, EndUpsert, End, Goto
<1>22. ASSUME Crash
     PROVE  RequestsFit'
  BY <1>22, <1>1, AccountsAssumption DEF Crash, Fault, Ended
<1> QED
  BY <1>2, <1>3, <1>4, <1>5, <1>6, <1>7, <1>8, <1>9, <1>10,
     <1>11, <1>12, <1>13, <1>14, <1>15, <1>16, <1>17, <1>18, <1>19, <1>20,
     <1>21, <1>22
  DEF Next, Users

\* A registration inserts user, tenant and membership in this order.
LEMMA TxStep == ASSUME AccountsInv, Next PROVE TxFits'
<1> USE DEF tables, sides, Requests, Members, Tenants, Users, TxFits, TypeOK
<1>1. TypeOK /\ RequestsFit /\ TxFits /\ UpsertsFit
  BY DEF AccountsInv
<1>2. ASSUME NEW r \in Registrars, NEW e \in Emails, NEW p \in Passwords,
             RegisterStart(r, e, p)
     PROVE  TxFits'
  BY <1>2, <1>1, AccountsAssumption DEF RegisterStart, Goto
<1>3. ASSUME NEW r \in Registrars, NEW e \in Emails, RegisterRefused(r, e)
     PROVE  TxFits'
  BY <1>3, <1>1, AccountsAssumption DEF RegisterRefused, Goto
<1>4. ASSUME NEW r \in Registrars, InsertUser(r)
     PROVE  TxFits'
  BY <1>4, <1>1, AccountsAssumption DEF InsertUser, Goto
<1>5. ASSUME NEW r \in Registrars, InsertUserClash(r)
     PROVE  TxFits'
  BY <1>5, <1>1, AccountsAssumption DEF InsertUserClash, End, Goto
<1>6. ASSUME NEW r \in Registrars, InsertTenant(r)
     PROVE  TxFits'
  BY <1>6, <1>1, AccountsAssumption DEF InsertTenant, Goto
<1>7. ASSUME NEW r \in Registrars, InsertMember(r)
     PROVE  TxFits'
  BY <1>7, <1>1, AccountsAssumption DEF InsertMember, Goto
<1>8. ASSUME NEW r \in Registrars, Commit(r)
     PROVE  TxFits'
  BY <1>8, <1>1, AccountsAssumption DEF Commit, Publish, Goto
<1>9. ASSUME NEW r \in Registrars, StoreToken(r)
     PROVE  TxFits'
  BY <1>9, <1>1, AccountsAssumption DEF StoreToken, End, Goto
<1>10. ASSUME NEW r \in Registrars, RegisterFails(r)
     PROVE  TxFits'
  BY <1>10, <1>1, AccountsAssumption
  DEF RegisterFails, Fault, Rollback, End, Goto
<1>11. ASSUME NEW r \in Logins, NEW e \in Emails, LoginRefused(r, e)
     PROVE  TxFits'
  BY <1>11, <1>1, AccountsAssumption DEF LoginRefused, Goto
<1>12. ASSUME NEW r \in Logins, NEW u \in Users, NEW p \in Passwords,
             Login(r, u, p)
     PROVE  TxFits'
  <2>1. PICK label \in {"error", "refused", "logged in"} : Goto(r, label)
    BY <1>12, LoginEnds
  <2>2. UNCHANGED <<users, members, tx, found, asker, crossed>>
    BY <1>12, LoginEnds
  <2>3. arg' = [arg EXCEPT ![r] = [email |-> users[u].email,
                                   passwordHash |-> Hash(p)]]
    BY <1>12, LoginEnds
  <2>4. \A q \in Requests \ {r} : arg'[q] = arg[q] /\ at'[q] = at[q]
    BY <1>1, <2>1, <2>3 DEF Goto
  <2>5. at'[r] = label /\ r \notin Registrars
    BY <1>1, <2>1, AccountsAssumption DEF Goto
  <2> QED
    BY <1>1, <2>2, <2>4, <2>5
<1>13. ASSUME NEW r \in Openers, OwnTenant(r)
     PROVE  TxFits'
  BY <1>13, <1>1, AccountsAssumption DEF OwnTenant, End, Goto
<1>14. ASSUME NEW r \in Openers, NEW u \in Users, OpenTenant(r, u)
     PROVE  TxFits'
  BY <1>14, <1>1, AccountsAssumption DEF OpenTenant, Goto
<1>15. ASSUME NEW r \in Upserters, NEW a \in Users, NEW t \in Tenants,
             NEW u \in Users, UpsertRefused(r, a, t, u)
     PROVE  TxFits'
  BY <1>15, <1>1, AccountsAssumption DEF UpsertRefused, Goto
<1>16. ASSUME NEW r \in Upserters, NEW a \in Users, NEW t \in Tenants,
             NEW u \in Users, NEW role \in Roles, UpsertStart(r, a, t, u, role)
     PROVE  TxFits'
  BY <1>16, <1>1, AccountsAssumption DEF UpsertStart, Goto
<1>17. ASSUME NEW r \in Upserters, FindMember(r)
     PROVE  TxFits'
  BY <1>17, <1>1, AccountsAssumption DEF FindMember, Goto
<1>18. ASSUME NEW r \in Upserters, ChangeRole(r)
     PROVE  TxFits'
  BY <1>18, <1>1, AccountsAssumption DEF ChangeRole, EndUpsert, End, Goto
<1>19. ASSUME NEW r \in Upserters, AddMember(r)
     PROVE  TxFits'
  BY <1>19, <1>1, AccountsAssumption DEF AddMember, EndUpsert, End, Goto
<1>20. ASSUME NEW r \in Upserters, AddMemberClash(r)
     PROVE  TxFits'
  BY <1>20, <1>1, AccountsAssumption DEF AddMemberClash, EndUpsert, End, Goto
<1>21. ASSUME NEW r \in Requests, StatementFails(r)
     PROVE  TxFits'
  BY <1>21, <1>1, AccountsAssumption
  DEF StatementFails, Fault, EndUpsert, End, Goto
<1>22. ASSUME Crash
     PROVE  TxFits'
  BY <1>22, <1>1, AccountsAssumption DEF Crash, Fault, Ended
<1> QED
  BY <1>2, <1>3, <1>4, <1>5, <1>6, <1>7, <1>8, <1>9, <1>10,
     <1>11, <1>12, <1>13, <1>14, <1>15, <1>16, <1>17, <1>18, <1>19, <1>20,
     <1>21, <1>22
  DEF Next, Users

\* A request does not go back to where it had no rows.
BeforeStays == \A m \in Members : at'[m] \in Before => at[m] \in Before

\* No step takes a request back there.
LEMMA BeforeStep == ASSUME AccountsInv, Next PROVE BeforeStays
<1> USE DEF tables, sides, Requests, Members, Tenants, Users, Before, BeforeStays,
           TypeOK
<1>1. TypeOK /\ RequestsFit /\ TxFits /\ UpsertsFit
  BY DEF AccountsInv
<1>2. ASSUME NEW r \in Registrars, NEW e \in Emails, NEW p \in Passwords,
             RegisterStart(r, e, p)
     PROVE  BeforeStays
  BY <1>2, <1>1, AccountsAssumption DEF RegisterStart, Goto
<1>3. ASSUME NEW r \in Registrars, NEW e \in Emails, RegisterRefused(r, e)
     PROVE  BeforeStays
  BY <1>3, <1>1, AccountsAssumption DEF RegisterRefused, Goto
<1>4. ASSUME NEW r \in Registrars, InsertUser(r)
     PROVE  BeforeStays
  BY <1>4, <1>1, AccountsAssumption DEF InsertUser, Goto
<1>5. ASSUME NEW r \in Registrars, InsertUserClash(r)
     PROVE  BeforeStays
  BY <1>5, <1>1, AccountsAssumption DEF InsertUserClash, End, Goto
<1>6. ASSUME NEW r \in Registrars, InsertTenant(r)
     PROVE  BeforeStays
  BY <1>6, <1>1, AccountsAssumption DEF InsertTenant, Goto
<1>7. ASSUME NEW r \in Registrars, InsertMember(r)
     PROVE  BeforeStays
  BY <1>7, <1>1, AccountsAssumption DEF InsertMember, Goto
<1>8. ASSUME NEW r \in Registrars, Commit(r)
     PROVE  BeforeStays
  BY <1>8, <1>1, AccountsAssumption DEF Commit, Publish, Goto
<1>9. ASSUME NEW r \in Registrars, StoreToken(r)
     PROVE  BeforeStays
  BY <1>9, <1>1, AccountsAssumption DEF StoreToken, End, Goto
<1>10. ASSUME NEW r \in Registrars, RegisterFails(r)
     PROVE  BeforeStays
  BY <1>10, <1>1, AccountsAssumption
  DEF RegisterFails, Fault, Rollback, End, Goto
<1>11. ASSUME NEW r \in Logins, NEW e \in Emails, LoginRefused(r, e)
     PROVE  BeforeStays
  BY <1>11, <1>1, AccountsAssumption DEF LoginRefused, Goto
<1>12. ASSUME NEW r \in Logins, NEW u \in Users, NEW p \in Passwords,
             Login(r, u, p)
     PROVE  BeforeStays
  <2>1. PICK label \in {"error", "refused", "logged in"} : Goto(r, label)
    BY <1>12, LoginEnds
  <2>2. UNCHANGED <<users, members, tx, found, asker, crossed>>
    BY <1>12, LoginEnds
  <2>3. arg' = [arg EXCEPT ![r] = [email |-> users[u].email,
                                   passwordHash |-> Hash(p)]]
    BY <1>12, LoginEnds
  <2>4. \A q \in Requests \ {r} : arg'[q] = arg[q] /\ at'[q] = at[q]
    BY <1>1, <2>1, <2>3 DEF Goto
  <2>5. at'[r] = label /\ r \notin Registrars
    BY <1>1, <2>1, AccountsAssumption DEF Goto
  <2> QED
    BY <1>1, <2>2, <2>4, <2>5
<1>13. ASSUME NEW r \in Openers, OwnTenant(r)
     PROVE  BeforeStays
  BY <1>13, <1>1, AccountsAssumption DEF OwnTenant, End, Goto
<1>14. ASSUME NEW r \in Openers, NEW u \in Users, OpenTenant(r, u)
     PROVE  BeforeStays
  BY <1>14, <1>1, AccountsAssumption DEF OpenTenant, Goto
<1>15. ASSUME NEW r \in Upserters, NEW a \in Users, NEW t \in Tenants,
             NEW u \in Users, UpsertRefused(r, a, t, u)
     PROVE  BeforeStays
  BY <1>15, <1>1, AccountsAssumption DEF UpsertRefused, Goto
<1>16. ASSUME NEW r \in Upserters, NEW a \in Users, NEW t \in Tenants,
             NEW u \in Users, NEW role \in Roles, UpsertStart(r, a, t, u, role)
     PROVE  BeforeStays
  BY <1>16, <1>1, AccountsAssumption DEF UpsertStart, Goto
<1>17. ASSUME NEW r \in Upserters, FindMember(r)
     PROVE  BeforeStays
  BY <1>17, <1>1, AccountsAssumption DEF FindMember, Goto
<1>18. ASSUME NEW r \in Upserters, ChangeRole(r)
     PROVE  BeforeStays
  BY <1>18, <1>1, AccountsAssumption DEF ChangeRole, EndUpsert, End, Goto
<1>19. ASSUME NEW r \in Upserters, AddMember(r)
     PROVE  BeforeStays
  BY <1>19, <1>1, AccountsAssumption DEF AddMember, EndUpsert, End, Goto
<1>20. ASSUME NEW r \in Upserters, AddMemberClash(r)
     PROVE  BeforeStays
  BY <1>20, <1>1, AccountsAssumption DEF AddMemberClash, EndUpsert, End, Goto
<1>21. ASSUME NEW r \in Requests, StatementFails(r)
     PROVE  BeforeStays
  <2>1. CASE at[r] \in {"user", "token", "own"}
    BY <1>1, <1>21, <2>1 DEF StatementFails, End, EndUpsert, Goto
  <2>2. CASE at[r] \in {"find", "save"}
    BY <1>1, <1>21, <2>2 DEF StatementFails, End, EndUpsert, Goto
  <2> QED
    BY <1>21, <2>1, <2>2 DEF StatementFails
<1>22. ASSUME Crash
     PROVE  BeforeStays
  BY <1>22, <1>1, AccountsAssumption DEF Crash, Fault, Ended
<1> QED
  BY <1>2, <1>3, <1>4, <1>5, <1>6, <1>7, <1>8, <1>9, <1>10,
     <1>11, <1>12, <1>13, <1>14, <1>15, <1>16, <1>17, <1>18, <1>19, <1>20,
     <1>21, <1>22
  DEF Next, Users

\* Four actions write users and memberships.
RowsOrWriter ==
    \/ users' = users /\ members' = members /\ tenants \subseteq tenants'
    \/ \E r \in Registrars : Commit(r)
    \/ \E r \in Openers : OwnTenant(r)
    \/ \E r \in Upserters : ChangeRole(r) \/ AddMember(r)

\* No other action does.
LEMMA RowsWritten == ASSUME AccountsInv, Next PROVE RowsOrWriter
<1> USE DEF tables, sides, RowsOrWriter
<1>1. TypeOK /\ RequestsFit /\ TxFits /\ UpsertsFit
  BY DEF AccountsInv
<1>2. ASSUME NEW r \in Registrars, NEW e \in Emails, NEW p \in Passwords,
             RegisterStart(r, e, p)
     PROVE  RowsOrWriter
  BY <1>2 DEF RegisterStart
<1>3. ASSUME NEW r \in Registrars, NEW e \in Emails, RegisterRefused(r, e)
     PROVE  RowsOrWriter
  BY <1>3 DEF RegisterRefused
<1>4. ASSUME NEW r \in Registrars, InsertUser(r)
     PROVE  RowsOrWriter
  BY <1>4 DEF InsertUser
<1>5. ASSUME NEW r \in Registrars, InsertUserClash(r)
     PROVE  RowsOrWriter
  BY <1>5 DEF InsertUserClash
<1>6. ASSUME NEW r \in Registrars, InsertTenant(r)
     PROVE  RowsOrWriter
  BY <1>6 DEF InsertTenant
<1>7. ASSUME NEW r \in Registrars, InsertMember(r)
     PROVE  RowsOrWriter
  BY <1>7 DEF InsertMember
<1>8. ASSUME NEW r \in Registrars, Commit(r)
     PROVE  RowsOrWriter
  BY <1>8
<1>9. ASSUME NEW r \in Registrars, StoreToken(r)
     PROVE  RowsOrWriter
  BY <1>9 DEF StoreToken
<1>10. ASSUME NEW r \in Registrars, RegisterFails(r)
     PROVE  RowsOrWriter
  BY <1>10 DEF RegisterFails, Rollback
<1>11. ASSUME NEW r \in Logins, NEW e \in Emails, LoginRefused(r, e)
     PROVE  RowsOrWriter
  BY <1>11 DEF LoginRefused
<1>12. ASSUME NEW r \in Logins, NEW u \in Users, NEW p \in Passwords,
             Login(r, u, p)
     PROVE  RowsOrWriter
  BY <1>12, LoginEnds
<1>13. ASSUME NEW r \in Openers, OwnTenant(r)
     PROVE  RowsOrWriter
  BY <1>13
<1>14. ASSUME NEW r \in Openers, NEW u \in Users, OpenTenant(r, u)
     PROVE  RowsOrWriter
  BY <1>14 DEF OpenTenant
<1>15. ASSUME NEW r \in Upserters, NEW a \in Users, NEW t \in Tenants,
             NEW u \in Users, UpsertRefused(r, a, t, u)
     PROVE  RowsOrWriter
  BY <1>15 DEF UpsertRefused
<1>16. ASSUME NEW r \in Upserters, NEW a \in Users, NEW t \in Tenants,
             NEW u \in Users, NEW role \in Roles, UpsertStart(r, a, t, u, role)
     PROVE  RowsOrWriter
  BY <1>16 DEF UpsertStart
<1>17. ASSUME NEW r \in Upserters, FindMember(r)
     PROVE  RowsOrWriter
  BY <1>17 DEF FindMember
<1>18. ASSUME NEW r \in Upserters, ChangeRole(r)
     PROVE  RowsOrWriter
  BY <1>18
<1>19. ASSUME NEW r \in Upserters, AddMember(r)
     PROVE  RowsOrWriter
  BY <1>19
<1>20. ASSUME NEW r \in Upserters, AddMemberClash(r)
     PROVE  RowsOrWriter
  BY <1>20 DEF AddMemberClash
<1>21. ASSUME NEW r \in Requests, StatementFails(r)
     PROVE  RowsOrWriter
  BY <1>21 DEF StatementFails
<1>22. ASSUME Crash
     PROVE  RowsOrWriter
  BY <1>22 DEF Crash
<1> QED
  BY <1>2, <1>3, <1>4, <1>5, <1>6, <1>7, <1>8, <1>9, <1>10,
     <1>11, <1>12, <1>13, <1>14, <1>15, <1>16, <1>17, <1>18, <1>19, <1>20,
     <1>21, <1>22
  DEF Next, Users

\* A POST /tenants is answered when the membership of the owner is saved.
OpenedByOwning ==
    \A q \in Openers : at'[q] = "opened" => at[q] = "opened" \/ OwnTenant(q)

\* No other step answers it.
LEMMA OpenedStep == ASSUME AccountsInv, Next PROVE OpenedByOwning
<1> USE DEF OpenedByOwning, TypeOK, Requests, Members, Tenants
<1>1. TypeOK /\ RequestsFit /\ TxFits /\ UpsertsFit
  BY DEF AccountsInv
<1>2. ASSUME NEW r \in Registrars, NEW e \in Emails, NEW p \in Passwords,
             RegisterStart(r, e, p)
     PROVE  OpenedByOwning
  BY <1>2, <1>1 DEF RegisterStart, Goto
<1>3. ASSUME NEW r \in Registrars, NEW e \in Emails, RegisterRefused(r, e)
     PROVE  OpenedByOwning
  BY <1>3, <1>1 DEF RegisterRefused, Goto
<1>4. ASSUME NEW r \in Registrars, InsertUser(r)
     PROVE  OpenedByOwning
  BY <1>4, <1>1 DEF InsertUser, Goto
<1>5. ASSUME NEW r \in Registrars, InsertUserClash(r)
     PROVE  OpenedByOwning
  BY <1>5, <1>1 DEF InsertUserClash, End, Goto
<1>6. ASSUME NEW r \in Registrars, InsertTenant(r)
     PROVE  OpenedByOwning
  BY <1>6, <1>1 DEF InsertTenant, Goto
<1>7. ASSUME NEW r \in Registrars, InsertMember(r)
     PROVE  OpenedByOwning
  BY <1>7, <1>1 DEF InsertMember, Goto
<1>8. ASSUME NEW r \in Registrars, Commit(r)
     PROVE  OpenedByOwning
  BY <1>8, <1>1 DEF Commit, Publish, Goto
<1>9. ASSUME NEW r \in Registrars, StoreToken(r)
     PROVE  OpenedByOwning
  BY <1>9, <1>1 DEF StoreToken, End, Goto
<1>10. ASSUME NEW r \in Registrars, RegisterFails(r)
     PROVE  OpenedByOwning
  BY <1>10, <1>1 DEF RegisterFails, Fault, Rollback, End, Goto
<1>11. ASSUME NEW r \in Logins, NEW e \in Emails, LoginRefused(r, e)
     PROVE  OpenedByOwning
  BY <1>11, <1>1 DEF LoginRefused, Goto
<1>12. ASSUME NEW r \in Logins, NEW u \in Users, NEW p \in Passwords,
             Login(r, u, p)
     PROVE  OpenedByOwning
  <2>1. PICK label \in {"error", "refused", "logged in"} : Goto(r, label)
    BY <1>12, LoginEnds
  <2> QED
    BY <1>1, <2>1 DEF Goto
<1>13. ASSUME NEW r \in Openers, OwnTenant(r)
     PROVE  OpenedByOwning
  BY <1>1, <1>13, AccountsAssumption DEF OwnTenant, End, Goto
<1>14. ASSUME NEW r \in Openers, NEW u \in Users, OpenTenant(r, u)
     PROVE  OpenedByOwning
  BY <1>14, <1>1 DEF OpenTenant, Goto
<1>15. ASSUME NEW r \in Upserters, NEW a \in Users, NEW t \in Tenants,
             NEW u \in Users, UpsertRefused(r, a, t, u)
     PROVE  OpenedByOwning
  BY <1>15, <1>1 DEF UpsertRefused, Goto
<1>16. ASSUME NEW r \in Upserters, NEW a \in Users, NEW t \in Tenants,
             NEW u \in Users, NEW role \in Roles, UpsertStart(r, a, t, u, role)
     PROVE  OpenedByOwning
  BY <1>16, <1>1 DEF UpsertStart, Goto
<1>17. ASSUME NEW r \in Upserters, FindMember(r)
     PROVE  OpenedByOwning
  BY <1>17, <1>1 DEF FindMember, Goto
<1>18. ASSUME NEW r \in Upserters, ChangeRole(r)
     PROVE  OpenedByOwning
  BY <1>18, <1>1 DEF ChangeRole, EndUpsert, End, Goto
<1>19. ASSUME NEW r \in Upserters, AddMember(r)
     PROVE  OpenedByOwning
  BY <1>19, <1>1 DEF AddMember, EndUpsert, End, Goto
<1>20. ASSUME NEW r \in Upserters, AddMemberClash(r)
     PROVE  OpenedByOwning
  BY <1>20, <1>1 DEF AddMemberClash, EndUpsert, End, Goto
<1>21. ASSUME NEW r \in Requests, StatementFails(r)
     PROVE  OpenedByOwning
  <2>1. CASE at[r] \in {"user", "token", "own"}
    BY <1>1, <1>21, <2>1 DEF StatementFails, End, EndUpsert, Goto
  <2>2. CASE at[r] \in {"find", "save"}
    BY <1>1, <1>21, <2>2 DEF StatementFails, End, EndUpsert, Goto
  <2> QED
    BY <1>21, <2>1, <2>2 DEF StatementFails
<1>22. ASSUME Crash
     PROVE  OpenedByOwning
  BY <1>22, <1>1 DEF Crash, Fault, Ended
<1> QED
  BY <1>2, <1>3, <1>4, <1>5, <1>6, <1>7, <1>8, <1>9, <1>10,
     <1>11, <1>12, <1>13, <1>14, <1>15, <1>16, <1>17, <1>18, <1>19, <1>20,
     <1>21, <1>22
  DEF Next, Users

-----------------------------------------------------------------------------
(* What the four writers write *)

\* A registration publishes its user, its tenant and its membership.
LEMMA CommitWrites ==
    ASSUME AccountsInv, NEW r \in Registrars, Commit(r)
    PROVE  /\ r \in Members /\ r \in Users /\ r \in Tenants
           /\ users[r] = NoRow /\ members[r] = NoRow
           /\ arg[r] \in User /\ arg' = arg
           /\ users' = [users EXCEPT ![r] = arg[r]]
           /\ members' = [members EXCEPT ![r] =
                            [user |-> r, tenant |-> r, role |-> "owner"]]
           /\ tenants' = tenants \cup {r}
           /\ \A m \in Members : members[m] # NoRow => members[m].tenant # r
           /\ tx[r] # {} /\ at'[r] = "token"
<1>1. r \in Members /\ r \in Users /\ r \in Tenants /\ r \in Requests
  BY DEF Members, Users, Tenants, Requests
<1>2. at[r] = "commit"
  BY DEF Commit
<1>3. {"users", "tenants", "memberships"} \subseteq tx[r]
  BY <1>2 DEF AccountsInv, TxFits
<1>4. /\ users[r] = NoRow /\ members[r] = NoRow
      /\ \A m \in Members : members[m] # NoRow => members[m].tenant # r
  BY <1>1, <1>2 DEF AccountsInv, NothingBefore, Before
<1>5. arg[r] \in User
  BY <1>1, <1>2 DEF AccountsInv, RequestsFit
<1>6. at'[r] = "token"
  BY <1>1 DEF Commit, Goto, AccountsInv, TypeOK
<1> QED
  BY <1>1, <1>3, <1>4, <1>5, <1>6 DEF Commit, Publish

\* The opener of a tenant becomes its owner, the first one it has.
LEMMA OwnTenantWrites ==
    ASSUME AccountsInv, NEW r \in Openers, OwnTenant(r)
    PROVE  /\ r \in Members /\ r \in Tenants /\ members[r] = NoRow
           /\ users' = users /\ tenants' = tenants
           /\ members' = [members EXCEPT ![r] = arg[r]]
           /\ arg[r] \in Membership /\ arg[r].tenant = r
           /\ arg[r].role = "owner" /\ users[arg[r].user] # NoRow
           /\ \A m \in Members : members[m] # NoRow => members[m].tenant # r
           /\ at'[r] = "opened"
<1>1. r \in Members /\ r \in Tenants /\ r \in Requests /\ at[r] = "own"
  BY DEF Members, Tenants, Requests, OwnTenant
<1>2. /\ members[r] = NoRow
      /\ \A m \in Members : members[m] # NoRow => members[m].tenant # r
  BY <1>1 DEF AccountsInv, NothingBefore, Before
<1>3. /\ arg[r] \in Membership /\ arg[r].tenant = r
      /\ arg[r].role = "owner" /\ users[arg[r].user] # NoRow
  BY <1>1 DEF AccountsInv, RequestsFit
<1>4. at'[r] = "opened"
  BY <1>1 DEF OwnTenant, End, Goto, AccountsInv, TypeOK
<1> QED
  BY <1>1, <1>2, <1>3, <1>4 DEF OwnTenant

\* An upsert that found no row adds one, to a tenant that has members.
LEMMA AddMemberWrites ==
    ASSUME AccountsInv, NEW r \in Upserters, AddMember(r)
    PROVE  /\ r \in Members /\ members[r] = NoRow
           /\ users' = users /\ tenants' = tenants
           /\ members' = [members EXCEPT ![r] = arg[r]]
           /\ arg[r] \in Membership /\ users[arg[r].user] # NoRow
           /\ asker[r] # NoRow /\ MemberRows(asker[r], arg[r].tenant) # {}
           /\ \A m \in Members : members[m] # NoRow =>
                 ~(/\ members[m].user = arg[r].user
                   /\ members[m].tenant = arg[r].tenant)
           /\ at[r] = "save" /\ at'[r] = "upserted"
<1>1. r \in Members /\ r \in Requests /\ at[r] = "save"
  BY DEF Members, Requests, AddMember
<1>2. members[r] = NoRow
  BY <1>1 DEF AccountsInv, NothingBefore, Before
<1>3. arg[r] \in Membership /\ users[arg[r].user] # NoRow
  BY <1>1 DEF AccountsInv, RequestsFit
<1>4. asker[r] # NoRow /\ MemberRows(asker[r], arg[r].tenant) # {}
  BY <1>1 DEF AccountsInv, UpsertsFit
<1>5. \A m \in Members : members[m] # NoRow =>
         ~(members[m].user = arg[r].user /\ members[m].tenant = arg[r].tenant)
  BY DEF AddMember, PairTaken, MemberRows
<1>6. at'[r] = "upserted"
  BY <1>1 DEF AddMember, EndUpsert, End, Goto, AccountsInv, TypeOK
<1> QED
  BY <1>1, <1>2, <1>3, <1>4, <1>5, <1>6 DEF AddMember

\* An upsert that found a row changes its role and nothing else of it.
LEMMA ChangeRoleWrites ==
    ASSUME AccountsInv, NEW r \in Upserters, ChangeRole(r)
    PROVE  /\ r \in Members /\ found[r] \in Members
           /\ members[found[r]] \in Membership
           /\ members[found[r]].user = arg[r].user
           /\ members[found[r]].tenant = arg[r].tenant
           /\ users' = users /\ tenants' = tenants
           /\ \A m \in Members \ {found[r]} : members'[m] = members[m]
           /\ members'[found[r]] =
                 [members[found[r]] EXCEPT !.role = arg[r].role]
           /\ members'[found[r]] \in Membership
           /\ members'[found[r]].user = members[found[r]].user
           /\ members'[found[r]].tenant = members[found[r]].tenant
           /\ asker[r] # NoRow /\ MemberRows(asker[r], arg[r].tenant) # {}
           /\ at[r] = "save" /\ at'[r] = "upserted"
<1>1. r \in Members /\ r \in Requests /\ at[r] = "save" /\ found[r] # NoRow
  BY DEF Members, Requests, ChangeRole
<1>2. found[r] \in MemberRows(arg[r].user, arg[r].tenant)
  BY <1>1 DEF AccountsInv, UpsertsFit
<1>3. /\ found[r] \in Members /\ members[found[r]] \in Membership
      /\ members[found[r]].user = arg[r].user
      /\ members[found[r]].tenant = arg[r].tenant
  BY <1>2 DEF MemberRows, AccountsInv, TypeOK
<1>4. arg[r].role \in Roles
  BY <1>1 DEF AccountsInv, RequestsFit, Membership
<1>5. asker[r] # NoRow /\ MemberRows(asker[r], arg[r].tenant) # {}
  BY <1>1 DEF AccountsInv, UpsertsFit
<1>6. /\ \A m \in Members \ {found[r]} : members'[m] = members[m]
      /\ members'[found[r]] = [members[found[r]] EXCEPT !.role = arg[r].role]
  BY <1>3 DEF ChangeRole, AccountsInv, TypeOK
<1>7. /\ members'[found[r]] \in Membership
      /\ members'[found[r]].user = members[found[r]].user
      /\ members'[found[r]].tenant = members[found[r]].tenant
  BY <1>3, <1>4, <1>6 DEF Membership
<1>8. at'[r] = "upserted"
  BY <1>1 DEF ChangeRole, EndUpsert, End, Goto, AccountsInv, TypeOK
<1> QED
  BY <1>1, <1>3, <1>5, <1>6, <1>7, <1>8 DEF ChangeRole

\* Rows of users and memberships stay, with their user and tenant.
LEMMA RowsStay ==
    ASSUME AccountsInv, Next
    PROVE  /\ \A u \in Users : users[u] # NoRow => users'[u] = users[u]
           /\ tenants \subseteq tenants'
           /\ \A m \in Members : members[m] # NoRow =>
                 /\ members'[m] # NoRow
                 /\ members'[m].user = members[m].user
                 /\ members'[m].tenant = members[m].tenant
<1> USE DEF AccountsInv, TypeOK
<1>1. ASSUME NEW r \in Registrars, Commit(r)
     PROVE  /\ \A u \in Users : users[u] # NoRow => users'[u] = users[u]
            /\ tenants \subseteq tenants'
            /\ \A m \in Members : members[m] # NoRow => members'[m] = members[m]
  BY <1>1, CommitWrites
<1>2. ASSUME NEW r \in Openers, OwnTenant(r)
     PROVE  /\ users' = users /\ tenants' = tenants
            /\ \A m \in Members : members[m] # NoRow => members'[m] = members[m]
  BY <1>2, OwnTenantWrites
<1>3. ASSUME NEW r \in Upserters, AddMember(r)
     PROVE  /\ users' = users /\ tenants' = tenants
            /\ \A m \in Members : members[m] # NoRow => members'[m] = members[m]
  BY <1>3, AddMemberWrites
<1>4. ASSUME NEW r \in Upserters, ChangeRole(r)
     PROVE  /\ users' = users /\ tenants' = tenants
            /\ \A m \in Members : members[m] # NoRow =>
                 /\ members'[m] # NoRow
                 /\ members'[m].user = members[m].user
                 /\ members'[m].tenant = members[m].tenant
  <2>1. NoRow \notin Membership
    BY AccountsAssumption
  <2>2. /\ users' = users /\ tenants' = tenants
        /\ \A m \in Members \ {found[r]} : members'[m] = members[m]
        /\ members'[found[r]] \in Membership
        /\ members'[found[r]].user = members[found[r]].user
        /\ members'[found[r]].tenant = members[found[r]].tenant
    BY <1>4, ChangeRoleWrites
  <2> QED
    BY <2>1, <2>2
<1> QED
  BY <1>1, <1>2, <1>3, <1>4, RowsWritten DEF RowsOrWriter

\* A request that has not written has nothing.
LEMMA NothingStep == ASSUME AccountsInv, Next PROVE NothingBefore'
<1> SUFFICES ASSUME NEW m \in Members, at'[m] \in Before
             PROVE  /\ members'[m] = NoRow
                    /\ m \in Users => users'[m] = NoRow
                    /\ \A n \in Members : members'[n] # NoRow =>
                          members'[n].tenant # m
  BY DEF NothingBefore
<1> DEFINE Nothing ==
      /\ members'[m] = NoRow
      /\ m \in Users => users'[m] = NoRow
      /\ \A n \in Members : members'[n] # NoRow => members'[n].tenant # m
<1>1. at[m] \in Before
  BY BeforeStep DEF BeforeStays
<1>2. /\ members[m] = NoRow
      /\ (m \in Users => users[m] = NoRow)
      /\ \A n \in Members : members[n] # NoRow => members[n].tenant # m
  BY <1>1 DEF AccountsInv, NothingBefore
<1>3. /\ members \in [Members -> Membership \cup {NoRow}]
      /\ users \in [Users -> User \cup {NoRow}]
  BY DEF AccountsInv, TypeOK
<1>4. ASSUME NEW r \in Registrars, Commit(r)
     PROVE  Nothing
  <2>1. /\ r \in Members /\ r \in Users /\ at'[r] = "token"
        /\ users' = [users EXCEPT ![r] = arg[r]]
        /\ members' = [members EXCEPT ![r] =
                         [user |-> r, tenant |-> r, role |-> "owner"]]
    BY <1>4, CommitWrites
  <2>2. m # r
    BY <2>1 DEF Before
  <2>3. members'[m] = NoRow
    BY <1>2, <1>3, <2>1, <2>2
  <2>4. m \in Users => users'[m] = NoRow
    BY <1>2, <1>3, <2>1, <2>2
  <2>5. ASSUME NEW n \in Members, members'[n] # NoRow
        PROVE  members'[n].tenant # m
    BY <1>2, <1>3, <2>1, <2>2, <2>5
  <2> QED
    BY <2>3, <2>4, <2>5
<1>5. ASSUME NEW r \in Openers, OwnTenant(r)
     PROVE  Nothing
  <2>1. /\ r \in Members /\ at'[r] = "opened" /\ users' = users
        /\ members' = [members EXCEPT ![r] = arg[r]]
        /\ arg[r].tenant = r
    BY <1>5, OwnTenantWrites
  <2>2. m # r
    BY <2>1 DEF Before
  <2>3. members'[m] = NoRow
    BY <1>2, <1>3, <2>1, <2>2
  <2>4. ASSUME NEW n \in Members, members'[n] # NoRow
        PROVE  members'[n].tenant # m
    BY <1>2, <1>3, <2>1, <2>2, <2>4
  <2> QED
    BY <1>2, <2>1, <2>3, <2>4
<1>6. ASSUME NEW r \in Upserters, AddMember(r)
     PROVE  Nothing
  <2>1. /\ r \in Members /\ at'[r] = "upserted" /\ users' = users
        /\ members' = [members EXCEPT ![r] = arg[r]]
        /\ MemberRows(asker[r], arg[r].tenant) # {}
    BY <1>6, AddMemberWrites
  <2>2. m # r
    BY <2>1 DEF Before
  <2>3. members'[m] = NoRow
    BY <1>2, <1>3, <2>1, <2>2
  <2>4. arg[r].tenant # m
    BY <1>2, <2>1 DEF MemberRows
  <2>5. ASSUME NEW n \in Members, members'[n] # NoRow
        PROVE  members'[n].tenant # m
    BY <1>2, <1>3, <2>1, <2>4, <2>5
  <2> QED
    BY <1>2, <2>1, <2>3, <2>5
<1>7. ASSUME NEW r \in Upserters, ChangeRole(r)
     PROVE  Nothing
  <2>1. /\ users' = users /\ found[r] \in Members
        /\ members[found[r]] \in Membership
        /\ \A n \in Members \ {found[r]} : members'[n] = members[n]
        /\ members'[found[r]].tenant = members[found[r]].tenant
    BY <1>7, ChangeRoleWrites
  <2>2. NoRow \notin Membership
    BY AccountsAssumption
  <2>3. members'[m] = NoRow
    BY <1>2, <2>1, <2>2
  <2>4. ASSUME NEW n \in Members, members'[n] # NoRow
        PROVE  members'[n].tenant # m
    BY <1>2, <2>1, <2>2, <2>4
  <2> QED
    BY <1>2, <2>1, <2>3, <2>4
<1>8. ASSUME users' = users, members' = members
     PROVE  Nothing
  BY <1>2, <1>8
<1>9. Nothing
  <2> HIDE DEF Nothing
  <2> QED
    BY <1>4, <1>5, <1>6, <1>7, <1>8, RowsWritten DEF RowsOrWriter
<1> QED
  BY <1>9

\* Members are users, and no pair of them has two rows.
LEMMA PairsStep ==
    ASSUME AccountsInv, Next
    PROVE  MembersAreUsers' /\ PairsApart'
<1>1. /\ members \in [Members -> Membership \cup {NoRow}]
      /\ users \in [Users -> User \cup {NoRow}]
  BY DEF AccountsInv, TypeOK
<1>2. /\ \A m \in Members : members[m] # NoRow =>
            users[members[m].user] # NoRow /\ members[m].user \in Users
      /\ \A m, n \in Members :
            (/\ members[m] # NoRow /\ members[n] # NoRow
             /\ members[m].user = members[n].user
             /\ members[m].tenant = members[n].tenant) => m = n
  BY <1>1 DEF AccountsInv, MembersAreUsers, PairsApart, Membership
<1>3. NoRow \notin User /\ NoRow \notin Membership
  BY AccountsAssumption
<1>4. ASSUME NEW r \in Registrars, Commit(r)
     PROVE  MembersAreUsers' /\ PairsApart'
  BY <1>1, <1>2, <1>3, <1>4, CommitWrites DEF MembersAreUsers, PairsApart
<1>5. ASSUME NEW r \in Openers, OwnTenant(r)
     PROVE  MembersAreUsers' /\ PairsApart'
  BY <1>1, <1>2, <1>3, <1>5, OwnTenantWrites DEF MembersAreUsers, PairsApart
<1>6. ASSUME NEW r \in Upserters, AddMember(r)
     PROVE  MembersAreUsers' /\ PairsApart'
  BY <1>1, <1>2, <1>3, <1>6, AddMemberWrites DEF MembersAreUsers, PairsApart
<1>7. ASSUME NEW r \in Upserters, ChangeRole(r)
     PROVE  MembersAreUsers' /\ PairsApart'
  <2>1. /\ users' = users /\ found[r] \in Members
        /\ members[found[r]] \in Membership
        /\ \A m \in Members \ {found[r]} : members'[m] = members[m]
        /\ members'[found[r]] \in Membership
        /\ members'[found[r]].user = members[found[r]].user
        /\ members'[found[r]].tenant = members[found[r]].tenant
    BY <1>7, ChangeRoleWrites
  <2>2. \A m \in Members :
          /\ members'[m] # NoRow <=> members[m] # NoRow
          /\ members'[m].user = members[m].user
          /\ members'[m].tenant = members[m].tenant
    BY <1>3, <2>1
  <2> QED
    BY <1>2, <2>1, <2>2 DEF MembersAreUsers, PairsApart
<1>8. ASSUME users' = users, members' = members
     PROVE  MembersAreUsers' /\ PairsApart'
  BY <1>2, <1>8 DEF MembersAreUsers, PairsApart
<1> QED
  BY <1>4, <1>5, <1>6, <1>7, <1>8, RowsWritten DEF RowsOrWriter

\* An account's tenant and a tenant's owner are written with them.
LEMMA TenantsStep == ASSUME AccountsInv, Next PROVE AccountsHaveTenants'
<1>1. /\ members \in [Members -> Membership \cup {NoRow}]
      /\ users \in [Users -> User \cup {NoRow}]
      /\ AccountsHaveTenants
  BY DEF AccountsInv, TypeOK
<1>2. \A u, t : MemberRows(u, t) # {} => MemberRows(u, t)' # {}
  BY RowsStay DEF MemberRows
<1>3. NoRow \notin Membership
  BY AccountsAssumption
<1>4. ASSUME NEW u \in Users, users'[u] # NoRow
     PROVE  u \in tenants' /\ MemberRows(u, u)' # {}
  <2>1. CASE users[u] # NoRow
    BY <1>1, <1>2, <2>1, RowsStay DEF AccountsHaveTenants
  <2>2. CASE users[u] = NoRow
    <3>1. PICK r \in Registrars : Commit(r)
      BY <1>4, <2>2, RowsWritten, OwnTenantWrites, AddMemberWrites,
         ChangeRoleWrites DEF RowsOrWriter
    <3>2. /\ r \in Users /\ r \in Members /\ r \in Tenants
          /\ users' = [users EXCEPT ![r] = arg[r]]
          /\ members' = [members EXCEPT ![r] =
                           [user |-> r, tenant |-> r, role |-> "owner"]]
          /\ tenants' = tenants \cup {r}
      BY <3>1, CommitWrites
    <3>3. u = r
      BY <1>1, <1>4, <2>2, <3>2
    <3>4. /\ u \in tenants' /\ u \in Members
          /\ members'[u] = [user |-> u, tenant |-> u, role |-> "owner"]
      BY <1>1, <3>2, <3>3
    <3>5. [user |-> u, tenant |-> u, role |-> "owner"] \in Membership
      BY <3>2, <3>3, MembershipTyped DEF Roles
    <3>6. u \in MemberRows(u, u)'
      BY <1>3, <3>4, <3>5 DEF MemberRows
    <3> QED
      BY <3>4, <3>6
  <2> QED
    BY <2>1, <2>2
<1>5. ASSUME NEW r \in Openers, at'[r] = "opened"
     PROVE  \E u \in Users : MemberRows(u, r)' # {}
  <2>1. CASE at[r] = "opened"
    BY <1>1, <1>2, <2>1 DEF AccountsHaveTenants
  <2>2. CASE OwnTenant(r)
    <3>1. /\ members' = [members EXCEPT ![r] = arg[r]]
          /\ arg[r] \in Membership /\ arg[r].tenant = r /\ r \in Members
      BY <2>2, OwnTenantWrites
    <3>2. members'[r] = arg[r] /\ arg[r] # NoRow /\ arg[r].user \in Users
      BY <1>1, <1>3, <3>1 DEF Membership
    <3>3. PICK u \in Users : u = arg[r].user
      BY <3>2
    <3>4. r \in MemberRows(u, r)'
      BY <3>1, <3>2, <3>3 DEF MemberRows
    <3> QED
      BY <3>4
  <2>3. at[r] = "opened" \/ OwnTenant(r)
    BY <1>5, OpenedStep DEF OpenedByOwning
  <2> QED
    BY <2>1, <2>2, <2>3
<1> QED
  BY <1>4, <1>5 DEF AccountsHaveTenants

-----------------------------------------------------------------------------
(* Open transactions *)

\* A transaction is opened by the INSERT of a user.  One that stays open keeps
\* what it works on.
OpenTxStay ==
    \A q \in Registrars : tx'[q] # {} => tx[q] # {} /\ arg'[q] = arg[q]

\* Every other step leaves the open transactions alone.
LEMMA TxOpened ==
    ASSUME AccountsInv, Next
    PROVE  OpenTxStay \/ \E q \in Registrars : InsertUser(q)
<1> USE DEF OpenTxStay, TypeOK, tables, sides, Requests, Members, Tenants,
   RequestsFit, TxFits
<1>1. TypeOK /\ RequestsFit /\ TxFits /\ UpsertsFit
  BY DEF AccountsInv
<1>2. ASSUME NEW r \in Registrars, NEW e \in Emails, NEW p \in Passwords,
             RegisterStart(r, e, p)
     PROVE  OpenTxStay \/ \E q \in Registrars : InsertUser(q)
  BY <1>1, <1>2, AccountsAssumption DEF RegisterStart, Goto
<1>3. ASSUME NEW r \in Registrars, NEW e \in Emails, RegisterRefused(r, e)
     PROVE  OpenTxStay \/ \E q \in Registrars : InsertUser(q)
  BY <1>1, <1>3, AccountsAssumption DEF RegisterRefused, Goto
<1>4. ASSUME NEW r \in Registrars, InsertUser(r)
     PROVE  OpenTxStay \/ \E q \in Registrars : InsertUser(q)
  BY <1>4
<1>5. ASSUME NEW r \in Registrars, InsertUserClash(r)
     PROVE  OpenTxStay \/ \E q \in Registrars : InsertUser(q)
  BY <1>1, <1>5, AccountsAssumption DEF InsertUserClash, End, Goto
<1>6. ASSUME NEW r \in Registrars, InsertTenant(r)
     PROVE  OpenTxStay \/ \E q \in Registrars : InsertUser(q)
  BY <1>1, <1>6, AccountsAssumption DEF InsertTenant, Goto
<1>7. ASSUME NEW r \in Registrars, InsertMember(r)
     PROVE  OpenTxStay \/ \E q \in Registrars : InsertUser(q)
  BY <1>1, <1>7, AccountsAssumption DEF InsertMember, Goto
<1>8. ASSUME NEW r \in Registrars, Commit(r)
     PROVE  OpenTxStay \/ \E q \in Registrars : InsertUser(q)
  BY <1>1, <1>8, AccountsAssumption DEF Commit, Publish, Goto
<1>9. ASSUME NEW r \in Registrars, StoreToken(r)
     PROVE  OpenTxStay \/ \E q \in Registrars : InsertUser(q)
  BY <1>1, <1>9, AccountsAssumption DEF StoreToken, End, Goto
<1>10. ASSUME NEW r \in Registrars, RegisterFails(r)
     PROVE  OpenTxStay \/ \E q \in Registrars : InsertUser(q)
  BY <1>1,
     <1>10, AccountsAssumption DEF RegisterFails, Fault, Rollback, End, Goto
<1>11. ASSUME NEW r \in Logins, NEW e \in Emails, LoginRefused(r, e)
     PROVE  OpenTxStay \/ \E q \in Registrars : InsertUser(q)
  BY <1>1, <1>11, AccountsAssumption DEF LoginRefused, Goto
<1>12. ASSUME NEW r \in Logins, NEW u \in Users, NEW p \in Passwords,
             Login(r, u, p)
     PROVE  OpenTxStay \/ \E q \in Registrars : InsertUser(q)
  <2>1. PICK label \in {"error", "refused", "logged in"} :
           /\ Goto(r, label)
           /\ arg' = [arg EXCEPT ![r] = [email |-> users[u].email,
                                        passwordHash |-> Hash(p)]]
           /\ tx' = tx /\ found' = found /\ asker' = asker
           /\ crossed' = crossed
    BY <1>12, LoginEnds
  <2>2. ASSUME NEW q \in Registrars
        PROVE  arg'[q] = arg[q]
    <3>1. q # r
      BY AccountsAssumption
    <3>2. arg \in [Requests -> User \cup Membership \cup {NoRow}]
      BY <1>1
    <3> QED
      BY <2>1, <3>1, <3>2
  <2> QED
    BY <2>1, <2>2
<1>13. ASSUME NEW r \in Openers, OwnTenant(r)
     PROVE  OpenTxStay \/ \E q \in Registrars : InsertUser(q)
  BY <1>1, <1>13, AccountsAssumption DEF OwnTenant, End, Goto
<1>14. ASSUME NEW r \in Openers, NEW u \in Users, OpenTenant(r, u)
     PROVE  OpenTxStay \/ \E q \in Registrars : InsertUser(q)
  BY <1>1, <1>14, AccountsAssumption DEF OpenTenant, Goto
<1>15. ASSUME NEW r \in Upserters, NEW a \in Users, NEW t \in Tenants,
             NEW u \in Users, UpsertRefused(r, a, t, u)
     PROVE  OpenTxStay \/ \E q \in Registrars : InsertUser(q)
  BY <1>1, <1>15, AccountsAssumption DEF UpsertRefused, Goto
<1>16. ASSUME NEW r \in Upserters, NEW a \in Users, NEW t \in Tenants,
             NEW u \in Users, NEW role \in Roles, UpsertStart(r, a, t, u, role)
     PROVE  OpenTxStay \/ \E q \in Registrars : InsertUser(q)
  BY <1>1, <1>16, AccountsAssumption DEF UpsertStart, Goto
<1>17. ASSUME NEW r \in Upserters, FindMember(r)
     PROVE  OpenTxStay \/ \E q \in Registrars : InsertUser(q)
  BY <1>1, <1>17, AccountsAssumption DEF FindMember, Goto
<1>18. ASSUME NEW r \in Upserters, ChangeRole(r)
     PROVE  OpenTxStay \/ \E q \in Registrars : InsertUser(q)
  BY <1>1, <1>18, AccountsAssumption DEF ChangeRole, EndUpsert, End, Goto
<1>19. ASSUME NEW r \in Upserters, AddMember(r)
     PROVE  OpenTxStay \/ \E q \in Registrars : InsertUser(q)
  BY <1>1,
     <1>19, AccountsAssumption DEF AddMember, EndUpsert, End, Goto
<1>20. ASSUME NEW r \in Upserters, AddMemberClash(r)
     PROVE  OpenTxStay \/ \E q \in Registrars : InsertUser(q)
  BY <1>1, <1>20, AccountsAssumption DEF AddMemberClash, EndUpsert, End, Goto
<1>21. ASSUME NEW r \in Requests, StatementFails(r)
     PROVE  OpenTxStay \/ \E q \in Registrars : InsertUser(q)
  <2>1. CASE at[r] \in {"user", "token", "own"}
    BY <1>1, <1>21, <2>1, AccountsAssumption
    DEF StatementFails, End, EndUpsert, Goto
  <2>2. CASE at[r] \in {"find", "save"}
    BY <1>1, <1>21, <2>2, AccountsAssumption
    DEF StatementFails, End, EndUpsert, Goto
  <2> QED
    BY <1>21, <2>1, <2>2 DEF StatementFails
<1>22. ASSUME Crash
     PROVE  OpenTxStay \/ \E q \in Registrars : InsertUser(q)
  BY <1>1, <1>22 DEF Crash
<1> QED
  BY <1>2, <1>3, <1>4, <1>5, <1>6, <1>7, <1>8, <1>9,
     <1>10, <1>11, <1>12, <1>13, <1>14, <1>15, <1>16, <1>17, <1>18,
     <1>19, <1>20, <1>21, <1>22
  DEF Next, Users

\* Emails of accounts and of open registrations stay apart.
LEMMA EmailsStep == ASSUME AccountsInv, Next PROVE EmailsApart'
<1>1. /\ users \in [Users -> User \cup {NoRow}]
      /\ tx \in [Registrars -> SUBSET {"users", "tenants", "memberships"}]
  BY DEF AccountsInv, TypeOK
<1>2. /\ \A u, v \in Users :
           (users[u] # NoRow /\ users[v] # NoRow /\ u # v)
               => users[u].email # users[v].email
      /\ \A q \in Registrars : tx[q] # {} =>
           /\ \A r \in Registrars : r # q /\ tx[r] # {} =>
                  arg[r].email # arg[q].email
           /\ \A u \in Users : users[u] # NoRow =>
                  users[u].email # arg[q].email
  BY DEF AccountsInv, EmailsApart, OneUserPerEmail
<1>3. CASE OpenTxStay /\ users' = users
  BY <1>2, <1>3 DEF EmailsApart, OneUserPerEmail, OpenTxStay
<1>4. ASSUME NEW r \in Registrars, Commit(r)
     PROVE  EmailsApart'
  <2>1. /\ users' = [users EXCEPT ![r] = arg[r]] /\ arg' = arg
        /\ r \in Users /\ tx[r] # {}
    BY <1>4, CommitWrites
  <2>2. tx' = [tx EXCEPT ![r] = {}]
    BY <1>4 DEF Commit
  <2>3. \A u \in Users : users'[u] = IF u = r THEN arg[r] ELSE users[u]
    BY <1>1, <2>1
  <2>4. \A q \in Registrars : tx'[q] # {} => q # r /\ tx[q] # {}
    BY <1>1, <2>2
  <2>5. OneUserPerEmail'
    BY <1>2, <2>1, <2>3 DEF OneUserPerEmail
  <2>6. ASSUME NEW q \in Registrars, tx'[q] # {}
        PROVE  /\ \A o \in Registrars : o # q /\ tx'[o] # {} =>
                      arg'[o].email # arg'[q].email
               /\ \A u \in Users : users'[u] # NoRow =>
                      users'[u].email # arg'[q].email
    BY <1>2, <2>1, <2>3, <2>4, <2>6
  <2> QED
    BY <2>5, <2>6 DEF EmailsApart
<1>5. ASSUME NEW r \in Registrars, InsertUser(r)
     PROVE  EmailsApart'
  <2>1. users' = users /\ arg' = arg /\ tx' = [tx EXCEPT ![r] = {"users"}]
    BY <1>5 DEF InsertUser, tables
  <2>2. /\ \A q \in Registrars \ {r} : tx[q] # {} =>
              arg[q].email # arg[r].email
        /\ \A u \in Users : users[u] # NoRow => users[u].email # arg[r].email
    BY <1>5 DEF InsertUser, EmailLocked, EmailTaken, EmailUsed
  <2>3. \A q \in Registrars \ {r} : tx'[q] = tx[q]
    BY <1>1, <2>1
  <2> QED
    BY <1>2, <2>1, <2>2, <2>3 DEF EmailsApart, OneUserPerEmail
<1>6. ASSUME ~ \E r \in Registrars : Commit(r)
     PROVE  users' = users
  BY <1>6, RowsWritten, OwnTenantWrites, ChangeRoleWrites, AddMemberWrites
  DEF RowsOrWriter
<1> QED
  BY <1>3, <1>4, <1>5, <1>6, TxOpened

-----------------------------------------------------------------------------
(* Upserts under way *)

\* An upsert starts; ends; or is kept, and crossed if it was.
Starts(q) ==
    \E a \in Users, t \in Tenants, u \in Users, role \in Roles :
        UpsertStart(q, a, t, u, role)
Quits(q) ==
    at'[q] \notin {"find", "save"} /\ asker'[q] = NoRow /\ q \notin crossed'
Keeps(q) ==
    /\ at'[q] = at[q] /\ arg'[q] = arg[q] /\ found'[q] = found[q]
    /\ asker'[q] = asker[q]
    /\ q \in crossed => q \in crossed'
    /\ q \in crossed' => asker[q] # NoRow

\* What a step may do to an upsert.
UpsertsMove ==
    \A q \in Upserters : Starts(q) \/ Quits(q) \/ Keeps(q) \/ FindMember(q)

\* No step does anything else to one.
LEMMA UpsertsMoved == ASSUME AccountsInv, Next PROVE UpsertsMove
<1> USE DEF UpsertsMove, TypeOK, sides, Requests, Members, RequestsFit, UpsertsFit,
   Quits, Keeps
<1>1. TypeOK /\ RequestsFit /\ TxFits /\ UpsertsFit
  BY DEF AccountsInv
<1>2. ASSUME NEW r \in Registrars, NEW e \in Emails, NEW p \in Passwords,
             RegisterStart(r, e, p)
     PROVE  UpsertsMove
  BY <1>1, <1>2, AccountsAssumption DEF RegisterStart, Goto
<1>3. ASSUME NEW r \in Registrars, NEW e \in Emails, RegisterRefused(r, e)
     PROVE  UpsertsMove
  BY <1>1, <1>3, AccountsAssumption DEF RegisterRefused, Goto
<1>4. ASSUME NEW r \in Registrars, InsertUser(r)
     PROVE  UpsertsMove
  BY <1>1, <1>4, AccountsAssumption DEF InsertUser, Goto
<1>5. ASSUME NEW r \in Registrars, InsertUserClash(r)
     PROVE  UpsertsMove
  BY <1>1, <1>5, AccountsAssumption DEF InsertUserClash, End, Goto
<1>6. ASSUME NEW r \in Registrars, InsertTenant(r)
     PROVE  UpsertsMove
  BY <1>1, <1>6, AccountsAssumption DEF InsertTenant, Goto
<1>7. ASSUME NEW r \in Registrars, InsertMember(r)
     PROVE  UpsertsMove
  BY <1>1, <1>7, AccountsAssumption DEF InsertMember, Goto
<1>8. ASSUME NEW r \in Registrars, Commit(r)
     PROVE  UpsertsMove
  BY <1>1, <1>8, AccountsAssumption DEF Commit, Publish, Goto
<1>9. ASSUME NEW r \in Registrars, StoreToken(r)
     PROVE  UpsertsMove
  BY <1>1, <1>9, AccountsAssumption DEF StoreToken, End, Goto
<1>10. ASSUME NEW r \in Registrars, RegisterFails(r)
     PROVE  UpsertsMove
  BY <1>1,
     <1>10, AccountsAssumption DEF RegisterFails, Fault, Rollback, End, Goto
<1>11. ASSUME NEW r \in Logins, NEW e \in Emails, LoginRefused(r, e)
     PROVE  UpsertsMove
  BY <1>1, <1>11, AccountsAssumption DEF LoginRefused, Goto
<1>12. ASSUME NEW r \in Logins, NEW u \in Users, NEW p \in Passwords,
             Login(r, u, p)
     PROVE  UpsertsMove
  <2>1. PICK label \in {"error", "refused", "logged in"} :
           /\ Goto(r, label)
           /\ arg' = [arg EXCEPT ![r] = [email |-> users[u].email,
                                        passwordHash |-> Hash(p)]]
           /\ tx' = tx /\ found' = found /\ asker' = asker
           /\ crossed' = crossed
    BY <1>12, LoginEnds
  <2> QED
    BY <1>1, <2>1, AccountsAssumption DEF Goto
<1>13. ASSUME NEW r \in Openers, OwnTenant(r)
     PROVE  UpsertsMove
  BY <1>1, <1>13, AccountsAssumption DEF OwnTenant, End, Goto
<1>14. ASSUME NEW r \in Openers, NEW u \in Users, OpenTenant(r, u)
     PROVE  UpsertsMove
  BY <1>1, <1>14, AccountsAssumption DEF OpenTenant, Goto
<1>15. ASSUME NEW r \in Upserters, NEW a \in Users, NEW t \in Tenants,
             NEW u \in Users, UpsertRefused(r, a, t, u)
     PROVE  UpsertsMove
  BY <1>1, <1>15, AccountsAssumption DEF UpsertRefused, Goto
<1>16. ASSUME NEW r \in Upserters, NEW a \in Users, NEW t \in Tenants,
             NEW u \in Users, NEW role \in Roles, UpsertStart(r, a, t, u, role)
     PROVE  UpsertsMove
  <2>1. Starts(r)
    BY <1>16 DEF Starts
  <2>2. ASSUME NEW q \in Upserters, q # r
        PROVE  Keeps(q)
    BY <1>1, <1>16, <2>2 DEF UpsertStart, Goto
  <2> QED
    BY <2>1, <2>2
<1>17. ASSUME NEW r \in Upserters, FindMember(r)
     PROVE  UpsertsMove
  <2>1. ASSUME NEW q \in Upserters, q # r
        PROVE  Keeps(q)
    BY <1>1, <1>17, <2>1 DEF FindMember, Goto
  <2> QED
    BY <1>17, <2>1
<1>18. ASSUME NEW r \in Upserters, ChangeRole(r)
     PROVE  UpsertsMove
  BY <1>1, <1>18, AccountsAssumption DEF ChangeRole, EndUpsert, End, Goto
<1>19. ASSUME NEW r \in Upserters, AddMember(r)
     PROVE  UpsertsMove
  BY <1>1,
     <1>19, AccountsAssumption DEF AddMember, EndUpsert, End, Goto
<1>20. ASSUME NEW r \in Upserters, AddMemberClash(r)
     PROVE  UpsertsMove
  BY <1>1, <1>20, AccountsAssumption DEF AddMemberClash, EndUpsert, End, Goto
<1>21. ASSUME NEW r \in Requests, StatementFails(r)
     PROVE  UpsertsMove
  <2>1. CASE at[r] \in {"user", "token", "own"}
    BY <1>1, <1>21, <2>1, AccountsAssumption
    DEF StatementFails, End, EndUpsert, Goto
  <2>2. CASE at[r] \in {"find", "save"}
    BY <1>1, <1>21, <2>2, AccountsAssumption
    DEF StatementFails, End, EndUpsert, Goto
  <2> QED
    BY <1>21, <2>1, <2>2 DEF StatementFails
<1>22. ASSUME Crash
     PROVE  UpsertsMove
  BY <1>1, <1>22 DEF Crash, Ended
<1> QED
  BY <1>2, <1>3, <1>4, <1>5, <1>6, <1>7, <1>8, <1>9,
     <1>10, <1>11, <1>12, <1>13, <1>14, <1>15, <1>16, <1>17, <1>18,
     <1>19, <1>20, <1>21, <1>22
  DEF Next, Users

\* A row keeps its role unless an upsert changes it.
LEMMA RowsKept ==
    ASSUME AccountsInv, Next, \A r \in Upserters : ~ChangeRole(r)
    PROVE  \A m \in Members : members[m] # NoRow => members'[m] = members[m]
<1>1. members \in [Members -> Membership \cup {NoRow}]
  BY DEF AccountsInv, TypeOK
<1>2. ASSUME NEW r \in Members, NEW row, members[r] = NoRow,
             members' = [members EXCEPT ![r] = row]
      PROVE  \A m \in Members : members[m] # NoRow => members'[m] = members[m]
  BY <1>1, <1>2
<1>3. ASSUME NEW r \in Registrars, Commit(r)
      PROVE  \A m \in Members : members[m] # NoRow => members'[m] = members[m]
  <2>1. /\ r \in Members /\ members[r] = NoRow
        /\ members' = [members EXCEPT ![r] =
                         [user |-> r, tenant |-> r, role |-> "owner"]]
    BY <1>3, CommitWrites
  <2> QED
    BY <1>2, <2>1
<1>4. ASSUME NEW r \in Openers, OwnTenant(r)
      PROVE  \A m \in Members : members[m] # NoRow => members'[m] = members[m]
  <2>1. /\ r \in Members /\ members[r] = NoRow
        /\ members' = [members EXCEPT ![r] = arg[r]]
    BY <1>4, OwnTenantWrites
  <2> QED
    BY <1>2, <2>1
<1>5. ASSUME NEW r \in Upserters, AddMember(r)
      PROVE  \A m \in Members : members[m] # NoRow => members'[m] = members[m]
  <2>1. /\ r \in Members /\ members[r] = NoRow
        /\ members' = [members EXCEPT ![r] = arg[r]]
    BY <1>5, AddMemberWrites
  <2> QED
    BY <1>2, <2>1
<1> QED
  BY <1>3, <1>4, <1>5, RowsWritten DEF RowsOrWriter

\* An upsert that starts while others are under way crosses them.
LEMMA StartCrosses ==
    ASSUME AccountsInv, NEW q \in Upserters, Starts(q)
    PROVE  /\ \A o \in Upserters : asker[o] # NoRow => o \in crossed'
           /\ q \notin crossed' => \A o \in Upserters : asker[o] = NoRow
<1> DEFINE others == {o \in Upserters : asker[o] # NoRow}
<1>1. crossed' = IF others = {} THEN {} ELSE others \cup {q}
  BY DEF Starts, UpsertStart
<1> QED
  BY <1>1

\* An upsert that starts has been let in by the guards.
LEMMA StartFits ==
    ASSUME AccountsInv, NEW q \in Upserters, Starts(q)
    PROVE  /\ at'[q] = "find" /\ asker'[q] # NoRow
           /\ MemberRows(asker[q], arg[q].tenant)' # {}
           /\ Manages(asker[q], arg[q].tenant)'
           /\ \A o \in Upserters \ {q} : asker'[o] = asker[o]
<1>1. PICK a \in Users, t \in Tenants, u \in Users, role \in Roles :
         UpsertStart(q, a, t, u, role)
  BY DEF Starts
<1>2. q \in Requests /\ a # NoRow
  BY AccountsAssumption DEF Requests, Members, Users
<1>3. /\ at'[q] = "find" /\ asker'[q] = a /\ members' = members
      /\ \A o \in Upserters \ {q} : asker'[o] = asker[o]
      /\ arg'[q] = [user |-> u, tenant |-> t, role |-> role]
  BY <1>1, <1>2 DEF UpsertStart, Goto, tables, AccountsInv, TypeOK
<1>4. arg'[q].tenant = t
  BY <1>3
<1>5. Manages(a, t)
  BY <1>1 DEF UpsertStart
<1> QED
  BY <1>2, <1>3, <1>4, <1>5 DEF Manages, MemberRows

\* What findOne returned is a row of the pair, or no row.
LEMMA FindFits ==
    ASSUME AccountsInv, NEW q \in Upserters, FindMember(q)
    PROVE  /\ at[q] = "find" /\ at'[q] = "save"
           /\ members' = members /\ arg' = arg
           /\ asker' = asker /\ crossed' = crossed
           /\ found'[q] # NoRow =>
                 found'[q] \in MemberRows(arg[q].user, arg[q].tenant)
<1> DEFINE rows == MemberRows(arg[q].user, arg[q].tenant)
<1>1. q \in Requests
  BY DEF Requests, Members
<1>2. /\ at[q] = "find" /\ at'[q] = "save"
      /\ members' = members /\ arg' = arg
      /\ asker' = asker /\ crossed' = crossed
      /\ found'[q] = IF rows = {} THEN NoRow ELSE CHOOSE m \in rows : TRUE
  BY <1>1 DEF FindMember, Goto, tables, AccountsInv, TypeOK
<1> HIDE DEF rows
<1>3. rows # {} => (CHOOSE m \in rows : TRUE) \in rows
  OBVIOUS
<1>4. found'[q] # NoRow => found'[q] \in rows
  BY <1>2, <1>3
<1> QED
  BY <1>2, <1>4 DEF rows

\* An upsert nobody overlaps stays alone, and its asker in charge.
LEMMA AloneKept ==
    ASSUME AccountsInv, Next, NEW q \in Upserters, Keeps(q),
           asker'[q] # NoRow, q \notin crossed'
    PROVE  /\ Manages(asker[q], arg[q].tenant)'
           /\ \A o \in Upserters : asker'[o] # NoRow => o = q
<1>1. asker[q] # NoRow /\ q \notin crossed
  BY DEF Keeps
<1>2. /\ Manages(asker[q], arg[q].tenant)
      /\ \A o \in Upserters : asker[o] # NoRow => o = q
      /\ at[q] \in {"find", "save"}
  BY <1>1 DEF AccountsInv, UpsertsFit
<1>3. ASSUME NEW o \in Upserters, asker'[o] # NoRow
      PROVE  o = q
  <2>1. CASE Starts(o)
    BY <1>1, <2>1, StartCrosses
  <2>2. CASE Keeps(o)
    BY <1>2, <1>3, <2>2 DEF Keeps
  <2>3. CASE FindMember(o)
    BY <1>2, <1>3, <2>3, FindFits
  <2>4. CASE Quits(o)
    BY <1>3, <2>4 DEF Quits
  <2> QED
    BY <2>1, <2>2, <2>3, <2>4, UpsertsMoved DEF UpsertsMove
<1>4. ASSUME NEW r \in Upserters, ChangeRole(r)
      PROVE  FALSE
  <2>1. asker[r] # NoRow /\ at'[r] = "upserted"
    BY <1>4, ChangeRoleWrites
  <2>2. r = q
    BY <1>2, <2>1
  <2> QED
    BY <1>2, <2>1, <2>2 DEF Keeps
<1>5. \A m \in Members : members[m] # NoRow => members'[m] = members[m]
  BY <1>4, RowsKept
<1>6. Manages(asker[q], arg[q].tenant)'
  BY <1>2, <1>5 DEF Manages, MemberRows, Keeps
<1> QED
  BY <1>3, <1>6

\* Every upsert under way has an asker, and what it found.
LEMMA UpsertsStep == ASSUME AccountsInv, Next PROVE UpsertsFit'
<1>1. ASSUME NEW q \in Upserters
      PROVE  /\ asker'[q] # NoRow <=> at'[q] \in {"find", "save"}
             /\ q \in crossed' => asker'[q] # NoRow
             /\ asker'[q] # NoRow =>
                  /\ MemberRows(asker[q], arg[q].tenant)' # {}
                  /\ q \notin crossed' =>
                       /\ Manages(asker[q], arg[q].tenant)'
                       /\ \A o \in Upserters : asker'[o] # NoRow => o = q
             /\ at'[q] = "save" /\ found'[q] # NoRow =>
                  found'[q] \in MemberRows(arg[q].user, arg[q].tenant)'
  <2>1. /\ asker[q] # NoRow <=> at[q] \in {"find", "save"}
        /\ q \in crossed => asker[q] # NoRow
        /\ asker[q] # NoRow => MemberRows(asker[q], arg[q].tenant) # {}
        /\ at[q] = "save" /\ found[q] # NoRow =>
             found[q] \in MemberRows(arg[q].user, arg[q].tenant)
        /\ asker[q] # NoRow /\ q \notin crossed =>
             /\ Manages(asker[q], arg[q].tenant)
             /\ \A o \in Upserters : asker[o] # NoRow => o = q
    BY DEF AccountsInv, UpsertsFit
  <2>2. CASE Quits(q)
    BY <2>2 DEF Quits
  <2>3. CASE Starts(q)
    BY <2>3, StartFits, StartCrosses
  <2>4. CASE FindMember(q)
    BY <2>1, <2>4, FindFits DEF MemberRows, Manages
  <2>5. CASE Keeps(q)
    <3>1. /\ asker'[q] # NoRow <=> at'[q] \in {"find", "save"}
          /\ q \in crossed' => asker'[q] # NoRow
      BY <2>1, <2>5 DEF Keeps
    <3>2. asker'[q] # NoRow => MemberRows(asker[q], arg[q].tenant)' # {}
      BY <2>1, <2>5, RowsStay DEF Keeps, MemberRows
    <3>3. at'[q] = "save" /\ found'[q] # NoRow =>
             found'[q] \in MemberRows(arg[q].user, arg[q].tenant)'
      BY <2>1, <2>5, RowsStay DEF Keeps, MemberRows
    <3> QED
      BY <2>5, <3>1, <3>2, <3>3, AloneKept
  <2> QED
    BY <2>2, <2>3, <2>4, <2>5, UpsertsMoved DEF UpsertsMove
<1> QED
  BY <1>1 DEF UpsertsFit

-----------------------------------------------------------------------------
(* Theorems *)

\* The initial state satisfies the invariant.
LEMMA AccountsStart == ASSUME Init PROVE AccountsInv
<1> USE DEF Init, Ended, tables
<1>1. TypeOK
  BY AccountsAssumption DEF TypeOK
<1>2. RequestsFit /\ TxFits
  BY DEF RequestsFit, TxFits, Requests, Members
<1>3. NothingBefore /\ MembersAreUsers
  BY DEF NothingBefore, MembersAreUsers
<1>4. EmailsApart /\ PairsApart
  BY DEF EmailsApart, OneUserPerEmail, PairsApart
<1>5. UpsertsFit
  BY DEF UpsertsFit, Requests, Members
<1>6. AccountsHaveTenants
  BY DEF AccountsHaveTenants, Requests, Members
<1> QED
  BY <1>1, <1>2, <1>3, <1>4, <1>5, <1>6 DEF AccountsInv

\* The invariant is kept by every step.
LEMMA AccountsStep == ASSUME AccountsInv, [Next]_vars PROVE AccountsInv'
<1>1. CASE Next
  BY <1>1, TypeStep, FitStep, TxStep, NothingStep, PairsStep, EmailsStep,
     UpsertsStep, TenantsStep DEF AccountsInv
<1>2. CASE UNCHANGED vars
  BY <1>2 DEF vars, tables, sides, AccountsInv, TypeOK, RequestsFit, TxFits,
     NothingBefore, MembersAreUsers, EmailsApart, OneUserPerEmail,
     PairsApart, UpsertsFit, MemberRows, Manages, AccountsHaveTenants
<1> QED
  BY <1>1, <1>2

\* The rows, the requests and the transactions fit together for ever.
THEOREM AccountsInductive == Spec => []AccountsInv
<1>1. Init => AccountsInv
  BY AccountsStart
<1>2. AccountsInv /\ [Next]_vars => AccountsInv'
  BY AccountsStep
<1> QED
  BY <1>1, <1>2, PTL DEF Spec

\* Every variable has its type.
THEOREM AccountsTypeCorrect == Spec => []TypeOK
<1>1. AccountsInv => TypeOK
  BY DEF AccountsInv
<1> QED
  BY <1>1, AccountsInductive, PTL

\* However registrations overlap, no two of them leave an account each with
\* one email.
THEOREM OneUserEach == Spec => []OneUserPerEmail
<1>1. AccountsInv => OneUserPerEmail
  BY DEF AccountsInv, EmailsApart
<1> QED
  BY <1>1, AccountsInductive, PTL

\* However upserts overlap, no user gets two rows for one tenant.
THEOREM OneRowEach == Spec => []OneMembershipEach
<1>1. ASSUME AccountsInv, NEW u \in Users, NEW t \in Tenants
      PROVE  Cardinality(MemberRows(u, t)) <= 1
  <2>1. \A m, n \in MemberRows(u, t) : m = n
    BY <1>1 DEF AccountsInv, PairsApart, MemberRows
  <2>2. CASE MemberRows(u, t) = {}
    BY <2>2, FS_EmptySet
  <2>3. CASE MemberRows(u, t) # {}
    <3>1. PICK m \in MemberRows(u, t) : TRUE
      BY <2>3
    <3>2. MemberRows(u, t) = {m}
      BY <2>1, <3>1
    <3> QED
      BY <3>2, FS_Singleton
  <2> QED
    BY <2>2, <2>3
<1>2. AccountsInv => OneMembershipEach
  BY <1>1 DEF OneMembershipEach
<1> QED
  BY <1>2, AccountsInductive, PTL

\* An account has its tenant and a row in it; a tenant whose creation was
\* answered has a member; whatever fails and whenever the server dies.
THEOREM TenantsAreOwned == Spec => []AccountsHaveTenants
<1>1. AccountsInv => AccountsHaveTenants
  BY DEF AccountsInv
<1> QED
  BY <1>1, AccountsInductive, PTL

\* An upsert that writes was asked for by a member of the tenant, by one who
\* manages it when nobody has overlapped the upsert.
LEMMA UpsertsAsked ==
    ASSUME AccountsInv, NEW r \in Upserters, at[r] = "save"
    PROVE  \E a \in MemberRows(asker[r], arg[r].tenant) :
              r \in crossed \/ members[a].role # "member"
<1>1. /\ MemberRows(asker[r], arg[r].tenant) # {}
      /\ r \notin crossed => Manages(asker[r], arg[r].tenant)
  BY DEF AccountsInv, UpsertsFit
<1> QED
  BY <1>1 DEF Manages

\* Every change of a membership is the first of its tenant or is asked for by
\* somebody the guards let in.
LEMMA ChangesAsked ==
    ASSUME AccountsInv, Next, NEW m \in Members, members'[m] # members[m]
    PROVE  \/ /\ members[m] = NoRow /\ members'[m].role = "owner"
              /\ members'[m].tenant = m
              /\ \A u \in Users : MemberRows(u, m) = {}
           \/ \E r \in Upserters :
                 /\ at[r] = "save" /\ at'[r] = "upserted"
                 /\ \E a \in MemberRows(asker[r], members'[m].tenant) :
                       r \in crossed \/ members[a].role # "member"
<1> DEFINE First == /\ members[m] = NoRow /\ members'[m].role = "owner"
                    /\ members'[m].tenant = m
                    /\ \A u \in Users : MemberRows(u, m) = {}
<1> DEFINE Asked(r) ==
      /\ at[r] = "save" /\ at'[r] = "upserted"
      /\ \E a \in MemberRows(asker[r], members'[m].tenant) :
            r \in crossed \/ members[a].role # "member"
<1>1. members \in [Members -> Membership \cup {NoRow}]
  BY DEF AccountsInv, TypeOK
<1>2. ASSUME NEW r \in Registrars, Commit(r)
      PROVE  First
  <2>1. /\ r \in Members /\ members[r] = NoRow
        /\ members' = [members EXCEPT ![r] =
                         [user |-> r, tenant |-> r, role |-> "owner"]]
        /\ \A n \in Members : members[n] # NoRow => members[n].tenant # r
    BY <1>2, CommitWrites
  <2>2. m = r
    BY <1>1, <2>1
  <2>3. members'[m] = [user |-> r, tenant |-> r, role |-> "owner"]
    BY <1>1, <2>1, <2>2
  <2> QED
    BY <2>1, <2>2, <2>3 DEF MemberRows
<1>3. ASSUME NEW r \in Openers, OwnTenant(r)
      PROVE  First
  <2>1. /\ r \in Members /\ members[r] = NoRow
        /\ members' = [members EXCEPT ![r] = arg[r]]
        /\ arg[r].tenant = r /\ arg[r].role = "owner"
        /\ \A n \in Members : members[n] # NoRow => members[n].tenant # r
    BY <1>3, OwnTenantWrites
  <2>2. m = r /\ members'[m] = arg[r]
    BY <1>1, <2>1
  <2> QED
    BY <2>1, <2>2 DEF MemberRows
<1>4. ASSUME NEW r \in Upserters, AddMember(r)
      PROVE  Asked(r)
  <2>1. /\ r \in Members /\ at[r] = "save" /\ at'[r] = "upserted"
        /\ members' = [members EXCEPT ![r] = arg[r]]
    BY <1>4, AddMemberWrites
  <2>2. members'[m] = arg[r]
    BY <1>1, <2>1
  <2> QED
    BY <2>1, <2>2, UpsertsAsked
<1>5. ASSUME NEW r \in Upserters, ChangeRole(r)
      PROVE  Asked(r)
  <2>1. /\ at[r] = "save" /\ at'[r] = "upserted"
        /\ \A n \in Members \ {found[r]} : members'[n] = members[n]
        /\ members'[found[r]].tenant = members[found[r]].tenant
        /\ members[found[r]].tenant = arg[r].tenant
    BY <1>5, ChangeRoleWrites
  <2>2. members'[m].tenant = arg[r].tenant
    BY <2>1
  <2> QED
    BY <2>1, <2>2, UpsertsAsked
<1>6. First \/ \E r \in Upserters : Asked(r)
  <2> HIDE DEF First, Asked
  <2> QED
    BY <1>2, <1>3, <1>4, <1>5, RowsWritten DEF RowsOrWriter
<1> QED
  BY <1>6

\* Nobody outside of a tenant that has members gets a membership written.
THEOREM ManagersChangeMembers == Spec => MembersChangeByManagers
<1> DEFINE Change ==
      \A m \in Members : members'[m] # members[m] =>
          \/ /\ members[m] = NoRow /\ members'[m].role = "owner"
             /\ members'[m].tenant = m
             /\ \A u \in Users : MemberRows(u, m) = {}
          \/ \E r \in Upserters :
                /\ at[r] = "save" /\ at'[r] = "upserted"
                /\ \E a \in MemberRows(asker[r], members'[m].tenant) :
                      r \in crossed \/ members[a].role # "member"
<1>1. AccountsInv /\ [Next]_vars => [Change]_vars
  <2> SUFFICES ASSUME AccountsInv, Next
               PROVE  Change
    OBVIOUS
  <2> QED
    BY ChangesAsked
<1> QED
  BY <1>1, AccountsInductive, PTL DEF Spec, MembersChangeByManagers
=============================================================================
