------------------------------ MODULE Sessions ------------------------------
(***************************************************************************)
(* The life of tokens: AuthService.issueTokens and refresh, and the check   *)
(* of the access token by JwtAuthGuard on every route that is not public.   *)
(*                                                                          *)
(* JWTs count whole seconds, the refresh_tokens table and Date count        *)
(* milliseconds.  A token is what it says: its user and its expiry; two     *)
(* refresh tokens of one user and one second are the same string.           *)
(***************************************************************************)
EXTENDS Integers, FiniteSets

CONSTANTS
    Users,
    Refreshers,  \* POST /auth/refresh requests
    NoToken,     \* "no token"
    Second,      \* milliseconds in a second
    AccessTTL,   \* seconds: 1h
    RefreshTTL,  \* seconds: 7d
    MaxNow,      \* bound on the clock
    MaxSessions  \* bound on tokens in the table

ASSUME SessionsAssumption ==
    /\ {Second, AccessTTL, RefreshTTL} \subseteq Nat \ {0}
    /\ MaxNow \in Nat /\ MaxSessions \in Nat
    /\ NoToken \notin [user : Users, exp : Nat]

VARIABLES
    now,       \* milliseconds
    signing,   \* [Users -> refresh token issueTokens is saving, or NoToken]
    rows,      \* refresh_tokens: [token, expiresAt]
    handed,    \* refresh tokens clients have been given
    access,    \* access tokens clients have been given; "by" is history: the
               \* refresh token that came with it or that it was got for
    refreshAt, \* [Refreshers -> where the request is]
    shown      \* [Refreshers -> the token it brings]

sessionVars == <<now, signing, rows, handed, access, refreshAt, shown>>

SessionsInit ==
    /\ now = 0
    /\ signing = [u \in Users |-> NoToken]
    /\ rows = {} /\ handed = {} /\ access = {}
    /\ refreshAt = [r \in Refreshers |-> "idle"]
    /\ shown = [r \in Refreshers |-> NoToken]

\* Time in whole seconds, as JWT's iat and exp.
Sec(ms) == ms \div Second

Tick ==
    /\ now < MaxNow
    /\ now' = now + 1
    /\ UNCHANGED <<signing, rows, handed, access, refreshAt, shown>>

\* jsonwebtoken: expired from the second of exp on.
Verified(token) == Sec(now) < token.exp

\* JwtModule signs access tokens for AccessTTL.
AccessFor(refresh) ==
    [user |-> refresh.user, exp |-> Sec(now) + AccessTTL, by |-> refresh]

-----------------------------------------------------------------------------
(* AuthService.issueTokens, at the end of a registration                    *)

\* Both tokens are signed ...
Sign(u) ==
    /\ signing[u] = NoToken
    /\ Cardinality(rows) < MaxSessions
    /\ signing' = [signing EXCEPT ![u] =
                     [user |-> u, exp |-> Sec(now) + RefreshTTL]]
    /\ UNCHANGED <<now, rows, handed, access, refreshAt, shown>>

InSeconds(exp) == exp
\* new Date(decoded.exp * 1000)
ExpiresAt(exp) == exp * Second

\* ... the row is saved, and the client gets them.  The access token of the
\* pair dates from the second in which the refresh token was signed.
Store(u) ==
    LET token == signing[u] IN
    /\ token # NoToken
    /\ signing' = [signing EXCEPT ![u] = NoToken]
    /\ rows' = rows \cup {[token |-> token, expiresAt |-> ExpiresAt(token.exp)]}
    /\ handed' = handed \cup {token}
    /\ access' = access \cup
         {[user |-> u, exp |-> token.exp - RefreshTTL + AccessTTL, by |-> token]}
    /\ UNCHANGED <<now, refreshAt, shown>>

\* The save fails, or the server dies before the answer.
StoreFails(u) ==
    /\ signing[u] # NoToken
    /\ signing' = [signing EXCEPT ![u] = NoToken]
    /\ UNCHANGED <<now, rows, handed, access, refreshAt, shown>>

-----------------------------------------------------------------------------
(* AuthService.refresh                                                      *)

RefreshEnd(r, label) ==
    /\ refreshAt' = [refreshAt EXCEPT ![r] = label]
    /\ UNCHANGED <<now, signing, rows, handed>>

\* jwt.verify ...
RefreshStart(r, token) ==
    /\ refreshAt[r] = "idle"
    /\ shown' = [shown EXCEPT ![r] = token]
    /\ RefreshEnd(r, IF Verified(token) THEN "find" ELSE "refused")
    /\ UNCHANGED access

\* Date against Date, in milliseconds.
RowUnchecked(row) == TRUE
RowLives(row) == ~(row.expiresAt < now)

\* ... and, once findOne has answered, the expiry of the row and the signature.
RefreshGrant(r) ==
    /\ refreshAt[r] = "find"
    /\ \E row \in rows : row.token = shown[r] /\ RowLives(row)
    /\ access' = access \cup {AccessFor(shown[r])}
    /\ RefreshEnd(r, "granted")
    /\ UNCHANGED shown

RefreshExpired(r) ==
    /\ refreshAt[r] = "find"
    /\ \A row \in rows : row.token = shown[r] => ~RowLives(row)
    /\ RefreshEnd(r, "refused")
    /\ UNCHANGED <<access, shown>>

\* JwtAuthGuard and JwtStrategy let the bearer of an access token in.
Admits(u) == \E token \in access : token.user = u /\ Verified(token)

SessionsNext ==
    \/ Tick
    \/ \E u \in Users : Sign(u) \/ Store(u) \/ StoreFails(u)
    \/ \E r \in Refreshers :
         \/ \E token \in handed : RefreshStart(r, token)
         \/ RefreshGrant(r) \/ RefreshExpired(r)

SessionsSpec == SessionsInit /\ [][SessionsNext]_sessionVars

-----------------------------------------------------------------------------
(* Properties *)

Refresh == [user : Users, exp : Nat]

\* The type of every variable.
SessionsTyped ==
    /\ now \in 0 .. MaxNow
    /\ signing \in [Users -> Refresh \cup {NoToken}]
    /\ rows \subseteq [token : Refresh, expiresAt : Nat]
    /\ handed \subseteq Refresh
    /\ access \subseteq [user : Users, exp : Nat, by : Refresh]
    /\ refreshAt \in [Refreshers -> {"idle", "find", "granted", "refused"}]
    /\ shown \in [Refreshers -> Refresh \cup {NoToken}]

\* A session ends: no access token lives longer than AccessTTL after the
\* refresh token it was got for, even when that expires while the request
\* waits for the database.
SessionsEnd == \A token \in access : token.exp <= token.by.exp + AccessTTL

\* Until it expires a refresh token is good: a client that shows one it was
\* given is refused only when its time is over, in seconds and milliseconds.
RefusedWhenOver ==
    \A r \in Refreshers :
        refreshAt[r] = "refused" => now >= shown[r].exp * Second

-----------------------------------------------------------------------------
(* The inductive invariant, from which the properties above follow.         *)

\* A refresh token that is being saved was signed for RefreshTTL.
SignedAhead ==
    \A u \in Users : signing[u] # NoToken => signing[u].exp >= RefreshTTL

\* The table has the row of every token a client was given, with its expiry in
\* milliseconds.
RowsOfHanded ==
    /\ \A row \in rows : row.expiresAt = row.token.exp * Second
    /\ \A token \in handed : \E row \in rows : row.token = token

\* Clients show what they were given.
ShownWasHanded ==
    \A r \in Refreshers : refreshAt[r] # "idle" => shown[r] \in handed

\* Tokens, rows and requests to refresh fit together.
SessionsInv ==
    /\ SessionsTyped
    /\ SignedAhead
    /\ RowsOfHanded
    /\ ShownWasHanded
    /\ SessionsEnd
    /\ RefusedWhenOver
=============================================================================
