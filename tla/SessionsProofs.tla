--------------------------- MODULE SessionsProofs ---------------------------
(***************************************************************************)
(* Proofs about Sessions for any users and requests and any times to live.  *)
(* SessionsInv is inductive; what it says of time rests on two facts about  *)
(* whole seconds (SecondsEarlier, SecondsLater).                            *)
(***************************************************************************)
EXTENDS Sessions, TLAPS

\* A time not after the end of second e lies in a second not after e.
LEMMA SecondsEarlier ==
    ASSUME NEW ms \in Nat, NEW e \in Nat, ms <= e * Second
    PROVE  Sec(ms) \in Nat /\ Sec(ms) <= e
<1>1. Second \in Nat \ {0}
  BY SessionsAssumption
<1> DEFINE q == ms \div Second
<1>2. q \in Nat /\ q * Second <= ms
  BY <1>1
<1>3. q <= e
  <2> HIDE DEF q
  <2>1. ASSUME q >= e + 1
        PROVE  q * Second >= e * Second + Second
    BY <1>1, <1>2, <2>1
  <2>2. e * Second \in Nat /\ q * Second \in Nat
    BY <1>1, <1>2
  <2> QED
    BY <1>1, <1>2, <2>1, <2>2
<1> QED
  BY <1>2, <1>3 DEF Sec

\* A time in second e or after it has come to e's first millisecond.
LEMMA SecondsLater ==
    ASSUME NEW ms \in Nat, NEW e \in Nat, ~(Sec(ms) < e)
    PROVE  ms >= e * Second
<1>1. Second \in Nat \ {0}
  BY SessionsAssumption
<1> DEFINE q == ms \div Second
<1>2. q \in Nat /\ q * Second <= ms /\ q >= e
  BY <1>1 DEF Sec
<1> HIDE DEF q
<1>3. q * Second >= e * Second
  BY <1>1, <1>2
<1>4. e * Second \in Nat /\ q * Second \in Nat
  BY <1>1, <1>2
<1> QED
  BY <1>2, <1>3, <1>4

\* The expiry of a row is a time.
LEMMA MillisTyped ==
    ASSUME NEW e \in Nat
    PROVE  ExpiresAt(e) \in Nat /\ ExpiresAt(e) = e * Second
  BY SessionsAssumption DEF ExpiresAt

\* The clock in seconds.
LEMMA SecTyped ==
    ASSUME SessionsTyped
    PROVE  Sec(now) \in Nat /\ now \in Nat
<1>1. MaxNow \in Nat /\ Second \in Nat \ {0}
  BY SessionsAssumption
<1>2. now \in Nat
  BY <1>1 DEF SessionsTyped
<1> QED
  BY <1>1, <1>2 DEF Sec

\* The tokens of a pair are tokens.
LEMMA SignedTyped ==
    ASSUME SessionsInv, NEW u \in Users
    PROVE  /\ [user |-> u, exp |-> Sec(now) + RefreshTTL] \in Refresh
           /\ Sec(now) + RefreshTTL >= RefreshTTL
<1>1. Sec(now) \in Nat /\ RefreshTTL \in Nat
  BY SecTyped, SessionsAssumption DEF SessionsInv
<1> QED
  BY <1>1 DEF Refresh

-----------------------------------------------------------------------------
(* Each action keeps the invariant *)

\* The clock does not take back a refusal.
LEMMA TickStep == ASSUME SessionsInv, Tick PROVE SessionsInv'
<1>1. now' \in 0 .. MaxNow /\ now' >= now /\ now \in Nat
  <2>1. MaxNow \in Nat
    BY SessionsAssumption
  <2> QED
    BY <2>1 DEF Tick, SessionsInv, SessionsTyped
<1>2. /\ signing' = signing /\ rows' = rows /\ handed' = handed
      /\ access' = access /\ refreshAt' = refreshAt /\ shown' = shown
  BY DEF Tick
<1>3. SessionsTyped'
  BY <1>1, <1>2 DEF SessionsInv, SessionsTyped
<1>4. SignedAhead' /\ RowsOfHanded' /\ ShownWasHanded' /\ SessionsEnd'
  BY <1>2 DEF SessionsInv, SignedAhead, RowsOfHanded, ShownWasHanded, SessionsEnd
<1>5. ASSUME NEW r \in Refreshers, refreshAt'[r] = "refused"
      PROVE  now' >= shown'[r].exp * Second
  <2>1. now >= shown[r].exp * Second
    BY <1>2, <1>5 DEF SessionsInv, RefusedWhenOver
  <2>2. shown[r].exp \in Nat /\ Second \in Nat
    BY <1>2, <1>5, SessionsAssumption
    DEF SessionsInv, ShownWasHanded, SessionsTyped, Refresh
  <2>3. shown[r].exp * Second \in Nat
    BY <2>2
  <2> QED
    BY <1>1, <1>2, <2>1, <2>3
<1>6. RefusedWhenOver'
  BY <1>5 DEF RefusedWhenOver
<1> QED
  BY <1>3, <1>4, <1>6 DEF SessionsInv

\* Tokens are signed.
LEMMA SignStep ==
    ASSUME SessionsInv, NEW u \in Users, Sign(u) PROVE SessionsInv'
<1> DEFINE token == [user |-> u, exp |-> Sec(now) + RefreshTTL]
<1>1. token \in Refresh /\ token.exp >= RefreshTTL
  BY SignedTyped
<1>2. /\ signing' = [signing EXCEPT ![u] = token] /\ now' = now
      /\ rows' = rows /\ handed' = handed
      /\ access' = access /\ refreshAt' = refreshAt /\ shown' = shown
  BY DEF Sign
<1> HIDE DEF token
<1>3. SessionsTyped'
  BY <1>1, <1>2 DEF SessionsInv, SessionsTyped
<1>4. SignedAhead'
  BY <1>1, <1>2 DEF SessionsInv, SignedAhead, SessionsTyped
<1>5. RowsOfHanded' /\ ShownWasHanded' /\ SessionsEnd' /\ RefusedWhenOver'
  BY <1>2 DEF SessionsInv, RowsOfHanded, ShownWasHanded, SessionsEnd,
     RefusedWhenOver
<1> QED
  BY <1>3, <1>4, <1>5 DEF SessionsInv

\* A pair of tokens is stored and handed out.
LEMMA StoreStep ==
    ASSUME SessionsInv, NEW u \in Users, Store(u) PROVE SessionsInv'
<1> DEFINE token == signing[u]
           row == [token |-> token, expiresAt |-> ExpiresAt(token.exp)]
           pair == [user |-> u, exp |-> token.exp - RefreshTTL + AccessTTL,
                    by |-> token]
<1>1. token \in Refresh /\ token.exp \in Nat /\ token.exp >= RefreshTTL
  BY DEF Store, SessionsInv, SessionsTyped, SignedAhead, Refresh
<1>2. /\ signing' = [signing EXCEPT ![u] = NoToken] /\ now' = now
      /\ rows' = rows \cup {row} /\ handed' = handed \cup {token}
      /\ access' = access \cup {pair}
      /\ refreshAt' = refreshAt /\ shown' = shown
  BY DEF Store
<1>3. row \in [token : Refresh, expiresAt : Nat]
      /\ row.expiresAt = row.token.exp * Second /\ row.token = token
  BY <1>1, MillisTyped
<1>4. RefreshTTL \in Nat /\ AccessTTL \in Nat
  BY SessionsAssumption
<1>5. pair \in [user : Users, exp : Nat, by : Refresh]
      /\ pair.exp <= pair.by.exp + AccessTTL
  BY <1>1, <1>4
<1> HIDE DEF token, row, pair
<1>6. SessionsTyped'
  BY <1>1, <1>2, <1>3, <1>5 DEF SessionsInv, SessionsTyped
<1>7. SignedAhead'
  BY <1>2 DEF SessionsInv, SignedAhead, SessionsTyped
<1>8. RowsOfHanded'
  BY <1>2, <1>3 DEF SessionsInv, RowsOfHanded
<1>9. SessionsEnd'
  BY <1>2, <1>5 DEF SessionsInv, SessionsEnd
<1>10. ShownWasHanded' /\ RefusedWhenOver'
  BY <1>2 DEF SessionsInv, ShownWasHanded, RefusedWhenOver
<1> QED
  BY <1>6, <1>7, <1>8, <1>9, <1>10 DEF SessionsInv

\* A pair of tokens is lost.
LEMMA StoreFailsStep ==
    ASSUME SessionsInv, NEW u \in Users, StoreFails(u) PROVE SessionsInv'
<1>1. /\ signing' = [signing EXCEPT ![u] = NoToken] /\ now' = now
      /\ rows' = rows /\ handed' = handed
      /\ access' = access /\ refreshAt' = refreshAt /\ shown' = shown
  BY DEF StoreFails
<1>2. SessionsTyped' /\ SignedAhead'
  BY <1>1 DEF SessionsInv, SessionsTyped, SignedAhead
<1>3. RowsOfHanded' /\ ShownWasHanded' /\ SessionsEnd' /\ RefusedWhenOver'
  BY <1>1 DEF SessionsInv, RowsOfHanded, ShownWasHanded, SessionsEnd,
     RefusedWhenOver
<1> QED
  BY <1>2, <1>3 DEF SessionsInv

\* A token is shown: one whose second has come is refused.
LEMMA RefreshStartStep ==
    ASSUME SessionsInv, NEW r \in Refreshers, NEW token \in handed,
           RefreshStart(r, token)
    PROVE  SessionsInv'
<1> DEFINE label == IF Verified(token) THEN "find" ELSE "refused"
<1>1. /\ shown' = [shown EXCEPT ![r] = token]
      /\ refreshAt' = [refreshAt EXCEPT ![r] = label]
      /\ now' = now /\ signing' = signing /\ rows' = rows
      /\ handed' = handed /\ access' = access
  BY DEF RefreshStart, RefreshEnd
<1>2. token \in Refresh /\ token.exp \in Nat /\ now \in Nat
  BY SecTyped DEF SessionsInv, SessionsTyped, Refresh
<1>3. label = "refused" => now >= token.exp * Second
  BY <1>2, SecondsLater DEF Verified
<1>4. label \in {"find", "refused"}
  OBVIOUS
<1> HIDE DEF label
<1>5. SessionsTyped'
  BY <1>1, <1>2, <1>4 DEF SessionsInv, SessionsTyped
<1>6. ShownWasHanded'
  BY <1>1 DEF SessionsInv, SessionsTyped, ShownWasHanded
<1>7. RefusedWhenOver'
  BY <1>1, <1>3 DEF SessionsInv, SessionsTyped, RefusedWhenOver
<1>8. SignedAhead' /\ RowsOfHanded' /\ SessionsEnd'
  BY <1>1 DEF SessionsInv, SignedAhead, RowsOfHanded, SessionsEnd
<1> QED
  BY <1>5, <1>6, <1>7, <1>8 DEF SessionsInv

\* An access token is granted while the row lives.
LEMMA RefreshGrantStep ==
    ASSUME SessionsInv, NEW r \in Refreshers, RefreshGrant(r)
    PROVE  SessionsInv'
<1> DEFINE token == AccessFor(shown[r])
<1>1. /\ refreshAt' = [refreshAt EXCEPT ![r] = "granted"]
      /\ access' = access \cup {token} /\ shown' = shown
      /\ now' = now /\ signing' = signing /\ rows' = rows /\ handed' = handed
  BY DEF RefreshGrant, RefreshEnd
<1>2. shown[r] \in Refresh /\ shown[r].exp \in Nat /\ shown[r].user \in Users
  BY DEF RefreshGrant, SessionsInv, ShownWasHanded, SessionsTyped, Refresh
<1>3. now \in Nat /\ now <= shown[r].exp * Second
  <2>1. PICK row \in rows : row.token = shown[r] /\ ~(row.expiresAt < now)
    BY DEF RefreshGrant, RowLives
  <2>2. row.expiresAt = shown[r].exp * Second /\ row.expiresAt \in Nat
    BY <2>1 DEF SessionsInv, RowsOfHanded, SessionsTyped
  <2>3. now \in Nat
    BY SecTyped DEF SessionsInv
  <2>4. now <= row.expiresAt
    BY <2>1, <2>2, <2>3
  <2> QED
    BY <2>2, <2>3, <2>4
<1>4. Sec(now) \in Nat /\ Sec(now) <= shown[r].exp
  BY <1>2, <1>3, SecondsEarlier
<1>5. AccessTTL \in Nat
  BY SessionsAssumption
<1>6. token \in [user : Users, exp : Nat, by : Refresh]
      /\ token.exp <= token.by.exp + AccessTTL
  BY <1>2, <1>4, <1>5 DEF AccessFor
<1> HIDE DEF token
<1>7. SessionsTyped'
  BY <1>1, <1>6 DEF SessionsInv, SessionsTyped
<1>8. SessionsEnd'
  BY <1>1, <1>6 DEF SessionsInv, SessionsEnd
<1>9. ShownWasHanded' /\ RefusedWhenOver'
  BY <1>1 DEF RefreshGrant, SessionsInv, SessionsTyped, ShownWasHanded,
     RefusedWhenOver
<1>10. SignedAhead' /\ RowsOfHanded'
  BY <1>1 DEF SessionsInv, SignedAhead, RowsOfHanded
<1> QED
  BY <1>7, <1>8, <1>9, <1>10 DEF SessionsInv

\* A token is refused when every row of it is over, and it has a row.
LEMMA RefreshExpiredStep ==
    ASSUME SessionsInv, NEW r \in Refreshers, RefreshExpired(r)
    PROVE  SessionsInv'
<1>1. /\ refreshAt' = [refreshAt EXCEPT ![r] = "refused"]
      /\ now' = now /\ signing' = signing /\ rows' = rows
      /\ handed' = handed /\ access' = access /\ shown' = shown
  BY DEF RefreshExpired, RefreshEnd
<1>2. now >= shown[r].exp * Second
  <2>1. PICK row \in rows : row.token = shown[r]
    BY DEF RefreshExpired, SessionsInv, ShownWasHanded, RowsOfHanded
  <2>2. row.expiresAt = shown[r].exp * Second /\ row.expiresAt \in Nat
    BY <2>1 DEF SessionsInv, RowsOfHanded, SessionsTyped
  <2>3. row.expiresAt < now
    BY <2>1 DEF RefreshExpired, RowLives
  <2>4. now \in Nat
    BY SecTyped DEF SessionsInv
  <2> QED
    BY <2>2, <2>3, <2>4
<1>3. SessionsTyped'
  BY <1>1 DEF SessionsInv, SessionsTyped
<1>4. ShownWasHanded'
  BY <1>1 DEF RefreshExpired, SessionsInv, SessionsTyped, ShownWasHanded
<1>5. RefusedWhenOver'
  BY <1>1, <1>2 DEF SessionsInv, SessionsTyped, RefusedWhenOver
<1>6. SignedAhead' /\ RowsOfHanded' /\ SessionsEnd'
  BY <1>1 DEF SessionsInv, SignedAhead, RowsOfHanded, SessionsEnd
<1> QED
  BY <1>3, <1>4, <1>5, <1>6 DEF SessionsInv

-----------------------------------------------------------------------------
(* Theorems *)

\* The initial state satisfies the invariant.
LEMMA SessionsStart == ASSUME SessionsInit PROVE SessionsInv
<1>1. 0 \in 0 .. MaxNow
  BY SessionsAssumption
<1>2. SessionsTyped
  BY <1>1 DEF SessionsInit, SessionsTyped
<1> QED
  BY <1>2 DEF SessionsInit, SessionsInv, SignedAhead, RowsOfHanded,
     ShownWasHanded, SessionsEnd, RefusedWhenOver

\* The invariant is kept by every step.
LEMMA SessionsStep ==
    ASSUME SessionsInv, [SessionsNext]_sessionVars PROVE SessionsInv'
<1>1. CASE SessionsNext
  BY <1>1, TickStep, SignStep, StoreStep, StoreFailsStep, RefreshStartStep,
     RefreshGrantStep, RefreshExpiredStep DEF SessionsNext
<1>2. CASE UNCHANGED sessionVars
  BY <1>2 DEF sessionVars, SessionsInv, SessionsTyped, SignedAhead,
     RowsOfHanded, ShownWasHanded, SessionsEnd, RefusedWhenOver
<1> QED
  BY <1>1, <1>2

\* Tokens, rows and requests fit together for ever.
THEOREM SessionsInductive == SessionsSpec => []SessionsInv
<1>1. SessionsInit => SessionsInv
  BY SessionsStart
<1>2. SessionsInv /\ [SessionsNext]_sessionVars => SessionsInv'
  BY SessionsStep
<1> QED
  BY <1>1, <1>2, PTL DEF SessionsSpec

\* Whatever the times to live, no access token outlives by more than AccessTTL
\* the refresh token it was got for.
THEOREM SessionsAreOver == SessionsSpec => []SessionsEnd
<1>1. SessionsInv => SessionsEnd
  BY DEF SessionsInv
<1> QED
  BY <1>1, SessionsInductive, PTL

\* A refresh token a client was given is refused only when its time is over.
THEOREM RefusalsAreDue == SessionsSpec => []RefusedWhenOver
<1>1. SessionsInv => RefusedWhenOver
  BY DEF SessionsInv
<1> QED
  BY <1>1, SessionsInductive, PTL
=============================================================================
