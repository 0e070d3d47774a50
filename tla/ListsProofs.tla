---------------------------- MODULE ListsProofs ----------------------------
(***************************************************************************)
(* Proofs about Lists for any finite set of rows, any page size and any      *)
(* number of changes during the walk.                                       *)
(***************************************************************************)
EXTENDS Lists, FiniteSetTheorems, SequenceTheorems, TLAPS

(* Sequences *)

\* A row that comes pushes those behind it one place on.
LEMMA Inserted ==
    ASSUME NEW s \in Seq(Rows), NEW r \in Rows, NEW i \in 1 .. Len(s) + 1
    PROVE  LET t == InsertAt(s, i, r) IN
           /\ t \in Seq(Rows) /\ Len(t) = Len(s) + 1
           /\ \A j \in 1 .. Len(s) + 1 :
                 t[j] = IF j < i THEN s[j] ELSE IF j = i THEN r ELSE s[j - 1]
<1> DEFINE a == SubSeq(s, 1, i - 1)
           c == SubSeq(s, i, Len(s))
<1>0. Len(s) \in Nat /\ i \in Nat /\ i >= 1 /\ i - 1 <= Len(s)
  OBVIOUS
<1>1. /\ a \in Seq(Rows) /\ Len(a) = i - 1
      /\ \A j \in 1 .. i - 1 : a[j] = s[j]
  BY <1>0, SubSeqProperties
<1>2. /\ c \in Seq(Rows) /\ Len(c) = Len(s) - i + 1
      /\ \A j \in 1 .. Len(s) - i + 1 : c[j] = s[i + j - 1]
  BY <1>0, SubSeqProperties
<1>3. <<r>> \in Seq(Rows) /\ Len(<<r>>) = 1 /\ <<r>>[1] = r
  OBVIOUS
<1>4. InsertAt(s, i, r) = a \o <<r>> \o c
  BY DEF InsertAt
<1> HIDE DEF a, c
<1>5. PICK d \in Seq(Rows) : d = a \o <<r>>
  BY <1>1, <1>3, ConcatProperties
<1>6. /\ Len(d) = i
      /\ \A j \in 1 .. i : d[j] = IF j < i THEN a[j] ELSE r
  <2>1. /\ Len(d) = Len(a) + 1
        /\ \A j \in 1 .. Len(a) + 1 :
              d[j] = IF j <= Len(a) THEN a[j] ELSE <<r>>[j - Len(a)]
    BY <1>1, <1>3, <1>5, ConcatProperties
  <2> QED
    BY <1>0, <1>1, <1>3, <2>1
<1>7. PICK t : t = d \o c
  OBVIOUS
<1>8. /\ t \in Seq(Rows) /\ Len(t) = Len(d) + Len(c)
      /\ \A j \in 1 .. Len(d) + Len(c) :
            t[j] = IF j <= Len(d) THEN d[j] ELSE c[j - Len(d)]
  BY <1>2, <1>7, ConcatProperties
<1>9. Len(t) = Len(s) + 1
  BY <1>0, <1>2, <1>6, <1>8
<1>10. ASSUME NEW j \in 1 .. Len(s) + 1
       PROVE  t[j] = IF j < i THEN s[j] ELSE IF j = i THEN r ELSE s[j - 1]
  <2>1. j \in 1 .. Len(d) + Len(c)
    BY <1>0, <1>2, <1>6
  <2>2. CASE j <= i
    BY <1>0, <1>1, <1>6, <1>8, <2>1, <2>2
  <2>3. CASE j > i
    <3>1. j - i \in 1 .. Len(s) - i + 1 /\ i + (j - i) - 1 = j - 1
      BY <1>0, <2>3
    <3>2. c[j - i] = s[j - 1]
      BY <1>2, <3>1
    <3> QED
      BY <1>0, <1>6, <1>8, <2>1, <2>3, <3>2
  <2> QED
    BY <1>0, <2>2, <2>3
<1> QED
  BY <1>4, <1>5, <1>7, <1>8, <1>9, <1>10

\* A row that goes lets those behind it move up.
LEMMA Removed ==
    ASSUME NEW s \in Seq(Rows), NEW i \in 1 .. Len(s)
    PROVE  LET t == RemoveAt(s, i) IN
           /\ t \in Seq(Rows) /\ Len(t) = Len(s) - 1
           /\ \A j \in 1 .. Len(s) - 1 :
                 t[j] = IF j < i THEN s[j] ELSE s[j + 1]
<1> DEFINE a == SubSeq(s, 1, i - 1)
           b == SubSeq(s, i + 1, Len(s))
<1>1. /\ a \in Seq(Rows) /\ Len(a) = i - 1
      /\ \A j \in 1 .. i - 1 : a[j] = s[j]
  BY SubSeqProperties
<1>2. /\ b \in Seq(Rows) /\ Len(b) = Len(s) - i
      /\ \A j \in 1 .. Len(s) - i : b[j] = s[i + j]
  BY SubSeqProperties
<1>3. RemoveAt(s, i) = a \o b
  BY DEF RemoveAt
<1> HIDE DEF a, b
<1>4. /\ a \o b \in Seq(Rows) /\ Len(a \o b) = Len(a) + Len(b)
      /\ \A j \in 1 .. Len(a) + Len(b) :
            (a \o b)[j] = IF j <= Len(a) THEN a[j] ELSE b[j - Len(a)]
  BY <1>1, <1>2, ConcatProperties
<1>5. Len(s) \in Nat /\ i \in Nat
  OBVIOUS
<1> QED
  BY <1>1, <1>2, <1>3, <1>4, <1>5

-----------------------------------------------------------------------------
(* What the lists and the rows missed are                                   *)

\* The facts about a list that is typed.
LEMMA ListFacts ==
    ASSUME ListsTyped
    PROVE  /\ Len(list) \in Nat /\ DOMAIN list = 1 .. Len(list)
           /\ \A i \in 1 .. Len(list) : list[i] \in Rows /\ list[i] \in Range(list)
           /\ \A i, j \in 1 .. Len(list) : list[i] = list[j] => i = j
           /\ \A r \in Range(list) : r \in Rows /\ \E i \in 1 .. Len(list) : list[i] = r
  BY LenProperties, ElementOfSeq DEF ListsTyped, IsInjective, Range

\* The list without one of its rows: those behind it move up.
LEMMA WithoutFacts ==
    ASSUME ListsTyped, NEW r \in Range(list)
    PROVE  /\ PlaceOf(r) \in 1 .. Len(list) /\ list[PlaceOf(r)] = r
           /\ Without(r) \in Seq(Rows) /\ Len(Without(r)) = Len(list) - 1
           /\ DOMAIN Without(r) = 1 .. Len(list) - 1
           /\ \A j \in 1 .. Len(list) - 1 :
                Without(r)[j] = IF j < PlaceOf(r) THEN list[j] ELSE list[j + 1]
<1>1. PlaceOf(r) \in 1 .. Len(list) /\ list[PlaceOf(r)] = r
  BY ListFacts DEF PlaceOf
<1>2. list \in Seq(Rows)
  BY DEF ListsTyped
<1>3. /\ Without(r) \in Seq(Rows) /\ Len(Without(r)) = Len(list) - 1
      /\ \A j \in 1 .. Len(list) - 1 :
           Without(r)[j] = IF j < PlaceOf(r) THEN list[j] ELSE list[j + 1]
  BY <1>1, <1>2, Removed DEF Without
<1>4. DOMAIN Without(r) = 1 .. Len(list) - 1
  BY <1>3, LenProperties
<1> QED
  BY <1>1, <1>3, <1>4

\* It has each of the other rows, once.
LEMMA WithoutRows ==
    ASSUME ListsTyped, NEW r \in Range(list)
    PROVE  IsInjective(Without(r)) /\ Range(Without(r)) = Range(list) \ {r}
<1>1. PICK i \in 1 .. Len(list) :
        /\ list[i] = r
        /\ \A j \in 1 .. Len(list) - 1 :
             Without(r)[j] = IF j < i THEN list[j] ELSE list[j + 1]
  <2>1. PICK i : i = PlaceOf(r)
    OBVIOUS
  <2> QED
    BY <2>1, WithoutFacts
<1>2. DOMAIN Without(r) = 1 .. Len(list) - 1
  BY WithoutFacts
<1>3. /\ Len(list) \in Nat
      /\ \A a, b \in 1 .. Len(list) : list[a] = list[b] => a = b
  BY ListFacts
<1>4. IsInjective(Without(r))
  BY <1>1, <1>2, <1>3 DEF IsInjective
<1>5. ASSUME NEW x \in Range(Without(r))  PROVE x \in Range(list) \ {r}
  <2>1. PICK j \in 1 .. Len(list) - 1 : Without(r)[j] = x
    BY <1>2, <1>5 DEF Range
  <2>2. CASE j < i
    BY <1>1, <1>3, <2>1, <2>2, ListFacts
  <2>3. CASE ~(j < i)
    BY <1>1, <1>3, <2>1, <2>3, ListFacts
  <2> QED
    BY <2>2, <2>3
<1>6. ASSUME NEW x \in Range(list) \ {r}  PROVE x \in Range(Without(r))
  <2>1. PICK a \in 1 .. Len(list) : list[a] = x
    BY ListFacts
  <2>2. \E j \in 1 .. Len(list) - 1 : Without(r)[j] = x
    <3>1. CASE a < i
      BY <1>1, <1>3, <2>1, <3>1
    <3>2. CASE a > i
      <4>1. a - 1 \in 1 .. Len(list) - 1 /\ ~(a - 1 < i) /\ (a - 1) + 1 = a
        BY <1>3, <3>2
      <4> QED
        BY <1>1, <2>1, <4>1
    <3>3. a # i
      BY <1>1, <2>1
    <3> QED
      BY <3>1, <3>2, <3>3
  <2> QED
    BY <1>2, <2>2 DEF Range
<1> QED
  BY <1>4, <1>5, <1>6

\* The list with another row at place i has it and the others, each once.
LEMMA InsertedRows ==
    ASSUME NEW s \in Seq(Rows), NEW r \in Rows, NEW i \in 1 .. Len(s) + 1,
           IsInjective(s), r \notin Range(s)
    PROVE  LET t == InsertAt(s, i, r) IN
           /\ t \in Seq(Rows) /\ IsInjective(t) /\ Range(t) = Range(s) \cup {r}
           /\ DOMAIN t = 1 .. Len(s) + 1 /\ DOMAIN s = 1 .. Len(s)
           /\ \A j \in 1 .. Len(s) + 1 :
                 t[j] = IF j < i THEN s[j] ELSE IF j = i THEN r ELSE s[j - 1]
<1> DEFINE t == InsertAt(s, i, r)
<1>1. /\ t \in Seq(Rows) /\ Len(t) = Len(s) + 1
      /\ \A j \in 1 .. Len(s) + 1 :
            t[j] = IF j < i THEN s[j] ELSE IF j = i THEN r ELSE s[j - 1]
  BY Inserted
<1> HIDE DEF t
<1>2. /\ Len(s) \in Nat /\ DOMAIN s = 1 .. Len(s) /\ DOMAIN t = 1 .. Len(s) + 1
  BY <1>1, LenProperties
<1>3. \A j \in 1 .. Len(s) : s[j] # r
  BY <1>2 DEF Range
<1>4. \A j \in 1 .. Len(s) + 1 :
        \/ j < i /\ j \in 1 .. Len(s) /\ t[j] = s[j]
        \/ j = i /\ t[j] = r
        \/ j > i /\ j - 1 \in 1 .. Len(s) /\ t[j] = s[j - 1]
  BY <1>1, <1>2
<1>5. \A a, b \in 1 .. Len(s) : s[a] = s[b] => a = b
  BY <1>2 DEF IsInjective
<1>6. IsInjective(t)
  <2> SUFFICES ASSUME NEW a \in 1 .. Len(s) + 1, NEW b \in 1 .. Len(s) + 1,
                      t[a] = t[b]
               PROVE  a = b
    BY <1>2 DEF IsInjective
  <2>1. CASE a < i /\ b < i
    BY <1>4, <1>5, <2>1
  <2>2. CASE a > i /\ b > i
    <3>1. a - 1 = b - 1
      BY <1>2, <1>4, <1>5, <2>2
    <3> QED
      BY <1>2, <3>1
  <2>3. CASE a < i /\ b > i
    <3>1. a = b - 1
      BY <1>2, <1>4, <1>5, <2>3
    <3> QED
      BY <1>2, <2>3, <3>1
  <2>4. CASE a > i /\ b < i
    <3>1. a - 1 = b
      BY <1>2, <1>4, <1>5, <2>4
    <3> QED
      BY <1>2, <2>4, <3>1
  <2>5. CASE a = i \/ b = i
    BY <1>2, <1>3, <1>4, <2>5
  <2> QED
    BY <1>2, <2>1, <2>2, <2>3, <2>4, <2>5
<1>7. Range(t) = Range(s) \cup {r}
  <2>1. \A j \in DOMAIN t : t[j] \in Range(s) \cup {r}
    BY <1>2, <1>4 DEF Range
  <2>2. \A j \in DOMAIN s : s[j] \in Range(t)
    <3> SUFFICES ASSUME NEW j \in 1 .. Len(s)  PROVE \E k \in DOMAIN t : t[k] = s[j]
      BY <1>2 DEF Range
    <3>1. CASE j < i
      BY <1>2, <1>4, <3>1
    <3>2. CASE ~(j < i)
      <4>1. j + 1 \in 1 .. Len(s) + 1 /\ ~(j + 1 < i) /\ j + 1 # i
            /\ (j + 1) - 1 = j
        BY <1>2, <3>2
      <4>2. t[j + 1] = s[j]
        BY <1>1, <4>1
      <4> QED
        BY <1>2, <4>1, <4>2
    <3> QED
      BY <3>1, <3>2
  <2>3. r \in Range(t)
    <3>1. i \in DOMAIN t /\ t[i] = r
      BY <1>2, <1>4
    <3> QED
      BY <3>1 DEF Range
  <2> QED
    BY <2>1, <2>2, <2>3 DEF Range
<1> QED
  BY <1>1, <1>2, <1>6, <1>7 DEF t

\* What a client has missed is a set of rows of the list, and finite.
LEMMA MissedFinite ==
    ASSUME ListsTyped, NEW k
    PROVE  Missed(k) \subseteq Rows /\ IsFiniteSet(Missed(k))
<1>1. Missed(k) \subseteq Rows
  BY DEF Missed, ListsTyped
<1> QED
  BY <1>1, ListsAssumption, FS_Subset

\* How far the client has come is a number of rows.
LEMMA PassedTyped ==
    ASSUME ListsTyped
    PROVE  /\ page * PageSize \in Nat /\ Skip(page) \in Nat
           /\ Skip(page) + PageSize = page * PageSize
           /\ Skip(page + 1) = page * PageSize
<1>1. page \in Nat /\ page >= 1 /\ page - 1 \in Nat /\ PageSize \in Nat
  BY ListsAssumption DEF ListsTyped
<1>2. \A a, b \in Nat : a * b \in Nat
  OBVIOUS
<1>3. page * PageSize \in Nat /\ (page - 1) * PageSize \in Nat
  BY <1>1, <1>2
<1>4. (page - 1) * PageSize + PageSize = page * PageSize
  BY <1>1
<1>5. (page + 1) - 1 = page
  BY <1>1
<1> QED
  BY <1>3, <1>4, <1>5 DEF Skip

-----------------------------------------------------------------------------
(* The steps                                                                *)

\* When the client misses nothing new, the bound stays.
LEMMA NothingMissed ==
    ASSUME ListsWalked, walk # "done", shifts' = shifts,
           Missed(Passed)' \subseteq Missed(Passed)
    PROVE  Cardinality(Missed(Passed)') <= shifts'
<1>1. ListsTyped /\ Cardinality(Missed(Passed)) <= shifts /\ shifts \in Nat
  BY DEF ListsWalked, ListsTyped
<1>2. IsFiniteSet(Missed(Passed))
  BY <1>1, MissedFinite
<1>3. PICK A : A = Missed(Passed)'
  OBVIOUS
<1>4. A \subseteq Missed(Passed)
  BY <1>3
<1>5. IsFiniteSet(A) /\ Cardinality(A) <= Cardinality(Missed(Passed))
  BY <1>2, <1>4, FS_Subset
<1>6. Cardinality(A) \in Nat /\ Cardinality(Missed(Passed)) \in Nat
  BY <1>2, <1>5, FS_CardinalityType
<1> QED
  BY <1>1, <1>3, <1>5, <1>6

\* A change that brings no row nearer keeps the bound, and one that brings rows
\* nearer by one place and is counted keeps it, too: only the row just behind
\* the client's place slips past it.
LEMMA ChangeWalked ==
    ASSUME ListsWalked, Change, NEW d \in {0, 1},
           list' \in Seq(Rows), IsInjective(list'),
           kept' \subseteq kept, kept' \subseteq Range(list'),
           \A m \in DOMAIN list' : list'[m] \in kept' =>
              \E j \in DOMAIN list : list[j] = list'[m] /\ j <= m + d,
           shifts' = shifts + d, UNCHANGED <<kind, walk, page, seen>>
    PROVE  ListsWalked'
<1>1. /\ ListsTyped /\ walk # "done" /\ changes < MaxChanges
      /\ changes' = changes + 1 /\ shifts \in Nat
      /\ Cardinality(Missed(Passed)) <= shifts
  BY DEF ListsWalked, ListsTyped, Change
<1>2. ListsTyped'
  BY <1>1, ListsAssumption DEF ListsTyped
<1>3. PICK k : k = Passed
  OBVIOUS
<1>4. Passed' = k /\ k \in Nat
  BY <1>1, <1>3, PassedTyped DEF Passed, Skip
<1>5. Len(list) \in Nat /\ DOMAIN list = 1 .. Len(list)
  BY <1>1, ListFacts
<1>6. Len(list') \in Nat /\ DOMAIN list' = 1 .. Len(list')
  BY LenProperties
<1>7. ASSUME NEW x \in Missed(Passed)'
      PROVE  x \in kept \ seen /\ \E j \in DOMAIN list : list[j] = x /\ j <= k + d
  <2>1. x \in kept' \ seen' /\ \E m \in DOMAIN list' : m <= k /\ list'[m] = x
    BY <1>4, <1>7 DEF Missed
  <2>2. PICK m \in DOMAIN list' : m <= k /\ list'[m] = x
    BY <2>1
  <2>3. PICK j \in DOMAIN list : list[j] = x /\ j <= m + d
    BY <2>1, <2>2
  <2>4. j <= k + d
    BY <1>4, <1>5, <1>6, <2>2, <2>3
  <2> QED
    BY <2>1, <2>3, <2>4
<1>8. Cardinality(Missed(Passed)') <= shifts'
  <2>1. CASE d = 0
    <3>1. Missed(Passed)' \subseteq Missed(Passed)
      <4> SUFFICES ASSUME NEW x \in Missed(Passed)'
                   PROVE  x \in Missed(k)
        BY <1>3
      <4>1. PICK j \in DOMAIN list : list[j] = x /\ j <= k + d
        BY <1>7
      <4>2. j <= k /\ x \in kept \ seen
        BY <1>4, <1>5, <1>7, <2>1, <4>1
      <4> QED
        BY <4>1, <4>2 DEF Missed
    <3>2. shifts' = shifts
      BY <1>1, <2>1
    <3> QED
      BY <1>1, <3>1, <3>2, NothingMissed
  <2>2. CASE d = 1
    <3>1. \A x \in Missed(Passed)' : x \in Missed(k) \cup {list[k + 1]}
      <4> SUFFICES ASSUME NEW x \in Missed(Passed)'
                   PROVE  x \in Missed(k) \/ x = list[k + 1]
        OBVIOUS
      <4>1. PICK j \in DOMAIN list : list[j] = x /\ j <= k + d
        BY <1>7
      <4>2. (j <= k \/ j = k + 1) /\ x \in kept \ seen
        BY <1>4, <1>5, <1>7, <2>2, <4>1
      <4> QED
        BY <4>1, <4>2 DEF Missed
    <3>2. IsFiniteSet(Missed(k))
      BY <1>1, MissedFinite
    <3>3. PICK A : A = Missed(Passed)'
      OBVIOUS
    <3>4. PICK B : B = Missed(k) \cup {list[k + 1]}
      OBVIOUS
    <3>5. /\ IsFiniteSet(B)
          /\ Cardinality(B) = Cardinality(Missed(k))
               \/ Cardinality(B) = Cardinality(Missed(k)) + 1
      BY <3>2, <3>4, FS_AddElement
    <3>6. A \subseteq B
      BY <3>1, <3>3, <3>4
    <3>7. IsFiniteSet(A) /\ Cardinality(A) <= Cardinality(B)
      BY <3>5, <3>6, FS_Subset
    <3>8. /\ Cardinality(A) \in Nat /\ Cardinality(B) \in Nat
          /\ Cardinality(Missed(k)) \in Nat
      BY <3>2, <3>5, <3>7, FS_CardinalityType
    <3>9. Cardinality(Missed(k)) <= shifts
      BY <1>1, <1>3
    <3> QED
      BY <1>1, <2>2, <3>3, <3>5, <3>7, <3>8, <3>9
  <2> QED
    BY <2>1, <2>2
<1> QED
  BY <1>1, <1>2, <1>8 DEF ListsWalked, WalksMissFew

\* At the start nothing has been passed.
LEMMA ListsBegin == ListsInit => ListsWalked
<1> SUFFICES ASSUME ListsInit  PROVE ListsWalked
  OBVIOUS
<1>1. PICK n \in 0 .. Cardinality(Rows) : list \in [1 .. n -> Rows]
  BY DEF ListsInit
<1>2. n \in Nat
  BY <1>1, ListsAssumption, FS_CardinalityType
<1>3. list \in Seq(Rows)
  BY <1>1, <1>2
<1>4. Range(list) \subseteq Rows
  BY <1>1 DEF Range
<1>5. ListsTyped
  BY <1>3, <1>4, ListsAssumption DEF ListsInit, ListsTyped
<1>6. Passed = 0
  BY ListsAssumption DEF ListsInit, Passed, Skip
<1>7. Missed(Passed) = {}
  BY <1>5, <1>6, ListFacts DEF Missed
<1>8. Cardinality(Missed(Passed)) <= shifts
  BY <1>7, FS_EmptySet DEF ListsInit
<1> QED
  BY <1>5, <1>8 DEF ListsInit, ListsWalked, WalksMissFew

\* A row that comes brings no other one nearer.
LEMMA InsertWalked ==
    ASSUME ListsWalked, NEW r \in Rows, NEW i \in 1 .. Len(list) + 1, Insert(r, i)
    PROVE  ListsWalked'
<1>1. /\ ListsTyped /\ kept \subseteq Range(list) /\ shifts \in Nat
      /\ Change /\ r \notin Range(list) /\ list' = InsertAt(list, i, r)
      /\ UNCHANGED <<kind, walk, page, seen, kept, shifts>>
  BY DEF ListsWalked, ListsTyped, Insert
<1>2. /\ list' \in Seq(Rows) /\ IsInjective(list')
      /\ Range(list') = Range(list) \cup {r}
      /\ DOMAIN list' = 1 .. Len(list) + 1 /\ DOMAIN list = 1 .. Len(list)
      /\ \A j \in 1 .. Len(list) + 1 :
            list'[j] = IF j < i THEN list[j] ELSE IF j = i THEN r ELSE list[j - 1]
  BY <1>1, InsertedRows DEF ListsTyped
<1>3. Len(list) \in Nat
  BY <1>1, ListFacts
<1>4. ASSUME NEW m \in DOMAIN list', list'[m] \in kept'
      PROVE  \E j \in DOMAIN list : list[j] = list'[m] /\ j <= m + 0
  <2>1. m # i
    BY <1>1, <1>2, <1>4
  <2>2. CASE m < i
    BY <1>2, <1>3, <2>2
  <2>3. CASE m > i
    <3>1. m - 1 \in DOMAIN list /\ list[m - 1] = list'[m] /\ m - 1 <= m + 0
      BY <1>2, <1>3, <2>3
    <3> QED
      BY <3>1
  <2> QED
    BY <1>2, <1>3, <2>1, <2>2, <2>3
<1>5. kept' \subseteq kept /\ kept' \subseteq Range(list') /\ shifts' = shifts + 0
  BY <1>1, <1>2
<1> QED
  BY <1>1, <1>2, <1>4, <1>5, ChangeWalked

\* One that moves to the front or to another place before its own brings none
\* nearer, and one that moves back those it passes, by one place.
LEMMA MoveWalked ==
    ASSUME ListsWalked, NEW r \in Rows, NEW i \in 1 .. Len(list), Move(r, i)
    PROVE  ListsWalked'
<1>1. /\ ListsTyped /\ kept \subseteq Range(list) /\ shifts \in Nat
      /\ Change /\ r \in Range(list)
      /\ list' = InsertAt(Without(r), i, r) /\ kept' = kept \ {r}
      /\ UNCHANGED <<kind, walk, page, seen>>
  BY DEF ListsWalked, ListsTyped, Move, Moved
<1>2. PICK p : p = PlaceOf(r)
  OBVIOUS
<1>3. PICK t : t = Without(r)
  OBVIOUS
<1>4. /\ p \in 1 .. Len(list) /\ list[p] = r
      /\ t \in Seq(Rows) /\ Len(t) = Len(list) - 1
      /\ DOMAIN t = 1 .. Len(list) - 1
      /\ \A j \in 1 .. Len(list) - 1 : t[j] = IF j < p THEN list[j] ELSE list[j + 1]
  BY <1>1, <1>2, <1>3, WithoutFacts
<1>5. IsInjective(t) /\ Range(t) = Range(list) \ {r}
  BY <1>1, <1>3, WithoutRows
<1>6. Len(list) \in Nat /\ DOMAIN list = 1 .. Len(list)
  BY <1>1, ListFacts
<1>7. i \in 1 .. Len(t) + 1 /\ Len(t) + 1 = Len(list) /\ r \notin Range(t)
  BY <1>4, <1>5, <1>6
<1>8. /\ list' \in Seq(Rows) /\ IsInjective(list')
      /\ Range(list') = Range(t) \cup {r}
      /\ DOMAIN list' = 1 .. Len(list)
      /\ \A j \in 1 .. Len(list) :
            list'[j] = IF j < i THEN t[j] ELSE IF j = i THEN r ELSE t[j - 1]
  <2>1. list' = InsertAt(t, i, r)
    BY <1>1, <1>3
  <2> QED
    BY <1>4, <1>5, <1>7, <2>1, InsertedRows
<1>9. PICK d \in {0, 1} : d = IF i > p THEN 1 ELSE 0
  OBVIOUS
<1>10. shifts' = shifts + d
  BY <1>1, <1>2, <1>9 DEF Move
<1>11. ASSUME NEW m \in DOMAIN list', list'[m] \in kept'
       PROVE  \E j \in DOMAIN list : list[j] = list'[m] /\ j <= m + d
  <2>1. m # i /\ m \in 1 .. Len(list)
    BY <1>1, <1>8, <1>11
  <2>2. CASE m < i
    <3>1. m \in 1 .. Len(list) - 1 /\ list'[m] = t[m]
      BY <1>6, <1>8, <2>1, <2>2
    <3>2. CASE m < p
      <4>1. list[m] = list'[m] /\ m \in DOMAIN list /\ m <= m + d
        BY <1>4, <1>6, <1>9, <3>1, <3>2
      <4> QED
        BY <4>1
    <3>3. CASE ~(m < p)
      <4>1. d = 1
        BY <1>4, <1>9, <2>1, <2>2, <3>3
      <4>2. list[m + 1] = list'[m] /\ m + 1 \in DOMAIN list /\ m + 1 <= m + d
        BY <1>4, <1>6, <3>1, <3>3, <4>1
      <4> QED
        BY <4>2
    <3> QED
      BY <3>2, <3>3
  <2>3. CASE m > i
    <3>1. m - 1 \in 1 .. Len(list) - 1 /\ list'[m] = t[m - 1] /\ (m - 1) + 1 = m
      BY <1>6, <1>8, <2>1, <2>3
    <3>2. CASE m - 1 < p
      <4>1. list[m - 1] = list'[m] /\ m - 1 \in DOMAIN list /\ m - 1 <= m + d
        BY <1>4, <1>6, <1>9, <3>1, <3>2
      <4> QED
        BY <4>1
    <3>3. CASE ~(m - 1 < p)
      <4>1. list[m] = list'[m] /\ m \in DOMAIN list /\ m <= m + d
        BY <1>4, <1>6, <1>9, <2>1, <3>1, <3>3
      <4> QED
        BY <4>1
    <3> QED
      BY <3>2, <3>3
  <2> QED
    BY <1>6, <2>1, <2>2, <2>3
<1>12. kept' \subseteq kept /\ kept' \subseteq Range(list')
  BY <1>1, <1>5, <1>8
<1> QED
  BY <1>1, <1>8, <1>10, <1>11, <1>12, ChangeWalked

\* One that leaves brings those behind it nearer, by one place.
LEMMA DropWalked ==
    ASSUME ListsWalked, NEW r \in Rows, Drop(r)
    PROVE  ListsWalked'
<1>1. /\ ListsTyped /\ kept \subseteq Range(list)
      /\ Change /\ r \in Range(list)
      /\ list' = Without(r) /\ kept' = kept \ {r} /\ shifts' = shifts + 1
      /\ UNCHANGED <<kind, walk, page, seen>>
  BY DEF ListsWalked, Drop
<1>2. /\ list' \in Seq(Rows) /\ IsInjective(list')
      /\ Range(list') = Range(list) \ {r}
  BY <1>1, WithoutFacts, WithoutRows
<1>3. PICK p : p = PlaceOf(r)
  OBVIOUS
<1>4. /\ p \in 1 .. Len(list) /\ DOMAIN list' = 1 .. Len(list) - 1
      /\ \A j \in 1 .. Len(list) - 1 :
           list'[j] = IF j < p THEN list[j] ELSE list[j + 1]
  BY <1>1, <1>3, WithoutFacts
<1>5. Len(list) \in Nat /\ DOMAIN list = 1 .. Len(list)
  BY <1>1, ListFacts
<1>6. ASSUME NEW m \in DOMAIN list', list'[m] \in kept'
      PROVE  \E j \in DOMAIN list : list[j] = list'[m] /\ j <= m + 1
  <2>1. CASE m < p
    <3>1. list[m] = list'[m] /\ m \in DOMAIN list /\ m <= m + 1
      BY <1>4, <1>5, <2>1
    <3> QED
      BY <3>1
  <2>2. CASE ~(m < p)
    <3>1. list[m + 1] = list'[m] /\ m + 1 \in DOMAIN list /\ m + 1 <= m + 1
      BY <1>4, <1>5, <2>2
    <3> QED
      BY <3>1
  <2> QED
    BY <2>1, <2>2
<1>7. kept' \subseteq kept /\ kept' \subseteq Range(list')
  BY <1>1, <1>2
<1> QED
  BY <1>1, <1>2, <1>6, <1>7, ChangeWalked

\* The page the client gets holds the rows up to the next page.
LEMMA PageRows ==
    ASSUME ListsTyped, NEW i \in DOMAIN list,
           Skip(page) < i, i <= page * PageSize
    PROVE  list[i] \in Range(PageOf(list, page))
<1>1. /\ i \in 1 .. Len(list) /\ Len(list) \in Nat
      /\ \A j \in 1 .. Len(list) : list[j] \in Rows
  BY ListFacts
<1>2. Skip(page) \in Nat /\ Skip(page) + PageSize = page * PageSize
      /\ page * PageSize \in Nat
  BY PassedTyped
<1>3. PICK lo \in Nat : lo = Skip(page)
  BY <1>2
<1>4. PICK hi \in Nat : hi = Skip(page) + PageSize
  BY <1>2
<1>5. PICK n : n = Min({hi, Len(list)})
  OBVIOUS
<1>6. n \in {hi, Len(list)} /\ n <= hi /\ n <= Len(list)
  <2>1. \E x \in {hi, Len(list)} : \A y \in {hi, Len(list)} : x <= y
    BY <1>1, <1>4
  <2> QED
    BY <1>5, <2>1 DEF Min
<1>7. n \in Nat /\ lo < i /\ i <= n
  BY <1>1, <1>2, <1>3, <1>4, <1>6
<1>8. PageOf(list, page) = SubSeq(list, lo + 1, n)
  BY <1>3, <1>4, <1>5 DEF PageOf
<1>9. \A j \in lo + 1 .. n : list[j] \in Rows
  BY <1>1, <1>6, <1>7
<1>10. /\ SubSeq(list, lo + 1, n) \in Seq(Rows)
       /\ Len(SubSeq(list, lo + 1, n)) = n - lo
       /\ \A j \in 1 .. n - lo : SubSeq(list, lo + 1, n)[j] = list[lo + j]
  <2>1. /\ SubSeq(list, lo + 1, n) \in Seq(Rows)
        /\ Len(SubSeq(list, lo + 1, n)) =
             IF lo + 1 <= n THEN n - (lo + 1) + 1 ELSE 0
        /\ \A j \in 1 .. n - (lo + 1) + 1 :
             SubSeq(list, lo + 1, n)[j] = list[(lo + 1) + j - 1]
    <3>1. lo + 1 \in Int /\ n \in Int
      BY <1>7
    <3> QED
      BY <1>9, <3>1, SubSeqProperties
  <2>2. n - (lo + 1) + 1 = n - lo /\ lo + 1 <= n
    BY <1>1, <1>7
  <2>3. \A j \in 1 .. n - lo : (lo + 1) + j - 1 = lo + j
    BY <1>7
  <2> QED
    BY <2>1, <2>2, <2>3
<1>11. i - lo \in 1 .. n - lo /\ lo + (i - lo) = i
  BY <1>1, <1>7
<1>12. i - lo \in DOMAIN PageOf(list, page) /\ PageOf(list, page)[i - lo] = list[i]
  BY <1>8, <1>10, <1>11, LenProperties
<1> QED
  BY <1>12 DEF Range

\* The items of a page are those the client would pass with it.
LEMMA FetchItemsWalked ==
    ASSUME ListsWalked, FetchItems
    PROVE  ListsWalked'
<1>1. /\ ListsTyped /\ kept \subseteq Range(list)
      /\ walk = "items" /\ shifts \in Nat
      /\ walk' = IF TellsTotal(page) THEN "done" ELSE "count"
      /\ seen' = seen \cup Range(PageOf(list, page))
      /\ UNCHANGED <<kind, list, page, kept, shifts, changes>>
  BY DEF ListsWalked, ListsTyped, FetchItems
<1>2. /\ Len(list) \in Nat /\ DOMAIN list = 1 .. Len(list)
      /\ \A j \in 1 .. Len(list) : list[j] \in Rows
  BY <1>1, ListFacts
<1>3. Range(PageOf(list, page)) \subseteq Rows
  <2>1. PICK lo \in Nat : lo = Skip(page)
    BY <1>1, PassedTyped
  <2>2. PICK n : n = Min({Skip(page) + PageSize, Len(list)})
    OBVIOUS
  <2>3. Skip(page) + PageSize \in Nat
    BY <1>1, PassedTyped
  <2>4. n \in Nat /\ n <= Len(list)
    <3>1. \E x \in {Skip(page) + PageSize, Len(list)} :
            \A y \in {Skip(page) + PageSize, Len(list)} : x <= y
      BY <1>2, <2>3
    <3> QED
      BY <1>2, <2>2, <2>3, <3>1 DEF Min
  <2>5. \A j \in lo + 1 .. n : list[j] \in Rows
    BY <1>2, <2>1, <2>4
  <2>6. PageOf(list, page) = SubSeq(list, lo + 1, n)
    BY <2>1, <2>2 DEF PageOf
  <2>7. lo + 1 \in Int /\ n \in Int
    BY <2>1, <2>4
  <2>8. PageOf(list, page) \in Seq(Rows)
    BY <2>5, <2>6, <2>7, SubSeqProperties
  <2> QED
    BY <2>8, LenProperties, ElementOfSeq DEF Range
<1>4. ListsTyped'
  BY <1>1, <1>3 DEF ListsTyped
<1>5. Passed = Skip(page) /\ Passed' = page * PageSize
  BY <1>1 DEF Passed, Skip
<1>6. Missed(Passed)' \subseteq Missed(Passed)
  <2> SUFFICES ASSUME NEW x \in Missed(Passed)'
               PROVE  x \in Missed(Skip(page))
    BY <1>5
  <2>1. x \in kept' \ seen' /\ \E m \in DOMAIN list' :
          m <= page * PageSize /\ list'[m] = x
    BY <1>5 DEF Missed
  <2>2. PICK m \in DOMAIN list : m <= page * PageSize /\ list[m] = x
    BY <1>1, <2>1
  <2>3. x \in kept \ seen /\ x \notin Range(PageOf(list, page))
    BY <1>1, <2>1
  <2>4. ~(Skip(page) < m)
    BY <1>1, <2>2, <2>3, PageRows
  <2>5. m <= Skip(page)
    <3>1. m \in Int /\ Skip(page) \in Nat
      BY <1>1, <1>2, PassedTyped
    <3> QED
      BY <2>4, <3>1
  <2> QED
    BY <2>2, <2>3, <2>5 DEF Missed
<1>7. Cardinality(Missed(Passed)') <= shifts'
  BY <1>1, <1>6, NothingMissed
<1>8. WalksMissFew'
  <2> SUFFICES ASSUME walk' = "done"  PROVE Cardinality(kept' \ seen') <= shifts'
    BY DEF WalksMissFew
  <2>1. Len(list) < page * PageSize
    BY <1>1 DEF TellsTotal
  <2>2. \A x \in kept' \ seen' : x \in Missed(Passed)'
    <3> SUFFICES ASSUME NEW x \in kept' \ seen'  PROVE x \in Missed(Passed)'
      OBVIOUS
    <3>1. PICK i \in 1 .. Len(list) : list[i] = x
      BY <1>1, ListFacts
    <3>2. i \in DOMAIN list' /\ list'[i] = x /\ i <= Passed'
      BY <1>1, <1>2, <1>5, <2>1, <3>1, PassedTyped
    <3> QED
      BY <3>2 DEF Missed
  <2>3. Missed(Passed)' \subseteq kept' \ seen'
    BY DEF Missed
  <2>4. kept' \ seen' = Missed(Passed)'
    BY <2>2, <2>3
  <2> QED
    BY <1>7, <2>4
<1> QED
  BY <1>1, <1>4, <1>7, <1>8 DEF ListsWalked

\* A client that goes on asks for the rows from where it is, and one that ends
\* has passed them all.
LEMMA FetchCountWalked ==
    ASSUME ListsWalked, FetchCount
    PROVE  ListsWalked'
<1>1. /\ ListsTyped /\ kept \subseteq Range(list)
      /\ walk = "count" /\ Cardinality(Missed(Passed)) <= shifts
      /\ UNCHANGED <<kind, list, seen, kept, shifts, changes>>
  BY DEF ListsWalked, FetchCount
<1>2. Passed = page * PageSize
  BY <1>1 DEF Passed
<1>3. CASE page * PageSize < Len(list)
  <2>1. walk' = "items" /\ page' = page + 1
    BY <1>3 DEF FetchCount
  <2>2. Passed' = Skip(page + 1)
    BY <2>1 DEF Passed, Skip
  <2>3. Passed' = Passed
    BY <1>1, <1>2, <2>2, PassedTyped
  <2>4. Missed(Passed)' = Missed(Passed)
    BY <1>1, <2>3 DEF Missed
  <2>5. ListsTyped'
    BY <1>1, <2>1 DEF ListsTyped
  <2>6. Cardinality(Missed(Passed)') <= shifts'
    BY <1>1, <2>4
  <2> QED
    BY <1>1, <2>1, <2>5, <2>6 DEF ListsWalked, WalksMissFew
<1>4. CASE ~(page * PageSize < Len(list))
  <2>1. walk' = "done" /\ page' = page
    BY <1>4 DEF FetchCount
  <2>2. Len(list) <= page * PageSize
    <3>1. Len(list) \in Nat /\ page * PageSize \in Nat
      BY <1>1, ListFacts, PassedTyped
    <3> QED
      BY <1>4, <3>1
  <2>3. kept \ seen = Missed(Passed)
    <3>1. \A x \in kept \ seen : x \in Missed(page * PageSize)
      <4> SUFFICES ASSUME NEW x \in kept \ seen  PROVE x \in Missed(page * PageSize)
        OBVIOUS
      <4>1. PICK i \in 1 .. Len(list) : list[i] = x
        BY <1>1, ListFacts
      <4>2. /\ i \in DOMAIN list /\ i <= page * PageSize
        <5>1. /\ Len(list) \in Nat /\ DOMAIN list = 1 .. Len(list)
              /\ page * PageSize \in Nat
          BY <1>1, ListFacts, PassedTyped
        <5> QED
          BY <2>2, <5>1
      <4> QED
        BY <4>1, <4>2 DEF Missed
    <3>2. Missed(page * PageSize) \subseteq kept \ seen
      BY DEF Missed
    <3> QED
      BY <1>2, <3>1, <3>2
  <2>4. Cardinality(kept' \ seen') <= shifts'
    BY <1>1, <2>3
  <2>5. ListsTyped'
    BY <1>1, <2>1 DEF ListsTyped
  <2> QED
    BY <1>1, <2>1, <2>4, <2>5 DEF ListsWalked, WalksMissFew
<1> QED
  BY <1>3, <1>4

-----------------------------------------------------------------------------
(* The theorems *)

\* ListsWalked holds at the start of every walk and after each of its steps.
THEOREM ListsInductive == ListsSpec => []ListsWalked
<1>1. ListsInit => ListsWalked
  BY ListsBegin
<1>2. ListsWalked /\ [ListsNext]_listVars => ListsWalked'
  <2> SUFFICES ASSUME ListsWalked, [ListsNext]_listVars
               PROVE  ListsWalked'
    OBVIOUS
  <2>0. Len(list) \in Nat
    BY ListFacts DEF ListsWalked
  <2>1. CASE \E r \in Rows : Enter(r) \/ ComeBack(r)
    <3>1. PICK r \in Rows : Enter(r) \/ ComeBack(r)
      BY <2>1
    <3>2. \E i \in 1 .. Len(list) + 1 : Insert(r, i)
      BY <2>0, <3>1 DEF Enter, ComeBack
    <3> QED
      BY <3>2, InsertWalked
  <2>2. CASE \E r \in Rows : Touch(r) \/ TouchStale(r)
    <3>1. PICK r \in Rows : Touch(r) \/ TouchStale(r)
      BY <2>2
    <3>2. DOMAIN list = 1 .. Len(list) /\ ListsTyped
      BY ListFacts DEF ListsWalked
    <3>3. \E i \in 1 .. Len(list) : Move(r, i)
      <4>1. CASE Touch(r)
        <5>1. r \in Range(list)
          BY <4>1 DEF Touch, Move
        <5>2. 1 \in 1 .. Len(list)
          BY <2>0, <3>2, <5>1, ListFacts
        <5> QED
          BY <4>1, <5>2 DEF Touch
      <4>2. CASE TouchStale(r)
        BY <3>2, <4>2 DEF TouchStale
      <4> QED
        BY <3>1, <4>1, <4>2
    <3> QED
      BY <3>3, MoveWalked
  <2>3. CASE \E r \in Rows : Delete(r)
    BY <2>3, DropWalked DEF Delete
  <2>4. CASE \E r \in Rows : MarkAsRead(r)
    BY <2>4, DropWalked DEF MarkAsRead
  <2>5. CASE \E r \in Rows : LeaveStatus(r)
    BY <2>5, DropWalked DEF LeaveStatus
  <2>6. CASE FetchItems
    BY <2>6, FetchItemsWalked
  <2>7. CASE FetchCount
    BY <2>7, FetchCountWalked
  <2>8. CASE UNCHANGED listVars
    BY <2>8 DEF listVars, ListsWalked, ListsTyped, Missed, Passed, Skip, WalksMissFew
  <2> QED
    BY <2>1, <2>2, <2>3, <2>4, <2>5, <2>6, <2>7, <2>8 DEF ListsNext
<1> QED
  BY <1>1, <1>2, PTL DEF ListsSpec

\* The variables of a walk have their types: above all, a row that an update
\* moves is in the list once.
THEOREM ListsTypeCorrect == ListsSpec => []ListsTyped
<1>1. ListsWalked => ListsTyped
  BY DEF ListsWalked
<1> QED
  BY <1>1, ListsInductive, PTL

\* A client that walks all pages of files, tasks, notifications or comments
\* misses at most one of the rows that stayed for each time a row left or moved
\* back meanwhile: skip and take lose nothing when rows only come and move to
\* the front.
THEOREM WalksLoseFew == ListsSpec => []WalksMissFew
<1>1. ListsWalked => WalksMissFew
  BY DEF ListsWalked
<1> QED
  BY <1>1, ListsInductive, PTL
=============================================================================
