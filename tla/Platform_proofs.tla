--------------------------- MODULE Platform_proofs ---------------------------
(***************************************************************************)
(* What the commands that show events print, and what holds of the         *)
(* optimizer objects, for any size of a page, any set of users and however *)
(* many events, faults and commands at a time there are.                   *)
(***************************************************************************)
EXTENDS EventQueries, Optimizers, FiniteSetTheorems, SequenceTheorems, TLAPS

-----------------------------------------------------------------------------
(* Sequences of events                                                     *)

\* The events of a sequence are in the order of their times, all after a and none after b ...
Ascending(s, a, b) ==
  /\ s \in Seq(Int)
  /\ \A i \in DOMAIN s : a < s[i] /\ s[i] <= b
  /\ \A i, j \in DOMAIN s : i < j => s[i] < s[j]

\* ... or from the newest to the oldest ...
Descending(s, a, b) ==
  /\ s \in Seq(Int)
  /\ \A i \in DOMAIN s : a < s[i] /\ s[i] <= b
  /\ \A i, j \in DOMAIN s : i < j => s[j] < s[i]

\* ... and none of these is left out.
Gapless(s, a, b) == \A e \in Int : a < e /\ e <= b => \E i \in DOMAIN s : s[i] = e

Fetched(s, a, b, lossy) == Ascending(s, a, b) /\ (lossy \/ Gapless(s, a, b))

LEMMA NoEvents ==
    ASSUME NEW a, NEW b
    PROVE  Ascending(<<>>, a, b) /\ Descending(<<>>, a, b)
BY EmptySeq DEF Ascending, Descending

LEMMA NoEventsGapless ==
    ASSUME NEW a \in Int
    PROVE  Gapless(<<>>, a, a)
BY DEF Gapless

LEMMA AscendingConcat ==
    ASSUME NEW a \in Int, NEW b \in Int, NEW c \in Int, a <= b, b <= c,
           NEW s, NEW t, Ascending(s, a, b), Ascending(t, b, c)
    PROVE  Ascending(s \o t, a, c)
<1> DEFINE st == s \o t
           m == Len(s)
           n == Len(t)
<1>1. s \in Seq(Int) /\ t \in Seq(Int)
  BY DEF Ascending
<1>2. m \in Nat /\ n \in Nat /\ DOMAIN s = 1..m /\ DOMAIN t = 1..n
  BY <1>1, LenProperties
<1>3. st \in Seq(Int) /\ DOMAIN st = 1..(m + n)
  BY <1>1, ConcatProperties, LenProperties
<1>4. \A i \in 1..(m + n) : st[i] = IF i <= m THEN s[i] ELSE t[i - m]
  BY <1>1, ConcatProperties
<1>5. /\ \A i \in 1..m : s[i] \in Int /\ a < s[i] /\ s[i] <= b
      /\ \A i, j \in 1..m : i < j => s[i] < s[j]
  BY <1>1, <1>2, ElementOfSeq DEF Ascending
<1>6. /\ \A i \in 1..n : t[i] \in Int /\ b < t[i] /\ t[i] <= c
      /\ \A i, j \in 1..n : i < j => t[i] < t[j]
  BY <1>1, <1>2, ElementOfSeq DEF Ascending
<1> HIDE DEF st, m, n
<1>7. \A i \in 1..(m + n) : (i <= m => i \in 1..m) /\ (~ (i <= m) => i - m \in 1..n)
  BY <1>2
<1>8. \A i \in 1..(m + n) : a < st[i] /\ st[i] <= c
  BY <1>4, <1>5, <1>6, <1>7
<1>9. ASSUME NEW i \in 1..(m + n), NEW j \in 1..(m + n), i < j
      PROVE  st[i] < st[j]
  <2>1. CASE j <= m
    <3>1. i \in 1..m /\ j \in 1..m
      BY <1>2, <1>9, <2>1
    <3>2. st[i] = s[i] /\ st[j] = s[j]
      BY <1>2, <1>4, <3>1
    <3> QED BY <1>5, <1>9, <3>1, <3>2
  <2>2. CASE i <= m /\ ~ (j <= m)
    <3>1. st[i] = s[i] /\ st[j] = t[j - m]
      BY <1>4, <2>2
    <3>2. i \in 1..m /\ j - m \in 1..n
      BY <1>7, <2>2
    <3> QED BY <1>5, <1>6, <3>1, <3>2
  <2>3. CASE ~ (i <= m)
    <3>1. i - m \in 1..n /\ j - m \in 1..n /\ i - m < j - m
      BY <1>2, <1>9, <2>3
    <3>2. st[i] = t[i - m] /\ st[j] = t[j - m]
      BY <1>2, <1>4, <1>9, <2>3
    <3> QED BY <1>6, <3>1, <3>2
  <2> QED BY <2>1, <2>2, <2>3
<1> QED BY <1>3, <1>8, <1>9 DEF Ascending, st

LEMMA GaplessConcat ==
    ASSUME NEW a \in Int, NEW b \in Int, NEW c \in Int,
           NEW s \in Seq(Int), NEW t \in Seq(Int), Gapless(s, a, b), Gapless(t, b, c)
    PROVE  Gapless(s \o t, a, c)
<1> DEFINE st == s \o t
           m == Len(s)
           n == Len(t)
<1>1. m \in Nat /\ n \in Nat /\ DOMAIN s = 1..m /\ DOMAIN t = 1..n
  BY LenProperties
<1>2. DOMAIN st = 1..(m + n)
  BY ConcatProperties, LenProperties
<1>3. \A i \in 1..(m + n) : st[i] = IF i <= m THEN s[i] ELSE t[i - m]
  BY ConcatProperties
<1> HIDE DEF st, m, n
<1>4. ASSUME NEW e \in Int, a < e, e <= c
      PROVE  \E i \in 1..(m + n) : st[i] = e
  <2>1. CASE e <= b
    <3>1. PICK i \in 1..m : s[i] = e
      BY <1>1, <1>4, <2>1 DEF Gapless
    <3>2. i \in 1..(m + n) /\ i <= m
      BY <1>1
    <3> QED BY <1>3, <3>1, <3>2
  <2>2. CASE ~ (e <= b)
    <3>1. PICK i \in 1..n : t[i] = e
      BY <1>1, <1>4, <2>2 DEF Gapless
    <3>2. i + m \in 1..(m + n) /\ ~ (i + m <= m) /\ (i + m) - m = i
      BY <1>1
    <3> QED BY <1>3, <3>1, <3>2
  <2> QED BY <2>1, <2>2
<1> QED BY <1>2, <1>4 DEF Gapless, st

\* What is fetched is joined to what is there.
LEMMA FetchedConcat ==
    ASSUME NEW a \in Int, NEW b \in Int, NEW c \in Int, a <= b, b <= c, NEW s, NEW t,
           NEW before, NEW page, NEW lossy, before => lossy, page => lossy,
           Fetched(s, a, b, before), Fetched(t, b, c, page)
    PROVE  Fetched(s \o t, a, c, lossy)
<1>1. Ascending(s, a, b) /\ Ascending(t, b, c)
  BY DEF Fetched
<1>2. s \in Seq(Int) /\ t \in Seq(Int)
  BY <1>1 DEF Ascending
<1>3. Ascending(s \o t, a, c)
  BY <1>1, AscendingConcat
<1>4. CASE lossy
  BY <1>3, <1>4 DEF Fetched
<1>5. CASE ~lossy
  <2>1. Gapless(s, a, b) /\ Gapless(t, b, c)
    BY <1>5 DEF Fetched
  <2> QED BY <1>2, <1>3, <2>1, GaplessConcat DEF Fetched
<1> QED BY <1>4, <1>5

\* Neighbours in a sequence without gaps are one apart.
LEMMA NeighboursUp ==
    ASSUME NEW a \in Int, NEW b \in Int, NEW s, Ascending(s, a, b),
           NEW i \in 1..(Len(s) - 1)
    PROVE  s[i + 1] - s[i] >= 1 /\ (Gapless(s, a, b) => s[i + 1] - s[i] = 1)
<1>1. s \in Seq(Int) /\ Len(s) \in Nat /\ DOMAIN s = 1..Len(s)
  BY LenProperties DEF Ascending
<1>2. i \in DOMAIN s /\ i + 1 \in DOMAIN s /\ i < i + 1
  BY <1>1
<1>3. \A k \in DOMAIN s : s[k] \in Int
  BY <1>1, ElementOfSeq
<1>4. s[i] < s[i + 1] /\ a < s[i] /\ s[i + 1] <= b
  BY <1>2 DEF Ascending
<1>5. ASSUME Gapless(s, a, b), s[i + 1] - s[i] # 1 PROVE FALSE
  <2> DEFINE e == s[i] + 1
  <2>1. e \in Int /\ a < e /\ e <= b /\ s[i] < e /\ e < s[i + 1]
    BY <1>2, <1>3, <1>4, <1>5
  <2>2. PICK k \in DOMAIN s : s[k] = e
    BY <1>5, <2>1 DEF Gapless
  <2> HIDE DEF e
  <2>3. ~ (k <= i)
    <3> SUFFICES ASSUME k <= i PROVE FALSE
      OBVIOUS
    <3>1. k = i \/ k < i
      BY <1>1
    <3>2. s[k] <= s[i]
      BY <1>2, <1>3, <3>1 DEF Ascending
    <3> QED BY <1>2, <1>3, <2>1, <2>2, <3>2
  <2>4. ~ (k >= i + 1)
    <3> SUFFICES ASSUME k >= i + 1 PROVE FALSE
      OBVIOUS
    <3>1. k = i + 1 \/ i + 1 < k
      BY <1>1
    <3>2. s[i + 1] <= s[k]
      BY <1>2, <1>3, <3>1 DEF Ascending
    <3> QED BY <1>2, <1>3, <2>1, <2>2, <3>2
  <2> QED BY <1>1, <2>3, <2>4
<1> QED BY <1>2, <1>3, <1>4, <1>5

LEMMA NeighboursDown ==
    ASSUME NEW a \in Int, NEW b \in Int, NEW s, Descending(s, a, b), Gapless(s, a, b),
           NEW i \in 1..(Len(s) - 1)
    PROVE  s[i] - s[i + 1] = 1
<1>1. s \in Seq(Int) /\ Len(s) \in Nat /\ DOMAIN s = 1..Len(s)
  BY LenProperties DEF Descending
<1>2. i \in DOMAIN s /\ i + 1 \in DOMAIN s /\ i < i + 1
  BY <1>1
<1>3. \A k \in DOMAIN s : s[k] \in Int
  BY <1>1, ElementOfSeq
<1>4. s[i + 1] < s[i] /\ a < s[i + 1] /\ s[i] <= b
  BY <1>2 DEF Descending
<1>5. ASSUME s[i] - s[i + 1] # 1 PROVE FALSE
  <2> DEFINE e == s[i + 1] + 1
  <2>1. e \in Int /\ a < e /\ e <= b /\ e < s[i] /\ s[i + 1] < e
    BY <1>2, <1>3, <1>4, <1>5
  <2>2. PICK k \in DOMAIN s : s[k] = e
    BY <2>1 DEF Gapless
  <2> HIDE DEF e
  <2>3. ~ (k <= i)
    <3> SUFFICES ASSUME k <= i PROVE FALSE
      OBVIOUS
    <3>1. k = i \/ k < i
      BY <1>1
    <3>2. s[i] <= s[k]
      BY <1>2, <1>3, <3>1 DEF Descending
    <3> QED BY <1>2, <1>3, <2>1, <2>2, <3>2
  <2>4. ~ (k >= i + 1)
    <3> SUFFICES ASSUME k >= i + 1 PROVE FALSE
      OBVIOUS
    <3>1. k = i + 1 \/ i + 1 < k
      BY <1>1
    <3>2. s[k] <= s[i + 1]
      BY <1>2, <1>3, <3>1 DEF Descending
    <3> QED BY <1>2, <1>3, <2>1, <2>2, <3>2
  <2> QED BY <1>1, <2>3, <2>4
<1> QED BY <1>2, <1>3, <1>5

\* A page of the service has the events after the cursor ...
LEMMA PageAscends ==
    ASSUME NEW a \in Int, NEW b \in Int, a <= b
    PROVE  LET s == [i \in 1..(b - a) |-> a + i] IN Ascending(s, a, b) /\ Gapless(s, a, b)
<1> DEFINE n == b - a
           s == [i \in 1..n |-> a + i]
<1>1. n \in Nat
  OBVIOUS
<1>2. s \in [1..n -> Int]
  OBVIOUS
<1> HIDE DEF s
<1>3. s \in Seq(Int)
  BY <1>1, <1>2, SeqDef
<1>4. DOMAIN s = 1..n /\ \A i \in 1..n : s[i] = a + i
  BY DEF s
<1>5. Ascending(s, a, b)
  BY <1>3, <1>4 DEF Ascending
<1>6. ASSUME NEW e \in Int, a < e, e <= b PROVE \E i \in DOMAIN s : s[i] = e
  <2>1. e - a \in 1..n /\ a + (e - a) = e
    BY <1>6
  <2> QED BY <1>4, <2>1
<1> QED BY <1>5, <1>6 DEF Gapless, s

\* ... or the newest there are.
LEMMA NewestDescends ==
    ASSUME NEW n \in Nat, NEW b \in Int
    PROVE  LET s == [i \in 1..n |-> b + 1 - i] IN Descending(s, b - n, b) /\ Gapless(s, b - n, b)
<1> DEFINE s == [i \in 1..n |-> b + 1 - i]
<1>2. s \in [1..n -> Int]
  OBVIOUS
<1> HIDE DEF s
<1>3. s \in Seq(Int)
  BY <1>2, SeqDef
<1>4. DOMAIN s = 1..n /\ \A i \in 1..n : s[i] = b + 1 - i
  BY DEF s
<1>5. Descending(s, b - n, b)
  BY <1>3, <1>4 DEF Descending
<1>6. ASSUME NEW e \in Int, b - n < e, e <= b PROVE \E i \in DOMAIN s : s[i] = e
  <2>1. b + 1 - e \in 1..n /\ b + 1 - (b + 1 - e) = e
    BY <1>6
  <2> QED BY <1>4, <2>1
<1> QED BY <1>5, <1>6 DEF Gapless, s

LEMMA RemoveOne ==
    ASSUME NEW s \in Seq(Int), NEW k \in DOMAIN s
    PROVE  /\ RemoveAt(s, k) \in Seq(Int)
           /\ DOMAIN RemoveAt(s, k) = 1..(Len(s) - 1)
           /\ \A i \in 1..(Len(s) - 1) : RemoveAt(s, k)[i] = s[IF i < k THEN i ELSE i + 1]
<1> DEFINE n == Len(s)
           u == SubSeq(s, 1, k - 1)
           v == SubSeq(s, k + 1, n)
<1>1. n \in Nat /\ k \in 1..n /\ DOMAIN s = 1..n /\ \A i \in 1..n : s[i] \in Int
  BY LenProperties, ElementOfSeq
<1> HIDE DEF n
<1>2. u \in Seq(Int) /\ Len(u) = k - 1 /\ \A i \in 1..(k - 1) : u[i] = s[i]
  <2>1. \A i \in 1..(k - 1) : s[i] \in Int
    BY <1>1
  <2>2. k - 1 \in Int
    BY <1>1
  <2>3. u \in Seq(Int) /\ Len(u) = IF 1 <= k - 1 THEN k - 1 - 1 + 1 ELSE 0
    BY <2>1, <2>2, SubSeqProperties, SMTT(30)
  <2>4. \A i \in 1..(k - 1 - 1 + 1) : u[i] = s[1 + i - 1]
    BY <2>1, <2>2, SubSeqProperties, SMTT(30)
  <2> HIDE DEF u
  <2>5. Len(u) = k - 1
    BY <1>1, <2>3
  <2>6. \A i \in 1..(k - 1) : i \in 1..(k - 1 - 1 + 1) /\ 1 + i - 1 = i
    BY <1>1
  <2> QED BY <2>3, <2>4, <2>5, <2>6
<1>3. v \in Seq(Int) /\ Len(v) = n - k /\ \A i \in 1..(n - k) : v[i] = s[k + i]
  <2>1. \A i \in (k + 1)..n : s[i] \in Int
    BY <1>1
  <2>2. k + 1 \in Int /\ n \in Int
    BY <1>1
  <2>3. v \in Seq(Int) /\ Len(v) = IF k + 1 <= n THEN n - (k + 1) + 1 ELSE 0
    BY <2>1, <2>2, SubSeqProperties, SMTT(30)
  <2>4. \A i \in 1..(n - (k + 1) + 1) : v[i] = s[k + 1 + i - 1]
    BY <2>1, <2>2, SubSeqProperties, SMTT(30)
  <2> HIDE DEF v
  <2>5. Len(v) = n - k
    BY <1>1, <2>3
  <2>6. \A i \in 1..(n - k) : i \in 1..(n - (k + 1) + 1) /\ k + 1 + i - 1 = k + i
    BY <1>1
  <2> QED BY <2>3, <2>4, <2>5, <2>6
<1> HIDE DEF u, v
<1>4. /\ u \o v \in Seq(Int) /\ Len(u \o v) = Len(u) + Len(v)
      /\ \A i \in 1..(Len(u) + Len(v)) : (u \o v)[i] = IF i <= Len(u) THEN u[i] ELSE v[i - Len(u)]
  BY <1>2, <1>3, ConcatProperties
<1>5. Len(u) + Len(v) = n - 1
  BY <1>1, <1>2, <1>3
<1>6. DOMAIN (u \o v) = 1..(n - 1)
  BY <1>4, <1>5, LenProperties
<1>7. ASSUME NEW i \in 1..(n - 1) PROVE (u \o v)[i] = s[IF i < k THEN i ELSE i + 1]
  <2>1. (u \o v)[i] = IF i <= k - 1 THEN u[i] ELSE v[i - (k - 1)]
    BY <1>2, <1>4, <1>5
  <2>2. CASE i < k
    <3>1. i \in 1..(k - 1) /\ i <= k - 1
      BY <1>1, <2>2
    <3> QED BY <1>2, <2>1, <2>2, <3>1
  <2>3. CASE ~ (i < k)
    <3>1. i - (k - 1) \in 1..(n - k) /\ ~ (i <= k - 1) /\ k + (i - (k - 1)) = i + 1
      BY <1>1, <2>3
    <3> QED BY <1>3, <2>1, <2>3, <3>1
  <2> QED BY <2>2, <2>3
<1> QED BY <1>4, <1>6, <1>7 DEF RemoveAt, u, v, n

\* A page that misses a row is still in order.
LEMMA RemoveAscends ==
    ASSUME NEW a \in Int, NEW b \in Int, NEW s, Ascending(s, a, b), NEW k \in DOMAIN s
    PROVE  Ascending(RemoveAt(s, k), a, b)
<1> DEFINE r == RemoveAt(s, k)
           n == Len(s)
           From(i) == IF i < k THEN i ELSE i + 1
<1>1. s \in Seq(Int) /\ n \in Nat /\ DOMAIN s = 1..n /\ k \in 1..n
  BY LenProperties DEF Ascending
<1>2. r \in Seq(Int) /\ DOMAIN r = 1..(n - 1) /\ \A i \in 1..(n - 1) : r[i] = s[From(i)]
  BY <1>1, RemoveOne
<1> HIDE DEF r, n
<1>3. \A i \in 1..(n - 1) : From(i) \in DOMAIN s
  BY <1>1
<1>4. \A i, j \in 1..(n - 1) : i < j => From(i) < From(j)
  BY <1>1
<1> HIDE DEF From
<1>5. \A i \in DOMAIN r : a < r[i] /\ r[i] <= b
  BY <1>2, <1>3 DEF Ascending
<1>6. \A i, j \in DOMAIN r : i < j => r[i] < r[j]
  BY <1>2, <1>3, <1>4 DEF Ascending
<1> QED BY <1>2, <1>5, <1>6 DEF Ascending, r

LEMMA ReverseAscends ==
    ASSUME NEW a \in Int, NEW b \in Int, NEW s, Descending(s, a, b), Gapless(s, a, b)
    PROVE  Ascending(Reverse(s), a, b) /\ Gapless(Reverse(s), a, b)
<1> DEFINE r == Reverse(s)
           n == Len(s)
<1>1. s \in Seq(Int) /\ n \in Nat /\ DOMAIN s = 1..n
  BY LenProperties DEF Descending
<1>2. \A i \in 1..n : n - i + 1 \in 1..n /\ n - (n - i + 1) + 1 = i
  BY <1>1
<1>3. DOMAIN r = 1..n /\ \A i \in 1..n : r[i] = s[n - i + 1]
  BY DEF Reverse
<1>4. r \in [1..n -> Int]
  <2>1. \A i \in 1..n : s[n - i + 1] \in Int
    BY <1>1, <1>2, ElementOfSeq
  <2> QED BY <2>1 DEF Reverse
<1>5. r \in Seq(Int)
  BY <1>1, <1>4, SeqDef
<1> HIDE DEF r, n
<1>6. \A i \in DOMAIN r : a < r[i] /\ r[i] <= b
  BY <1>1, <1>2, <1>3 DEF Descending
<1>7. \A i, j \in 1..n : i < j => n - j + 1 < n - i + 1
  BY <1>1
<1>8. ASSUME NEW i \in 1..n, NEW j \in 1..n, i < j
      PROVE  r[i] < r[j]
  <2>1. s[n - i + 1] < s[n - j + 1]
    BY <1>1, <1>2, <1>7, <1>8 DEF Descending
  <2> QED BY <1>3, <2>1
<1>9. ASSUME NEW e \in Int, a < e, e <= b PROVE \E i \in DOMAIN r : r[i] = e
  <2>1. PICK i \in 1..n : s[i] = e
    BY <1>1, <1>9 DEF Gapless
  <2> QED BY <1>2, <1>3, <2>1
<1> QED BY <1>3, <1>5, <1>6, <1>8, <1>9 DEF Ascending, Gapless, r

LEMMA Prefix ==
    ASSUME NEW s \in Seq(Int), NEW t \in Seq(Int), NEW i \in 1..(Len(s) - 1)
    PROVE  /\ (s \o t)[i] = s[i] /\ (s \o t)[i + 1] = s[i + 1]
           /\ i \in 1..(Len(s \o t) - 1)
<1>1. Len(s) \in Nat /\ Len(t) \in Nat
  BY LenProperties
<1>2. /\ Len(s \o t) = Len(s) + Len(t)
      /\ \A k \in 1..(Len(s) + Len(t)) : (s \o t)[k] = IF k <= Len(s) THEN s[k] ELSE t[k - Len(s)]
  BY ConcatProperties
<1>3. /\ i \in 1..(Len(s) + Len(t)) /\ i <= Len(s)
      /\ i + 1 \in 1..(Len(s) + Len(t)) /\ i + 1 <= Len(s)
  BY <1>1
<1> QED BY <1>1, <1>2, <1>3

LEMMA ReverseType ==
    ASSUME NEW s \in Seq(Int)
    PROVE  Reverse(s) \in Seq(Int)
<1> DEFINE n == Len(s)
<1>1. n \in Nat /\ DOMAIN s = 1..n
  BY LenProperties
<1>2. \A i \in 1..n : n - i + 1 \in 1..n
  BY <1>1
<1>3. \A i \in 1..n : s[n - i + 1] \in Int
  BY <1>2, ElementOfSeq
<1>4. Reverse(s) \in [1..n -> Int]
  BY <1>3 DEF Reverse
<1> QED BY <1>1, <1>4, SeqDef

LEMMA ThreeInARow ==
    ASSUME NEW s \in Seq(Int), NEW t \in Seq(Int), NEW u \in Seq(Int)
    PROVE  (s \o t) \o u = s \o (t \o u)
BY ConcatAssociative, SMTT(30)

LEMMA MinIs ==
    ASSUME NEW S \in SUBSET Int, NEW x \in S, \A y \in S : x <= y
    PROVE  Min(S) = x
<1>1. \A z \in S : (\A y \in S : z <= y) => z = x
  OBVIOUS
<1> QED BY <1>1 DEF Min

\* An event that is newer than all in the table goes to its top.
LEMMA InsertNewest ==
    ASSUME NEW t \in Seq(Int), NEW e \in Int, \A i \in DOMAIN t : t[i] < e
    PROVE  InsertByTime(t, e) = <<e>> \o t
<1> DEFINE n == Len(t)
           S == {i \in DOMAIN t : t[i] < e} \cup {n + 1}
<1>1. n \in Nat /\ DOMAIN t = 1..n
  BY LenProperties
<1>2. S = 1..(n + 1)
  BY <1>1
<1>3. Min(S) = 1
  <2>1. S \in SUBSET Int /\ 1 \in S /\ \A y \in S : 1 <= y
    BY <1>1, <1>2
  <2> HIDE DEF S
  <2> QED BY <2>1, MinIs
<1>4. InsertByTime(t, e) = InsertAt(t, 1, e)
  <2> HIDE DEF S
  <2> QED BY <1>3 DEF InsertByTime, S
<1>5. SubSeq(t, 1, 1 - 1) = <<>>
  BY SubSeqEmpty
<1>6. SubSeq(t, 1, n) = t
  BY SubSeqFull
<1>7. <<e>> \in Seq(Int)
  OBVIOUS
<1>8. <<>> \o <<e>> = <<e>>
  BY <1>7, ConcatEmptySeq
<1> QED BY <1>4, <1>5, <1>6, <1>8 DEF InsertAt

LEMMA TopOfTable ==
    ASSUME NEW a \in Int, 0 <= a, NEW t, Descending(t, 0, a), Gapless(t, 0, a)
    PROVE  /\ Descending(<<a + 1>> \o t, 0, a + 1)
           /\ Gapless(<<a + 1>> \o t, 0, a + 1)
<1> DEFINE n == Len(t)
           u == <<a + 1>> \o t
<1>1. t \in Seq(Int) /\ n \in Nat /\ DOMAIN t = 1..n
  BY LenProperties DEF Descending
<1>2. <<a + 1>> \in Seq(Int) /\ Len(<<a + 1>>) = 1
  OBVIOUS
<1>3. /\ u \in Seq(Int) /\ Len(u) = 1 + n
      /\ \A i \in 1..(1 + n) : u[i] = IF i <= 1 THEN <<a + 1>>[i] ELSE t[i - 1]
  BY <1>1, <1>2, ConcatProperties
<1>4. DOMAIN u = 1..(1 + n)
  BY <1>3, LenProperties
<1>5. u[1] = a + 1
  BY <1>1, <1>3
<1>6. \A i \in 2..(1 + n) : u[i] = t[i - 1] /\ i - 1 \in 1..n
  BY <1>1, <1>3
<1>7. /\ \A i \in 1..n : t[i] \in Int /\ 0 < t[i] /\ t[i] <= a
      /\ \A i, j \in 1..n : i < j => t[j] < t[i]
  BY <1>1, ElementOfSeq DEF Descending
<1> HIDE DEF u, n
<1>8. \A i \in 1..(1 + n) : i = 1 \/ i \in 2..(1 + n)
  BY <1>1
<1>9. \A i \in 1..(1 + n) : 0 < u[i] /\ u[i] <= a + 1
  BY <1>5, <1>6, <1>7, <1>8
<1>10. ASSUME NEW i \in 1..(1 + n), NEW j \in 1..(1 + n), i < j
       PROVE  u[j] < u[i]
  <2>1. j \in 2..(1 + n) /\ u[j] = t[j - 1] /\ j - 1 \in 1..n
    BY <1>1, <1>6, <1>10
  <2>2. CASE i = 1
    BY <1>5, <1>7, <2>1, <2>2
  <2>3. CASE i # 1
    <3>1. i \in 2..(1 + n)
      BY <1>8, <2>3
    <3>2. u[i] = t[i - 1] /\ i - 1 \in 1..n
      BY <1>6, <3>1
    <3>3. i - 1 < j - 1
      BY <1>10
    <3> QED BY <1>7, <2>1, <3>2, <3>3
  <2> QED BY <2>2, <2>3
<1>11. ASSUME NEW e \in Int, 0 < e, e <= a + 1
       PROVE  \E i \in 1..(1 + n) : u[i] = e
  <2>1. CASE e = a + 1
    BY <1>1, <1>5, <2>1
  <2>2. CASE e # a + 1
    <3>1. PICK i \in 1..n : t[i] = e
      BY <1>1, <1>11, <2>2 DEF Gapless
    <3>2. i + 1 \in 2..(1 + n) /\ i + 1 \in 1..(1 + n) /\ (i + 1) - 1 = i
      BY <1>1
    <3> QED BY <1>6, <3>1, <3>2
  <2> QED BY <2>1, <2>2
<1> QED BY <1>3, <1>4, <1>9, <1>10, <1>11 DEF Descending, Gapless, u

\* The first of the events after a is the next one, and the others come after that.
LEMMA NextOfPage ==
    ASSUME NEW a \in Int, NEW b \in Int, NEW s, Ascending(s, a, b), Gapless(s, a, b), s # <<>>
    PROVE  /\ Head(s) = a + 1 /\ a + 1 <= b
           /\ Ascending(Tail(s), a + 1, b) /\ Gapless(Tail(s), a + 1, b)
<1> DEFINE n == Len(s)
           t == Tail(s)
<1>1. s \in Seq(Int) /\ n \in Nat \ {0} /\ DOMAIN s = 1..n
  BY EmptySeq, LenProperties DEF Ascending
<1>2. /\ \A i \in 1..n : s[i] \in Int /\ a < s[i] /\ s[i] <= b
      /\ \A i, j \in 1..n : i < j => s[i] < s[j]
  BY <1>1, ElementOfSeq DEF Ascending
<1>3. Head(s) = s[1]
  BY <1>1
<1>4. t \in Seq(Int) /\ Len(t) = n - 1 /\ \A i \in 1..(n - 1) : t[i] = s[i + 1]
  BY <1>1, HeadTailProperties
<1>5. DOMAIN t = 1..(n - 1)
  BY <1>4, LenProperties
<1> HIDE DEF n, t
<1>6. 1 \in 1..n /\ \A i \in 1..n : i = 1 \/ 1 < i
  BY <1>1
<1>7. a + 1 <= b
  BY <1>2, <1>6
<1>8. s[1] = a + 1
  <2>1. PICK i \in 1..n : s[i] = a + 1
    BY <1>1, <1>7 DEF Gapless
  <2>2. s[1] <= s[i]
    BY <1>2, <1>6
  <2> QED BY <1>2, <1>6, <2>1, <2>2
<1>9. \A i \in 1..(n - 1) : i + 1 \in 1..n /\ 1 < i + 1
  BY <1>1
<1>10. \A i \in 1..(n - 1) : a + 1 < t[i] /\ t[i] <= b
  BY <1>2, <1>4, <1>6, <1>8, <1>9
<1>11. ASSUME NEW i \in 1..(n - 1), NEW j \in 1..(n - 1), i < j
       PROVE  t[i] < t[j]
  <2>1. i + 1 \in 1..n /\ j + 1 \in 1..n /\ i + 1 < j + 1
    BY <1>1, <1>11
  <2> QED BY <1>2, <1>4, <2>1
<1>12. ASSUME NEW e \in Int, a + 1 < e, e <= b
       PROVE  \E i \in 1..(n - 1) : t[i] = e
  <2>1. a < e
    BY <1>12
  <2>2. PICK i \in 1..n : s[i] = e
    BY <1>1, <1>12, <2>1 DEF Gapless
  <2>3. i # 1
    BY <1>8, <1>12, <2>2
  <2>4. i - 1 \in 1..(n - 1) /\ (i - 1) + 1 = i
    BY <1>1, <2>3
  <2> QED BY <1>4, <2>2, <2>4
<1> QED BY <1>3, <1>4, <1>5, <1>7, <1>8, <1>10, <1>11, <1>12 DEF Ascending, Gapless, t

-----------------------------------------------------------------------------
(* The inductive invariant                                                 *)

Answers == [kind : {"none", "rows", "nil", "empty", "nomain"}, errors : BOOLEAN, rows : Seq(Int),
            upTo : Nat, next : BOOLEAN]

Types ==
  /\ q \in Commands \cup {NoCommand}
  /\ qpc \in {"idle", "asks", "answered", "shows", "open", "done"}
  /\ phase \in {"ids", "rows", "blockers"} /\ later \in BOOLEAN /\ warned \in BOOLEAN
  /\ answer \in Answers
  /\ cursor \in Nat /\ produced \in Nat /\ atStart \in Nat
  /\ rows \in Seq(Int) /\ printed \in Seq(Int)
  /\ outcome \in {"none", "ok", "refused", "failed", "panicked", "interrupted"}

Querying == qpc \in {"asks", "answered"}

\* What the parts of a command have to do with one another.
Control ==
  /\ qpc = "idle" => phase = "ids" /\ outcome = "none"
  /\ phase = "ids" => printed = <<>> /\ atStart = 0 /\ qpc # "shows" /\ (qpc # "idle" => q.filter)
  /\ qpc # "idle" => q \in Commands
  /\ phase # "ids" => qpc # "idle"
  /\ phase = "blockers" => q.name = "recommendations"
  /\ phase = "rows" /\ Querying /\ ~later => rows = <<>> /\ cursor = 0 /\ printed = <<>>
  /\ outcome = "ok" => ~q.follow /\ ~q.interactive /\ (phase # "ids" => rows = <<>>)
  /\ outcome # "none" => qpc = "done"

\* Nothing is asked for beyond what there is.
Numbers ==
  /\ cursor <= Stock /\ atStart <= produced
  /\ qpc = "answered" => answer.upTo <= Stock

\* A page of rows brings what comes next after the cursor, and the last one all there is.
PageOK ==
  IF answer.kind = "rows"
  THEN /\ Fetched(answer.rows, cursor, answer.upTo, answer.errors)
       /\ cursor <= answer.upTo
       /\ answer.next \/ atStart <= answer.upTo
  ELSE answer.rows = <<>> /\ ~answer.next /\ (answer.errors \/ atStart <= cursor)

NewestOK == answer.kind = "rows" /\ ~answer.errors =>
              \E a, b \in Int : Descending(answer.rows, a, b) /\ Gapless(answer.rows, a, b)

AnswerOK ==
  qpc = "answered" =>
    /\ answer.kind # "none"
    /\ phase = "rows" => IF NewestFirst THEN NewestOK ELSE PageOK

\* What a plain command has printed and has in hand are the events up to n.
PlainUpTo(n) ==
  /\ Fetched(printed \o rows, 0, n, warned)
  /\ (phase = "rows" /\ Querying) \/ q.follow => n = cursor
  /\ phase = "blockers" \/ qpc = "shows" \/ outcome = "ok" =>
        q.count \/ q.follow \/ warned \/ atStart <= n
PlainOK ==
  q.name # "logs" /\ ~q.interactive /\ phase # "ids" => \E n \in Nat : PlainUpTo(n)

\* The table holds the events up to a, and those after it up to n are in hand.
TableUpTo(a, n) ==
  /\ a <= n
  /\ Descending(printed, 0, a) /\ Gapless(printed, 0, a)
  /\ Ascending(rows, a, n) /\ Gapless(rows, a, n)
  /\ Querying \/ q.follow => n = cursor
TableOK == q.interactive => \E a, n \in Nat : TableUpTo(a, n)

\* The newest logs are in hand, and are turned round when they are printed.
LogsOK ==
  NewestFirst =>
    /\ Querying => rows = <<>> /\ printed = <<>>
    /\ qpc = "shows" => /\ printed = <<>>
                        /\ \E a, b \in Int : Descending(rows, a, b) /\ Gapless(rows, a, b)
    /\ \E a, b \in Int : Ascending(printed, a, b) /\ Gapless(printed, a, b)

EventsInv == Types /\ Control /\ Numbers /\ AnswerOK /\ PlainOK /\ TableOK /\ LogsOK

\* Which flags go with which command.
CommandIs(c) ==
  /\ c.name \in {"none", "events", "recommendations", "servo", "report", "logs"}
  /\ c.filter \in BOOLEAN /\ c.count \in BOOLEAN /\ c.follow \in BOOLEAN /\ c.interactive \in BOOLEAN
  /\ c.filter => ~c.follow /\ ~c.interactive /\ c.name \in {"events", "recommendations"}
  /\ c.interactive => c.name = "events"
  /\ c.follow => c.name \in {"events", "logs"} /\ ~c.count
  /\ c.name = "logs" => c.count \/ c.follow

LEMMA CommandFacts ==
    ASSUME NEW c \in Commands \cup {NoCommand}
    PROVE  CommandIs(c)
<1>1. CASE c \in Commands
  BY <1>1 DEF Commands, CommandIs
<1>2. CASE c = NoCommand
  BY <1>2 DEF NoCommand, CommandIs
<1> QED BY <1>1, <1>2

LEMMA IdsOfCommand ==
    ASSUME NEW c \in Commands \cup {NoCommand}
    PROVE  c.ids \in Nat
<1>1. PageSize + 1 \in Nat
  BY EventsAssumption
<1>2. CASE c \in Commands
  <2>1. c.ids \in {0, PageSize + 1}
    BY <1>2 DEF Commands
  <2> QED BY <1>1, <2>1
<1>3. CASE c = NoCommand
  BY <1>3 DEF NoCommand
<1> QED BY <1>2, <1>3

LEMMA InitInv == EventsInit => EventsInv
<1> SUFFICES ASSUME EventsInit PROVE EventsInv
  OBVIOUS
<1> USE DEF EventsInit
<1>1. <<>> \in Seq(Int)
  BY EmptySeq
<1>2. NoPage \in Answers
  BY <1>1 DEF NoPage, Answers
<1>3. Types
  BY <1>1, <1>2 DEF Types
<1>4. Control
  BY DEF Control, NoCommand
<1>5. Numbers
  BY DEF Numbers, Stock, NoCommand
<1>6. AnswerOK /\ PlainOK
  BY DEF AnswerOK, PlainOK
<1>7. TableOK
  BY DEF TableOK, NoCommand
<1>8. LogsOK
  BY DEF LogsOK, NewestFirst, NoCommand
<1> QED BY <1>3, <1>4, <1>5, <1>6, <1>7, <1>8 DEF EventsInv

LEMMA ProduceStep ==
    ASSUME EventsInv, Produce
    PROVE  EventsInv'
<1> USE DEF Produce, client
<1>1. Types'
  BY DEF EventsInv, Types
<1>2. Control'
  BY DEF EventsInv, Control, Querying
<1>3. Stock <= Stock' /\ Stock \in Int /\ Stock' \in Int
  BY IdsOfCommand DEF EventsInv, Types, Stock
<1>4. Numbers'
  <2>1. answer.upTo \in Nat
    BY DEF EventsInv, Types, Answers
  <2> QED BY <1>3, <2>1 DEF EventsInv, Numbers, Types
<1>5. AnswerOK'
  BY DEF EventsInv, AnswerOK, PageOK, NewestOK, NewestFirst
<1>6. PlainOK'
  BY DEF EventsInv, PlainOK, PlainUpTo, Querying
<1>7. TableOK'
  BY DEF EventsInv, TableOK, TableUpTo, Querying
<1>8. LogsOK'
  BY DEF EventsInv, LogsOK, NewestFirst, Querying
<1> QED BY <1>1, <1>2, <1>4, <1>5, <1>6, <1>7, <1>8 DEF EventsInv

\* The command ends, but not well, or only the table is left.
LEMMA CloseStep ==
    ASSUME EventsInv, qpc # "idle", UNCHANGED <<client, answer, produced>>, warned' \in BOOLEAN,
           warned => warned',
           \/ qpc' = "done" /\ outcome' \in {"refused", "failed", "interrupted", "panicked"}
           \/ qpc' = "open" /\ outcome' = outcome /\ outcome = "none"
    PROVE  EventsInv'
<1> USE DEF client
<1>1. Types'
  BY DEF EventsInv, Types
<1>2. Control'
  BY DEF EventsInv, Control, Querying
<1>3. Numbers'
  BY DEF EventsInv, Numbers, Stock
<1>4. AnswerOK'
  BY DEF AnswerOK
<1>5. PlainOK'
  <2> SUFFICES ASSUME q.name # "logs", ~q.interactive, phase # "ids"
               PROVE  \E n \in Nat : PlainUpTo(n)'
    BY DEF PlainOK
  <2>1. PICK n \in Nat : PlainUpTo(n)
    BY DEF EventsInv, PlainOK
  <2>2. Fetched(printed' \o rows', 0, n, warned')
    BY <2>1 DEF PlainUpTo, Fetched
  <2>3. q.follow => n = cursor
    BY <2>1 DEF PlainUpTo
  <2>4. phase = "blockers" => q.count \/ q.follow \/ warned \/ atStart <= n
    BY <2>1 DEF PlainUpTo
  <2>5. ~ Querying' /\ qpc' # "shows" /\ outcome' # "ok"
    BY DEF Querying
  <2>6. PlainUpTo(n)'
    BY <2>2, <2>3, <2>4, <2>5 DEF PlainUpTo
  <2> QED BY <2>6
<1>6. TableOK'
  BY DEF EventsInv, TableOK, TableUpTo, Querying
<1>7. LogsOK'
  BY DEF EventsInv, LogsOK, NewestFirst, Querying
<1> QED BY <1>1, <1>2, <1>3, <1>4, <1>5, <1>6, <1>7 DEF EventsInv

LEMMA StartStep ==
    ASSUME EventsInv, StartCommand
    PROVE  EventsInv'
<1>1. /\ qpc = "idle" /\ q' \in Commands /\ qpc' = "asks" /\ later' = FALSE /\ cursor' = 0
      /\ rows' = <<>>
      /\ phase' = IF q'.filter THEN "ids" ELSE "rows"
      /\ atStart' = IF q'.filter THEN 0 ELSE produced
      /\ UNCHANGED <<answer, printed, warned, produced, outcome>>
  BY DEF StartCommand, Asks
<1>2. phase = "ids" /\ printed = <<>> /\ outcome = "none"
  BY <1>1 DEF EventsInv, Control
<1>3. CommandIs(q')
  BY <1>1, CommandFacts
<1>4. <<>> \in Seq(Int)
  BY EmptySeq
<1>5. Types'
  BY <1>1, <1>4 DEF EventsInv, Types
<1>6. Control'
  BY <1>1, <1>2, <1>3 DEF EventsInv, Control, Querying, CommandIs
<1>7. Numbers'
  <2>1. Stock' \in Nat
    BY <1>1, IdsOfCommand DEF EventsInv, Types, Stock
  <2>2. atStart' <= produced'
    BY <1>1, <1>3 DEF EventsInv, Types, CommandIs
  <2>3. cursor' <= Stock'
    BY <1>1, <2>1
  <2>4. qpc' # "answered"
    BY <1>1
  <2> QED BY <2>2, <2>3, <2>4 DEF Numbers
<1>8. AnswerOK'
  BY <1>1 DEF AnswerOK
<1>9. printed' \o rows' = <<>>
  BY <1>1, <1>2, <1>4, ConcatEmptySeq
<1>10. Ascending(<<>>, 0, 0) /\ Descending(<<>>, 0, 0) /\ Gapless(<<>>, 0, 0)
  BY NoEvents, NoEventsGapless
<1>11. PlainUpTo(0)'
  <2>1. Fetched(printed' \o rows', 0, 0, warned')
    BY <1>9, <1>10 DEF Fetched
  <2>2. phase' # "blockers" /\ qpc' # "shows" /\ outcome' # "ok"
    BY <1>1, <1>2
  <2> QED BY <1>1, <2>1, <2>2 DEF PlainUpTo
<1>12. PlainOK'
  BY <1>11 DEF PlainOK
<1>13. TableUpTo(0, 0)'
  BY <1>1, <1>2, <1>10 DEF TableUpTo
<1>14. TableOK'
  BY <1>13 DEF TableOK
<1>15. LogsOK'
  <2>1. \E a, b \in Int : Ascending(printed', a, b) /\ Gapless(printed', a, b)
    BY <1>1, <1>2, <1>10
  <2>2. qpc' # "shows" /\ rows' = <<>> /\ printed' = <<>>
    BY <1>1, <1>2
  <2> QED BY <2>1, <2>2 DEF LogsOK
<1> QED BY <1>5, <1>6, <1>7, <1>8, <1>12, <1>14, <1>15 DEF EventsInv

\* The end of the page that is asked for.
LEMMA PageEndIs ==
    ASSUME Types, Numbers
    PROVE  /\ Stock \in Nat /\ PageEnd \in Nat /\ cursor <= PageEnd /\ PageEnd <= Stock
           /\ PageEnd = cursor => Stock = cursor
<1>1. PageSize \in Nat /\ PageSize > 0
  BY EventsAssumption
<1>2. Stock \in Nat
  BY IdsOfCommand DEF Types, Stock
<1>3. cursor \in Nat /\ cursor <= Stock
  BY DEF Types, Numbers
<1> QED BY <1>1, <1>2, <1>3 DEF PageEnd, Smaller

\* The rows of the page, where the oldest come first.
LEMMA PageRowsUp ==
    ASSUME Types, Numbers, ~NewestFirst
    PROVE  Ascending(PageRows, cursor, PageEnd) /\ Gapless(PageRows, cursor, PageEnd)
<1>1. cursor \in Int /\ PageEnd \in Int /\ cursor <= PageEnd
  BY PageEndIs DEF Types
<1>2. PageRows = [i \in 1..(PageEnd - cursor) |-> cursor + i]
  BY DEF PageRows
<1> QED BY <1>1, <1>2, PageAscends

LEMMA PageRowsDown ==
    ASSUME Types, Numbers, NewestFirst
    PROVE  \E a, b \in Int : Descending(PageRows, a, b) /\ Gapless(PageRows, a, b)
<1> DEFINE n == Smaller(PageSize, Stock)
<1>1. n \in Nat /\ Stock \in Int
  BY PageEndIs, EventsAssumption DEF Smaller
<1>2. PageRows = [i \in 1..n |-> Stock + 1 - i]
  BY DEF PageRows
<1> HIDE DEF n
<1>3. Descending(PageRows, Stock - n, Stock) /\ Gapless(PageRows, Stock - n, Stock)
  BY <1>1, <1>2, NewestDescends
<1>4. Stock - n \in Int
  BY <1>1
<1> QED BY <1>1, <1>3, <1>4

LEMMA PageRowsType ==
    ASSUME Types, Numbers
    PROVE  PageRows \in Seq(Int)
BY PageRowsUp, PageRowsDown DEF Ascending, Descending

LEMMA RowsSentType ==
    ASSUME Types, Numbers, NEW errors, NEW sent \in RowsSent(errors)
    PROVE  sent \in Seq(Int)
BY PageRowsType, RemoveOne DEF RowsSent

LEMMA RowsSentAre ==
    ASSUME Types, Numbers, ~NewestFirst, NEW errors, NEW sent \in RowsSent(errors)
    PROVE  Fetched(sent, cursor, PageEnd, errors)
<1>1. Ascending(PageRows, cursor, PageEnd) /\ Gapless(PageRows, cursor, PageEnd)
  BY PageRowsUp
<1>2. cursor \in Int /\ PageEnd \in Int
  BY PageEndIs DEF Types
<1>3. CASE sent = PageRows
  BY <1>1, <1>3 DEF Fetched
<1>4. CASE sent # PageRows
  <2>1. errors /\ \E i \in DOMAIN PageRows : sent = RemoveAt(PageRows, i)
    BY <1>4 DEF RowsSent
  <2>2. Ascending(sent, cursor, PageEnd)
    BY <1>1, <1>2, <2>1, RemoveAscends
  <2> QED BY <2>1, <2>2 DEF Fetched
<1> QED BY <1>3, <1>4

LEMMA AnswerStep ==
    ASSUME EventsInv, ServiceAnswersPage
    PROVE  EventsInv'
<1>1. Types /\ Control /\ Numbers /\ PlainOK /\ TableOK /\ LogsOK
  BY DEF EventsInv
<1>2. /\ qpc = "asks" /\ qpc' = "answered"
      /\ UNCHANGED <<client, warned, produced, outcome>>
  BY DEF ServiceAnswersPage
<1>3. PICK kind \in Kinds, errors \in BOOLEAN :
         /\ kind = "rows" \/ PageRows = <<>> \/ errors
         /\ \E sent \in IF kind = "rows" THEN RowsSent(errors) ELSE {<<>>} :
              answer' = [kind |-> kind, errors |-> errors, rows |-> sent, upTo |-> PageEnd,
                         next |-> kind = "rows" /\ PageEnd < Stock]
  BY DEF ServiceAnswersPage
<1>4. PICK sent \in IF kind = "rows" THEN RowsSent(errors) ELSE {<<>>} :
         answer' = [kind |-> kind, errors |-> errors, rows |-> sent, upTo |-> PageEnd,
                    next |-> kind = "rows" /\ PageEnd < Stock]
  BY <1>3
<1>5. kind \in {"rows", "nil", "empty", "nomain"}
  BY DEF Kinds
<1>6. sent \in Seq(Int)
  BY <1>1, RowsSentType, EmptySeq
<1>7. answer'.kind = kind /\ answer'.errors = errors /\ answer'.rows = sent
  BY <1>4
<1>8. answer'.upTo = PageEnd
  BY <1>4
<1>9. answer'.next = (kind = "rows" /\ PageEnd < Stock)
  BY <1>4
<1>10. answer' \in Answers
  <2> DEFINE more == kind = "rows" /\ PageEnd < Stock
  <2>1. more \in BOOLEAN
    OBVIOUS
  <2>2. PageEnd \in Nat
    BY <1>1, PageEndIs
  <2>3. answer' = [kind |-> kind, errors |-> errors, rows |-> sent, upTo |-> PageEnd, next |-> more]
    BY <1>4
  <2> HIDE DEF more
  <2> QED BY <1>5, <1>6, <2>1, <2>2, <2>3 DEF Answers
<1>11. Types'
  BY <1>1, <1>2, <1>10 DEF Types, client
<1>12. Control'
  BY <1>1, <1>2 DEF Control, Querying, client
<1>13. Stock' = Stock
  BY <1>2 DEF Stock, client
<1>14. Numbers'
  BY <1>1, <1>2, <1>8, <1>13, PageEndIs DEF Numbers, client
<1>15. AnswerOK'
  <2>1. answer'.kind # "none"
    BY <1>5, <1>7
  <2>2. ASSUME phase = "rows", ~NewestFirst
        PROVE  PageOK'
    <3>1. Stock = produced
      BY <2>2 DEF Stock
    <3>2. atStart \in Nat /\ cursor \in Nat /\ produced \in Nat /\ atStart <= produced
      BY <1>1 DEF Types, Numbers
    <3>3. UNCHANGED <<cursor, atStart>>
      BY <1>2 DEF client
    <3>4. CASE kind = "rows"
      <4>1. Fetched(answer'.rows, cursor', answer'.upTo, answer'.errors)
        BY <1>1, <1>7, <1>8, <2>2, <3>3, <3>4, RowsSentAre
      <4>2. cursor <= PageEnd
        BY <1>1, PageEndIs
      <4>3. PageEnd < Stock \/ atStart <= PageEnd
        BY <1>1, <3>1, <3>2, PageEndIs
      <4> QED BY <1>7, <1>8, <1>9, <3>3, <3>4, <4>1, <4>2, <4>3 DEF PageOK
    <3>5. CASE kind # "rows"
      <4>1. sent = <<>> /\ (PageRows = <<>> \/ errors)
        BY <1>3, <3>5
      <4>2. errors \/ atStart <= cursor
        <5> SUFFICES ASSUME PageRows = <<>> PROVE atStart <= cursor
          BY <4>1
        <5>1. Gapless(<<>>, cursor, PageEnd)
          BY <1>1, <2>2, PageRowsUp
        <5>2. PageEnd = cursor
          <6>1. PageEnd \in Int /\ cursor <= PageEnd
            BY <1>1, PageEndIs
          <6>2. ~ (cursor < PageEnd)
            BY <5>1, <6>1 DEF Gapless
          <6> QED BY <3>2, <6>1, <6>2
        <5> QED BY <1>1, <3>1, <3>2, <5>2, PageEndIs
      <4> QED BY <1>7, <1>9, <3>3, <3>5, <4>1, <4>2 DEF PageOK
    <3> QED BY <3>4, <3>5
  <2>3. ASSUME NewestFirst
        PROVE  NewestOK'
    <3> SUFFICES ASSUME kind = "rows", ~errors
                 PROVE  \E a, b \in Int : Descending(sent, a, b) /\ Gapless(sent, a, b)
      BY <1>7 DEF NewestOK
    <3>1. sent = PageRows
      BY DEF RowsSent
    <3> QED BY <1>1, <2>3, <3>1, PageRowsDown
  <2>4. phase' = phase /\ NewestFirst' = NewestFirst
    BY <1>2 DEF client, NewestFirst
  <2> QED BY <2>1, <2>2, <2>3, <2>4 DEF AnswerOK
<1>16. PlainOK'
  BY <1>1, <1>2 DEF PlainOK, PlainUpTo, Querying, client
<1>17. TableOK'
  BY <1>1, <1>2 DEF TableOK, TableUpTo, Querying, client
<1>18. LogsOK'
  BY <1>1, <1>2 DEF LogsOK, NewestFirst, Querying, client
<1> QED BY <1>11, <1>12, <1>14, <1>15, <1>16, <1>17, <1>18 DEF EventsInv

\* The commands that follow, and the table, take nothing that may have been cut short.
LEMMA TakenIsWhole ==
    ASSUME phase = "rows", q.name \in {"events", "logs"}, NEW a,
           a.kind \in {"rows", "nil", "empty", "nomain"}, Treat(a) = "take"
    PROVE  a.kind = "rows" /\ ~a.errors
<1>1. CASE q.name = "events"
  <2>1. Treat(a) = TreatEvents(a)
    BY <1>1 DEF Treat
  <2>2. ~a.errors
    BY <2>1 DEF TreatEvents
  <2>3. a.kind \notin {"nil", "empty", "nomain"}
    BY <2>1, <2>2 DEF TreatEvents
  <2> QED BY <2>2, <2>3
<1>2. CASE q.name = "logs"
  <2>1. Treat(a) = TreatLogs(a)
    BY <1>2 DEF Treat
  <2>2. ~a.errors
    BY <2>1 DEF TreatLogs
  <2>3. a.kind = "rows"
    BY <2>1, <2>2 DEF TreatLogs
  <2> QED BY <2>2, <2>3
<1> QED BY <1>1, <1>2

\* The others may go on without a page, which is then not one of rows, or end well at the first.
LEMMA StoppedIs ==
    ASSUME phase \in {"ids", "rows", "blockers"}, phase = "blockers" => q.name = "recommendations",
           NEW a, Treat(a) \in {"stop", "none"}
    PROVE  /\ phase # "blockers"
           /\ phase = "rows" => q.name \notin {"events", "logs"} /\ a.kind # "rows"
           /\ Treat(a) = "none" => phase = "rows" /\ ~later
<1>1. CASE phase = "ids" \/ q.name = "report"
  <2>1. Treat(a) = TreatFlat(a)
    BY <1>1 DEF Treat
  <2>2. a.kind # "nomain" => TreatFlat(a) = "take"
    BY DEF TreatFlat
  <2>3. TreatFlat(a) \in {"stop", "take"}
    BY DEF TreatFlat
  <2>4. a.kind = "nomain" /\ Treat(a) = "stop"
    BY <2>1, <2>2, <2>3
  <2> QED BY <1>1, <2>4
<1>2. CASE ~ (phase = "ids" \/ q.name = "report") /\ phase = "blockers"
  <2>1. Treat(a) = TreatBlockers(a)
    BY <1>2 DEF Treat
  <2>2. TreatBlockers(a) \in {"fail", "take"}
    BY DEF TreatBlockers
  <2> QED BY <2>1, <2>2
<1>3. CASE phase = "rows" /\ q.name = "events"
  <2>1. Treat(a) = TreatEvents(a)
    BY <1>3 DEF Treat
  <2>2. TreatEvents(a) \in {"fail", "panic", "take"}
    BY DEF TreatEvents
  <2> QED BY <2>1, <2>2
<1>4. CASE phase = "rows" /\ q.name = "logs"
  <2>1. Treat(a) = TreatLogs(a)
    BY <1>4 DEF Treat
  <2>2. TreatLogs(a) \in {"fail", "panic", "take"}
    BY DEF TreatLogs
  <2> QED BY <2>1, <2>2
<1>5. CASE phase = "rows" /\ q.name \notin {"events", "logs", "report"}
  <2>1. Treat(a) = TreatNested(a)
    BY <1>5 DEF Treat
  <2>2. a.kind # "rows"
    BY <2>1 DEF TreatNested
  <2>3. Treat(a) = "none" => ~later
    <3>1. CASE a.kind \in {"nomain", "empty"} /\ ~later
      BY <3>1
    <3>2. CASE ~ (a.kind \in {"nomain", "empty"} /\ ~later)
      <4>1. TreatNested(a) \in {"stop", "fail", "panic", "take"}
        BY <3>2 DEF TreatNested
      <4> QED BY <2>1, <4>1
    <3> QED BY <3>1, <3>2
  <2> QED BY <1>5, <2>2, <2>3
<1> QED BY <1>1, <1>2, <1>3, <1>4, <1>5

\* The query is complete and its rows are in hand: the rows of the command are those up to n.
LEMMA CompleteStep ==
    ASSUME EventsInv, qpc = "answered", NEW rs \in Seq(Int), CompleteQuery(rs),
           UNCHANGED <<q, answer, printed, produced>>, warned' \in BOOLEAN, ~q.follow \/ phase # "rows",
           phase = "blockers" => rs = rows /\ (warned => warned'),
           phase = "rows" /\ q.name # "logs" /\ ~q.interactive =>
              \E n \in Nat : /\ Fetched(printed \o rs, 0, n, warned')
                             /\ q.count \/ warned' \/ atStart <= n,
           phase = "rows" /\ q.interactive =>
              \E a, n \in Nat : /\ a <= n /\ Descending(printed, 0, a) /\ Gapless(printed, 0, a)
                                /\ Ascending(rs, a, n) /\ Gapless(rs, a, n),
           phase = "rows" /\ NewestFirst =>
              \E a, b \in Int : Descending(rs, a, b) /\ Gapless(rs, a, b)
    PROVE  EventsInv'
<1> DEFINE End    == phase = "ids" /\ rs = <<>> /\ Closes("ok")
                       /\ UNCHANGED <<phase, later, cursor, rows, atStart>>
           Rows   == phase = "ids" /\ rs # <<>> /\ Asks("rows", FALSE, 0, <<>>)
                       /\ atStart' = produced /\ UNCHANGED outcome
           Blocks == phase = "rows" /\ q.name = "recommendations" /\ Asks("blockers", FALSE, 0, rs)
                       /\ UNCHANGED <<atStart, outcome>>
           Show   == (phase = "blockers" \/ (phase = "rows" /\ q.name # "recommendations"))
                       /\ qpc' = "shows" /\ rows' = rs
                       /\ UNCHANGED <<phase, later, cursor, atStart, outcome>>
<1>0. Types /\ Control /\ Numbers
  BY DEF EventsInv
<1>1. End \/ Rows \/ Blocks \/ Show
  BY DEF CompleteQuery
<1>2. CommandIs(q)
  BY <1>0, CommandFacts DEF Types
<1>3. <<>> \in Seq(Int)
  BY EmptySeq
<1>4. q \in Commands /\ outcome = "none" /\ (phase = "ids" => q.filter)
  BY <1>0 DEF Control
<1>5. qpc' # "answered"
  BY <1>1 DEF Closes, Asks
<1>6. AnswerOK'
  BY <1>5 DEF AnswerOK
<1>7. Types'
  <2>1. /\ qpc' \in {"done", "asks", "shows"} /\ (phase' = phase \/ phase' \in {"rows", "blockers"})
        /\ outcome' = outcome \/ outcome' = "ok"
    BY <1>1 DEF Closes, Asks
  <2>2. later' = later \/ later' = FALSE
    BY <1>1 DEF Asks
  <2>3. cursor' = cursor \/ cursor' = 0
    BY <1>1 DEF Asks
  <2>4. atStart' = atStart \/ atStart' = produced
    BY <1>1
  <2>5. rows' = rows \/ rows' = rs \/ rows' = <<>>
    BY <1>1 DEF Asks
  <2> HIDE DEF End, Rows, Blocks, Show
  <2>6. rows' \in Seq(Int)
    BY <1>0, <1>3, <2>5 DEF Types
  <2>7. cursor' \in Nat /\ atStart' \in Nat
    BY <1>0, <2>4, <2>3 DEF Types
  <2>8. /\ qpc' \in {"idle", "asks", "answered", "shows", "open", "done"}
        /\ phase' \in {"ids", "rows", "blockers"}
        /\ outcome' \in {"none", "ok", "refused", "failed", "panicked", "interrupted"}
    BY <1>0, <2>1 DEF Types
  <2>9. later' \in BOOLEAN
    BY <1>0, <2>2, Zenon DEF Types
  <2> QED BY <1>0, <2>7, <2>8, <2>9, <2>6 DEF Types
<1>8. Control'
  <2>1. CASE End
    BY <1>0, <1>2, <1>4, <2>1 DEF Control, Closes, CommandIs, Querying
  <2>2. CASE Rows
    BY <1>0, <1>4, <2>2 DEF Control, Asks, Querying
  <2>3. CASE Blocks
    BY <1>0, <1>4, <2>3 DEF Control, Asks, Querying
  <2>4. CASE Show
    BY <1>0, <1>4, <2>4 DEF Control, Querying
  <2> QED BY <1>1, <2>1, <2>2, <2>3, <2>4
<1>9. Numbers'
  <2>1. cursor' = cursor \/ cursor' = 0
    BY <1>1 DEF Asks
  <2>2. phase' = phase \/ cursor' = 0
    BY <1>1 DEF Asks
  <2>3. atStart' = atStart \/ atStart' = produced
    BY <1>1
  <2>4. Stock' \in Nat /\ (phase' = phase => Stock' = Stock)
    BY <1>7, IdsOfCommand DEF Types, Stock
  <2>5. cursor' <= Stock'
    BY <1>0, <2>1, <2>2, <2>4 DEF Numbers
  <2>6. atStart' <= produced'
    BY <1>0, <2>3 DEF Numbers, Types
  <2> QED BY <1>5, <2>5, <2>6 DEF Numbers
<1>10. PlainOK'
  <2> SUFFICES ASSUME q.name # "logs", ~q.interactive, phase' # "ids"
               PROVE  \E n \in Nat : PlainUpTo(n)'
    BY DEF PlainOK
  <2>1. CASE Rows
    <3>1. printed = <<>> /\ ~q.follow
      BY <1>0, <1>2, <1>4, <2>1 DEF Control, CommandIs
    <3>2. printed' \o rows' = <<>>
      BY <1>3, <2>1, <3>1, ConcatEmptySeq DEF Asks
    <3>3. Fetched(<<>>, 0, 0, warned')
      BY NoEvents, NoEventsGapless DEF Fetched
    <3>4. PlainUpTo(0)'
      BY <1>4, <2>1, <3>1, <3>2, <3>3 DEF PlainUpTo, Asks
    <3> QED BY <3>4
  <2>2. CASE phase = "rows" /\ (Blocks \/ Show)
    <3>1. PICK n \in Nat : /\ Fetched(printed \o rs, 0, n, warned')
                           /\ q.count \/ warned' \/ atStart <= n
      BY <2>2
    <3>2. printed' = printed /\ rows' = rs /\ atStart' = atStart /\ q' = q
      BY <2>2 DEF Asks
    <3>3. ~q.follow /\ (phase' = "rows" => ~Querying')
      BY <2>2 DEF Asks, Querying
    <3>4. PlainUpTo(n)'
      BY <3>1, <3>2, <3>3 DEF PlainUpTo
    <3> QED BY <3>4
  <2>3. CASE phase = "blockers" /\ Show
    <3>1. PICK n \in Nat : PlainUpTo(n)
      BY <2>3 DEF EventsInv, PlainOK
    <3>2. printed' = printed /\ rows' = rows /\ atStart' = atStart /\ q' = q /\ phase' = "blockers"
      BY <2>3
    <3>3. Fetched(printed' \o rows', 0, n, warned')
      BY <2>3, <3>1, <3>2 DEF PlainUpTo, Fetched
    <3>4. q.count \/ q.follow \/ warned' \/ atStart <= n
      BY <2>3, <3>1 DEF PlainUpTo
    <3>5. ~q.follow
      BY <1>0, <1>2, <2>3 DEF Control, CommandIs
    <3>6. PlainUpTo(n)'
      BY <3>2, <3>3, <3>4, <3>5 DEF PlainUpTo
    <3> QED BY <3>6
  <2> QED BY <1>1, <2>1, <2>2, <2>3
<1>11. TableOK'
  <2> SUFFICES ASSUME q.interactive
               PROVE  \E a, n \in Nat : TableUpTo(a, n)'
    BY DEF TableOK
  <2>1. phase = "rows" /\ Show /\ ~q.follow
    BY <1>0, <1>1, <1>2, <1>4 DEF Control, CommandIs
  <2>2. PICK a \in Nat, n \in Nat : /\ a <= n /\ Descending(printed, 0, a) /\ Gapless(printed, 0, a)
                                    /\ Ascending(rs, a, n) /\ Gapless(rs, a, n)
    BY <2>1
  <2>3. rows' = rs /\ qpc' = "shows" /\ q' = q
    BY <2>1
  <2>4. TableUpTo(a, n)'
    BY <2>1, <2>2, <2>3 DEF TableUpTo, Querying
  <2> QED BY <2>4
<1>12. LogsOK'
  <2> SUFFICES ASSUME NewestFirst'
               PROVE  LogsOK'
    BY DEF LogsOK
  <2>1. NewestFirst
    BY DEF NewestFirst
  <2>2. phase = "rows" /\ Show
    BY <1>0, <1>1, <1>2, <1>4, <2>1 DEF Control, CommandIs, NewestFirst
  <2>3. printed = <<>> /\ \E a, b \in Int : Ascending(printed, a, b) /\ Gapless(printed, a, b)
    BY <2>1 DEF EventsInv, LogsOK, Querying
  <2> QED BY <2>1, <2>2, <2>3 DEF LogsOK, Querying
<1> QED BY <1>6, <1>7, <1>8, <1>9, <1>10, <1>11, <1>12 DEF EventsInv

\* The page is joined to what a plain command has.
LEMMA InHand ==
    ASSUME EventsInv, qpc = "answered", phase = "rows", q.name # "logs", ~q.interactive
    PROVE  \E n \in Nat : /\ Fetched(printed \o (rows \o answer.rows), 0, n, warned \/ answer.errors)
                          /\ answer.next \/ answer.errors \/ atStart <= n
                          /\ answer.kind = "rows" => n = answer.upTo
                          /\ answer.kind # "rows" => answer.rows = <<>> /\ n = cursor /\ ~answer.next
<1> DEFINE lossy == warned \/ answer.errors
<1>1. printed \in Seq(Int) /\ rows \in Seq(Int) /\ answer.rows \in Seq(Int)
  BY DEF EventsInv, Types, Answers
<1>2. cursor \in Nat /\ answer.upTo \in Nat
  BY DEF EventsInv, Types, Answers
<1>3. PICK m \in Nat : PlainUpTo(m)
  BY DEF EventsInv, PlainOK
<1>4. m = cursor
  BY <1>3 DEF PlainUpTo, Querying
<1>5. Fetched(printed \o rows, 0, cursor, warned)
  BY <1>3, <1>4 DEF PlainUpTo
<1>6. PageOK
  BY DEF EventsInv, AnswerOK, NewestFirst
<1>7. (printed \o rows) \o answer.rows = printed \o (rows \o answer.rows)
  BY <1>1, ThreeInARow, Zenon
<1>8. CASE answer.kind = "rows"
  <2>1. Fetched(answer.rows, cursor, answer.upTo, answer.errors) /\ cursor <= answer.upTo
    BY <1>6, <1>8 DEF PageOK
  <2>2. Fetched((printed \o rows) \o answer.rows, 0, answer.upTo, lossy)
    <3>1. 0 \in Int /\ cursor \in Int /\ answer.upTo \in Int /\ 0 <= cursor
      BY <1>2
    <3>2. (warned => lossy) /\ (answer.errors => lossy)
      OBVIOUS
    <3> HIDE DEF lossy
    <3> QED BY <1>5, <2>1, <3>1, <3>2, FetchedConcat
  <2>3. answer.next \/ atStart <= answer.upTo
    BY <1>6, <1>8 DEF PageOK
  <2> QED BY <1>2, <1>7, <1>8, <2>2, <2>3
<1>9. CASE answer.kind # "rows"
  <2>1. answer.rows = <<>> /\ ~answer.next /\ (answer.errors \/ atStart <= cursor)
    BY <1>6, <1>9 DEF PageOK
  <2>2. rows \o answer.rows = rows
    BY <1>1, <2>1, ConcatEmptySeq
  <2>3. Fetched(printed \o rows, 0, cursor, lossy)
    BY <1>5 DEF Fetched
  <2> QED BY <1>2, <1>9, <2>1, <2>2, <2>3
<1> QED BY <1>8, <1>9

\* It is joined to what is in hand for the table.
LEMMA InHandForTable ==
    ASSUME EventsInv, qpc = "answered", phase = "rows", q.interactive,
           answer.kind = "rows", ~answer.errors
    PROVE  \E a \in Nat : /\ a <= answer.upTo /\ Descending(printed, 0, a) /\ Gapless(printed, 0, a)
                          /\ Ascending(rows \o answer.rows, a, answer.upTo)
                          /\ Gapless(rows \o answer.rows, a, answer.upTo)
<1>1. rows \in Seq(Int) /\ answer.rows \in Seq(Int)
  BY DEF EventsInv, Types, Answers
<1>2. cursor \in Nat /\ answer.upTo \in Nat
  BY DEF EventsInv, Types, Answers
<1>3. PICK a \in Nat, n \in Nat : TableUpTo(a, n)
  BY DEF EventsInv, TableOK
<1>4. n = cursor /\ a <= cursor
  BY <1>3 DEF TableUpTo, Querying
<1>5. Descending(printed, 0, a) /\ Gapless(printed, 0, a)
  BY <1>3 DEF TableUpTo
<1>6. Ascending(rows, a, cursor) /\ Gapless(rows, a, cursor)
  BY <1>3, <1>4 DEF TableUpTo
<1>7. CommandIs(q)
  BY CommandFacts DEF EventsInv, Types
<1>8. PageOK
  BY <1>7 DEF EventsInv, AnswerOK, NewestFirst, CommandIs
<1>9. Ascending(answer.rows, cursor, answer.upTo) /\ Gapless(answer.rows, cursor, answer.upTo)
      /\ cursor <= answer.upTo
  BY <1>8 DEF PageOK, Fetched
<1>10. Ascending(rows \o answer.rows, a, answer.upTo)
  BY <1>2, <1>4, <1>6, <1>9, AscendingConcat
<1>11. Gapless(rows \o answer.rows, a, answer.upTo)
  BY <1>1, <1>2, <1>6, <1>9, GaplessConcat
<1> QED BY <1>2, <1>4, <1>5, <1>9, <1>10, <1>11

LEMMA StopStep ==
    ASSUME EventsInv, StopAtPage
    PROVE  EventsInv'
<1>1. /\ qpc = "answered" /\ Treat(answer) = "stop" /\ CompleteQuery(rows)
      /\ warned' = (warned \/ Warns(answer)) /\ UNCHANGED <<q, answer, printed, produced>>
  BY DEF StopAtPage
<1>2. phase \in {"ids", "rows", "blockers"} /\ (phase = "blockers" => q.name = "recommendations")
  BY DEF EventsInv, Types, Control
<1>3. phase # "blockers" /\ (phase = "rows" => q.name \notin {"events", "logs"} /\ answer.kind # "rows")
  BY <1>1, <1>2, StoppedIs
<1>4. CommandIs(q)
  BY CommandFacts DEF EventsInv, Types
<1>5. phase = "rows" => ~q.follow /\ ~q.interactive /\ ~NewestFirst
  BY <1>3, <1>4 DEF CommandIs, NewestFirst
<1>6. rows \in Seq(Int) /\ answer.rows \in Seq(Int)
  BY DEF EventsInv, Types, Answers
<1>7. ASSUME phase = "rows"
      PROVE  \E n \in Nat : Fetched(printed \o rows, 0, n, warned') /\ (q.count \/ warned' \/ atStart <= n)
  <2>1. answer.errors => Warns(answer)
    BY <1>3, <1>7 DEF Warns
  <2>2. PICK n \in Nat :
           /\ Fetched(printed \o (rows \o answer.rows), 0, n, warned \/ answer.errors)
           /\ answer.next \/ answer.errors \/ atStart <= n
           /\ answer.kind # "rows" => answer.rows = <<>> /\ n = cursor /\ ~answer.next
    BY <1>1, <1>3, <1>5, <1>7, InHand
  <2>3. rows \o answer.rows = rows
    BY <1>3, <1>6, <1>7, <2>2, ConcatEmptySeq
  <2>4. Fetched(printed \o rows, 0, n, warned')
    BY <1>1, <2>1, <2>2, <2>3 DEF Fetched
  <2>5. warned' \/ atStart <= n
    BY <1>1, <1>3, <1>7, <2>1, <2>2
  <2> QED BY <2>4, <2>5
<1>8. warned' \in BOOLEAN
  BY <1>1
<1>9. ~q.follow \/ phase # "rows"
  BY <1>5
<1> QED BY <1>1, <1>3, <1>5, <1>6, <1>7, <1>8, <1>9, CompleteStep

\* What is taken although it may have been cut short is warned of.
LEMMA TakenWarns ==
    ASSUME EventsInv, qpc = "answered", phase = "rows", Treat(answer) = "take"
    PROVE  /\ answer.errors => Warns(answer)
           /\ q.name \in {"events", "logs"} => answer.kind = "rows" /\ ~answer.errors
<1>1. answer.kind \in {"rows", "nil", "empty", "nomain"}
  <2>1. answer.kind \in {"none", "rows", "nil", "empty", "nomain"}
    BY DEF EventsInv, Types, Answers
  <2> QED BY <2>1 DEF EventsInv, AnswerOK
<1>2. q.name \in {"events", "logs"} => answer.kind = "rows" /\ ~answer.errors
  BY <1>1, TakenIsWhole
<1> QED BY <1>2 DEF Warns

\* The command has the page, and asks for the next one or shows what it has and follows.
LEMMA FetchStep ==
    ASSUME EventsInv, qpc = "answered", phase # "blockers", Treat(answer) = "take",
           warned' = (warned \/ Warns(answer)), rows' = rows \o answer.rows, cursor' = answer.upTo,
           later' \in BOOLEAN, UNCHANGED <<q, phase, answer, printed, produced, atStart, outcome>>,
           \/ qpc' = "asks" /\ later' = TRUE /\ GoesOn(answer)
           \/ qpc' = "shows" /\ phase = "rows" /\ q.follow
    PROVE  EventsInv'
<1>1. Types /\ Control /\ Numbers
  BY DEF EventsInv
<1>2. rows \in Seq(Int) /\ answer.rows \in Seq(Int)
  BY <1>1 DEF Types, Answers
<1>3. answer.upTo \in Nat
  BY <1>1 DEF Types, Answers
<1>4. rows \o answer.rows \in Seq(Int)
  BY <1>2, ConcatProperties
<1>5. Types'
  BY <1>1, <1>3, <1>4 DEF Types
<1>6. CommandIs(q)
  BY <1>1, CommandFacts DEF Types
<1>7. outcome = "none" /\ q \in Commands
  BY <1>1 DEF Control
<1>8. Control'
  BY <1>1, <1>7 DEF Control, Querying
<1>9. Numbers'
  <2>1. Stock' = Stock
    BY DEF Stock
  <2>2. qpc' # "answered"
    OBVIOUS
  <2> QED BY <1>1, <2>1, <2>2 DEF Numbers
<1>10. AnswerOK'
  BY DEF AnswerOK
<1>11. phase = "rows" => /\ answer.errors => Warns(answer)
                         /\ q.name \in {"events", "logs"} => answer.kind = "rows" /\ ~answer.errors
  BY TakenWarns
<1>12. PlainOK'
  <2> SUFFICES ASSUME q.name # "logs", ~q.interactive, phase # "ids"
               PROVE  \E n \in Nat : PlainUpTo(n)'
    BY DEF PlainOK
  <2>1. phase = "rows"
    BY <1>1 DEF Types
  <2>2. PICK n \in Nat :
           /\ Fetched(printed \o (rows \o answer.rows), 0, n, warned \/ answer.errors)
           /\ answer.kind = "rows" => n = answer.upTo
           /\ answer.kind # "rows" => ~answer.next
    BY <2>1, InHand
  <2>3. answer.kind = "rows"
    <3>1. CASE GoesOn(answer)
      BY <2>2, <3>1 DEF GoesOn
    <3>2. CASE q.follow
      BY <1>6, <1>11, <2>1, <3>2 DEF CommandIs
    <3> QED BY <3>1, <3>2
  <2>4. n = cursor'
    BY <2>2, <2>3
  <2>5. Fetched(printed' \o rows', 0, n, warned')
    BY <1>11, <2>1, <2>2 DEF Fetched
  <2>6. qpc' = "shows" => q.follow
    OBVIOUS
  <2>7. PlainUpTo(n)'
    BY <1>7, <2>1, <2>4, <2>5, <2>6 DEF PlainUpTo
  <2> QED BY <2>7
<1>13. TableOK'
  <2> SUFFICES ASSUME q.interactive
               PROVE  \E a, n \in Nat : TableUpTo(a, n)'
    BY DEF TableOK
  <2>1. q.name = "events" /\ phase = "rows"
    BY <1>1, <1>6 DEF Types, Control, CommandIs
  <2>2. answer.kind = "rows" /\ ~answer.errors
    BY <1>11, <2>1
  <2>3. PICK a \in Nat : /\ a <= answer.upTo /\ Descending(printed, 0, a) /\ Gapless(printed, 0, a)
                         /\ Ascending(rows \o answer.rows, a, answer.upTo)
                         /\ Gapless(rows \o answer.rows, a, answer.upTo)
    BY <2>1, <2>2, InHandForTable
  <2>4. TableUpTo(a, answer.upTo)'
    BY <2>3 DEF TableUpTo
  <2> QED BY <1>3, <2>4
<1>14. ~NewestFirst
  <2> SUFFICES ASSUME NewestFirst PROVE FALSE
    OBVIOUS
  <2>1. q.name = "logs" /\ ~q.follow /\ q.count
    BY <1>6 DEF NewestFirst, CommandIs
  <2>2. phase = "rows"
    BY <1>1, <1>6, <2>1 DEF Types, Control, CommandIs
  <2> QED BY <2>1, <2>2 DEF GoesOn
<1>15. LogsOK'
  BY <1>14 DEF LogsOK, NewestFirst
<1> QED BY <1>5, <1>8, <1>9, <1>10, <1>12, <1>13, <1>15 DEF EventsInv

LEMMA TakeStep ==
    ASSUME EventsInv, TakePage
    PROVE  EventsInv'
<1> DEFINE all == IF phase = "blockers" THEN rows ELSE rows \o answer.rows
<1>1. /\ qpc = "answered" /\ Treat(answer) = "take" /\ warned' = (warned \/ Warns(answer))
      /\ UNCHANGED <<q, answer, printed, produced>>
  BY DEF TakePage
<1>2. Types /\ Control
  BY DEF EventsInv
<1>3. CommandIs(q)
  BY <1>2, CommandFacts DEF Types
<1>4. CASE GoesOn(answer) /\ phase # "blockers"
  <2>1. Asks(phase, TRUE, answer.upTo, all) /\ UNCHANGED <<atStart, outcome>>
    BY <1>4 DEF TakePage
  <2> QED BY <1>1, <1>4, <2>1, FetchStep DEF Asks
<1>5. CASE ~ (GoesOn(answer) /\ phase # "blockers") /\ q.follow /\ phase = "rows"
  <2>1. /\ qpc' = "shows" /\ rows' = all /\ cursor' = answer.upTo
        /\ UNCHANGED <<phase, later, atStart, outcome>>
    BY <1>5 DEF TakePage
  <2>2. later' \in BOOLEAN
    BY <1>2, <2>1 DEF Types
  <2> QED BY <1>1, <1>5, <2>1, <2>2, FetchStep
<1>6. CASE ~ (GoesOn(answer) /\ phase # "blockers") /\ ~ (q.follow /\ phase = "rows")
  <2>1. CompleteQuery(all)
    BY <1>6 DEF TakePage
  <2>2. rows \in Seq(Int) /\ answer.rows \in Seq(Int)
    BY <1>2 DEF Types, Answers
  <2>3. all \in Seq(Int)
    BY <2>2, ConcatProperties
  <2>4. phase = "blockers" => all = rows /\ (warned => warned')
    BY <1>1
  <2>5. ASSUME phase = "rows", q.name # "logs", ~q.interactive
        PROVE  \E n \in Nat : Fetched(printed \o all, 0, n, warned') /\ (q.count \/ warned' \/ atStart <= n)
    <3>1. answer.errors => Warns(answer)
      BY <1>1, <2>5, TakenWarns
    <3>2. PICK n \in Nat :
             /\ Fetched(printed \o (rows \o answer.rows), 0, n, warned \/ answer.errors)
             /\ answer.next \/ answer.errors \/ atStart <= n
      BY <1>1, <2>5, InHand
    <3>3. Fetched(printed \o all, 0, n, warned')
      BY <1>1, <2>5, <3>1, <3>2 DEF Fetched
    <3>4. answer.next => q.count
      BY <1>6, <2>5 DEF GoesOn
    <3>5. q.count \/ warned' \/ atStart <= n
      BY <1>1, <3>1, <3>2, <3>4
    <3> QED BY <3>3, <3>5
  <2>6. ASSUME phase = "rows", q.interactive
        PROVE  \E a, n \in Nat : /\ a <= n /\ Descending(printed, 0, a) /\ Gapless(printed, 0, a)
                                 /\ Ascending(all, a, n) /\ Gapless(all, a, n)
    <3>1. answer.kind = "rows" /\ ~answer.errors
      BY <1>1, <1>3, <2>6, TakenWarns DEF CommandIs
    <3>2. answer.upTo \in Nat
      BY <1>2 DEF Types, Answers
    <3> QED BY <1>1, <2>6, <3>1, <3>2, InHandForTable
  <2>7. ASSUME phase = "rows", NewestFirst
        PROVE  \E a, b \in Int : Descending(all, a, b) /\ Gapless(all, a, b)
    <3>1. answer.kind = "rows" /\ ~answer.errors
      BY <1>1, <2>7, TakenWarns DEF NewestFirst
    <3>2. NewestOK
      BY <1>1, <2>7 DEF EventsInv, AnswerOK
    <3>3. rows = <<>>
      BY <1>1, <2>7 DEF EventsInv, LogsOK, Querying
    <3>4. all = answer.rows
      BY <2>2, <2>7, <3>3, ConcatEmptySeq
    <3> QED BY <3>1, <3>2, <3>4 DEF NewestOK
  <2>8. warned' \in BOOLEAN
    BY <1>1
  <2>9. ~q.follow \/ phase # "rows"
    BY <1>6
  <2> HIDE DEF all
  <2> QED BY <1>1, <2>1, <2>3, <2>4, <2>5, <2>6, <2>7, <2>8, <2>9, CompleteStep
<1> QED BY <1>4, <1>5, <1>6

\* The command says that there is nothing, and ends well.
LEMMA NothingStep ==
    ASSUME EventsInv, qpc = "answered", Treat(answer) = "none",
           warned' = (warned \/ Warns(answer)), qpc' = "done", outcome' = "ok",
           UNCHANGED <<client, answer, produced>>
    PROVE  EventsInv'
<1>1. Types /\ Control /\ Numbers
  BY DEF EventsInv
<1>2. CommandIs(q)
  BY <1>1, CommandFacts DEF Types
<1>3. phase = "rows" /\ ~later /\ q.name \notin {"events", "logs"} /\ answer.kind # "rows"
  <2>1. phase \in {"ids", "rows", "blockers"} /\ (phase = "blockers" => q.name = "recommendations")
    BY <1>1 DEF Types, Control
  <2> QED BY <2>1, StoppedIs
<1>4. rows = <<>> /\ printed = <<>>
  BY <1>1, <1>3 DEF Control, Querying
<1>5. ~q.follow /\ ~q.interactive
  BY <1>2, <1>3 DEF CommandIs
<1>6. Types'
  BY <1>1 DEF Types, client
<1>7. Control'
  BY <1>1, <1>3, <1>4, <1>5 DEF Control, Querying, client
<1>8. Numbers'
  BY <1>1 DEF Numbers, Stock, client
<1>9. AnswerOK'
  BY DEF AnswerOK
<1>10. PlainOK'
  <2>1. answer.errors => Warns(answer)
    BY <1>3 DEF Warns
  <2>2. PICK n \in Nat :
           /\ Fetched(printed \o (rows \o answer.rows), 0, n, warned \/ answer.errors)
           /\ answer.next \/ answer.errors \/ atStart <= n
           /\ answer.kind # "rows" => answer.rows = <<>> /\ ~answer.next
    BY <1>3, <1>5, InHand
  <2>3. <<>> \in Seq(Int)
    BY EmptySeq
  <2>4. printed' \o rows' = printed \o (rows \o answer.rows)
    <3>1. answer.rows = <<>>
      BY <1>3, <2>2
    <3>2. <<>> \o <<>> = <<>>
      BY <2>3, ConcatEmptySeq
    <3> QED BY <1>4, <3>1, <3>2 DEF client
  <2>5. Fetched(printed' \o rows', 0, n, warned')
    BY <2>1, <2>2, <2>4 DEF Fetched
  <2>6. warned' \/ atStart <= n
    BY <1>3, <2>1, <2>2
  <2>7. PlainUpTo(n)'
    BY <1>5, <2>5, <2>6 DEF PlainUpTo, Querying, client
  <2> QED BY <2>7 DEF PlainOK
<1>11. TableOK'
  BY <1>5 DEF TableOK, client
<1>12. LogsOK'
  BY <1>3 DEF LogsOK, NewestFirst, client
<1> QED BY <1>6, <1>7, <1>8, <1>9, <1>10, <1>11, <1>12 DEF EventsInv

LEMMA EndStep ==
    ASSUME EventsInv, EndAtPage
    PROVE  EventsInv'
<1>1. /\ qpc = "answered" /\ Treat(answer) \in {"none", "fail", "panic"}
      /\ warned' = (warned \/ Warns(answer)) /\ UNCHANGED <<client, answer, produced>>
  BY DEF EndAtPage
<1>2. warned' \in BOOLEAN /\ (warned => warned') /\ qpc # "idle"
  BY <1>1
<1>3. outcome = "none"
  BY <1>1 DEF EventsInv, Control
<1>4. CASE q.interactive /\ Treat(answer) = "fail"
  <2>1. qpc' = "open" /\ UNCHANGED outcome
    BY <1>4 DEF EndAtPage, FailsAtRequest
  <2> QED BY <1>1, <1>2, <1>3, <2>1, CloseStep
<1>5. CASE ~ (q.interactive /\ Treat(answer) = "fail")
  <2>1. Closes([none |-> "ok", fail |-> "failed", panic |-> "panicked"][Treat(answer)])
    BY <1>5 DEF EndAtPage, FailsAtRequest
  <2>2. CASE Treat(answer) = "none"
    BY <1>1, <2>1, <2>2, NothingStep DEF Closes
  <2>3. CASE Treat(answer) # "none"
    <3>1. qpc' = "done" /\ outcome' \in {"failed", "panicked"}
      BY <1>1, <2>1, <2>3 DEF Closes
    <3> QED BY <1>1, <1>2, <3>1, CloseStep
  <2> QED BY <2>2, <2>3
<1> QED BY <1>4, <1>5

LEMMA InsertStep ==
    ASSUME EventsInv, InsertRow
    PROVE  EventsInv'
<1>1. /\ qpc = "shows" /\ q.interactive /\ rows # <<>>
      /\ printed' = InsertByTime(printed, Head(rows)) /\ rows' = Tail(rows)
      /\ UNCHANGED <<q, qpc, phase, later, cursor, answer, warned, produced, atStart, outcome>>
  BY DEF InsertRow
<1>2. Types /\ Control /\ Numbers
  BY DEF EventsInv
<1>3. CommandIs(q)
  BY <1>2, CommandFacts DEF Types
<1>4. PICK a \in Nat, n \in Nat : TableUpTo(a, n)
  BY <1>1 DEF EventsInv, TableOK
<1>5. Descending(printed, 0, a) /\ Gapless(printed, 0, a)
  BY <1>4 DEF TableUpTo
<1>6. Ascending(rows, a, n) /\ Gapless(rows, a, n)
  BY <1>4 DEF TableUpTo
<1>7. /\ Head(rows) = a + 1 /\ a + 1 <= n
      /\ Ascending(Tail(rows), a + 1, n) /\ Gapless(Tail(rows), a + 1, n)
  BY <1>1, <1>6, NextOfPage
<1>8. printed' = <<a + 1>> \o printed
  <2>1. printed \in Seq(Int) /\ \A i \in DOMAIN printed : printed[i] \in Int /\ printed[i] <= a
    BY <1>5, ElementOfSeq, LenProperties DEF Descending
  <2>2. \A i \in DOMAIN printed : printed[i] < a + 1
    BY <2>1
  <2> QED BY <1>1, <1>7, <2>1, <2>2, InsertNewest
<1>9. Descending(printed', 0, a + 1) /\ Gapless(printed', 0, a + 1)
  BY <1>5, <1>8, TopOfTable
<1>10. TableUpTo(a + 1, n)'
  <2>1. qpc' = "shows" /\ (q'.follow => n = cursor')
    BY <1>1, <1>4 DEF TableUpTo
  <2> QED BY <1>1, <1>7, <1>9, <2>1 DEF TableUpTo, Querying
<1>11. a + 1 \in Nat
  OBVIOUS
<1>12. TableOK'
  BY <1>10, <1>11 DEF TableOK
<1>13. Types'
  <2>1. printed' \in Seq(Int) /\ rows' \in Seq(Int)
    BY <1>1, <1>7, <1>9 DEF Ascending, Descending
  <2> QED BY <1>1, <1>2, <2>1 DEF Types
<1>14. Control'
  BY <1>1, <1>2 DEF Control, Querying
<1>15. Numbers'
  BY <1>1, <1>2 DEF Numbers, Stock
<1>16. AnswerOK'
  BY <1>1 DEF AnswerOK
<1>17. PlainOK' /\ LogsOK'
  BY <1>1, <1>3 DEF PlainOK, LogsOK, NewestFirst, CommandIs
<1> QED BY <1>12, <1>13, <1>14, <1>15, <1>16, <1>17 DEF EventsInv

\* What a page adds to what is printed is a sequence of events.
LEMMA ShownType ==
    ASSUME Types
    PROVE  ShowPage(printed) \in Seq(Int)
<1>1. printed \in Seq(Int) /\ rows \in Seq(Int)
  BY DEF Types
<1>2. Reverse(rows) \in Seq(Int)
  BY <1>1, ReverseType
<1> QED BY <1>1, <1>2, ConcatProperties DEF ShowPage

LEMMA ShowStep ==
    ASSUME EventsInv, ShowRows \/ ShowLastRows
    PROVE  EventsInv'
<1>1. /\ qpc = "shows" /\ (q.interactive => rows = <<>>)
      /\ printed' = ShowPage(printed) /\ rows' = <<>>
      /\ UNCHANGED <<q, phase, cursor, answer, warned, produced, atStart>>
  <2>1. CASE ShowRows
    <3>1. phase = "rows"
      <4>1. CommandIs(q)
        BY CommandFacts DEF EventsInv, Types
      <4> QED BY <2>1, <4>1 DEF EventsInv, Types, Control, ShowRows, CommandIs
    <3> QED BY <2>1, <3>1 DEF ShowRows, RowsInserted, Asks
  <2>2. CASE ShowLastRows
    BY <2>2 DEF ShowLastRows, RowsInserted
  <2> QED BY <2>1, <2>2
<1>2. \/ q.follow /\ qpc' = "asks" /\ later' = TRUE /\ outcome' = outcome
      \/ ~q.follow /\ q.interactive /\ qpc' = "open" /\ later' = later /\ outcome' = outcome
      \/ ~q.follow /\ ~q.interactive /\ qpc' = "done" /\ later' = later /\ outcome' = "ok"
  BY DEF ShowRows, ShowLastRows, Asks, Closes
<1>3. Types /\ Control /\ Numbers
  BY DEF EventsInv
<1>4. CommandIs(q)
  BY <1>3, CommandFacts DEF Types
<1>5. phase # "ids" /\ q \in Commands /\ outcome = "none"
  BY <1>1, <1>3 DEF Control
<1>6. <<>> \in Seq(Int) /\ printed \in Seq(Int) /\ rows \in Seq(Int)
  BY <1>3, EmptySeq DEF Types
<1>7. printed' \in Seq(Int)
  BY <1>1, <1>3, ShownType
<1>8. Types'
  <2>1. qpc' \in {"asks", "open", "done"} /\ (outcome' = outcome \/ outcome' = "ok")
    BY <1>2
  <2>2. later' = TRUE \/ later' = later
    BY <1>2
  <2>3. later' \in BOOLEAN
    BY <1>3, <2>2, Zenon DEF Types
  <2> QED BY <1>1, <1>3, <1>6, <1>7, <2>1, <2>3 DEF Types
<1>9. Control'
  BY <1>1, <1>2, <1>3, <1>5 DEF Control, Querying
<1>10. Numbers'
  <2>1. qpc' # "answered"
    BY <1>2
  <2> QED BY <1>1, <1>3, <2>1 DEF Numbers, Stock
<1>11. AnswerOK'
  BY <1>2 DEF AnswerOK
<1>12. q.name # "logs" => printed' \o rows' = printed \o rows
  <2>1. q.name # "logs" => printed' = printed \o rows
    BY <1>1 DEF ShowPage
  <2>2. printed' \o <<>> = printed'
    BY <1>7, ConcatEmptySeq
  <2> QED BY <1>1, <2>1, <2>2
<1>13. PlainOK'
  <2> SUFFICES ASSUME q.name # "logs", ~q.interactive
               PROVE  \E n \in Nat : PlainUpTo(n)'
    BY <1>1 DEF PlainOK
  <2>1. PICK n \in Nat : PlainUpTo(n)
    BY <1>5 DEF EventsInv, PlainOK
  <2>2. Fetched(printed' \o rows', 0, n, warned')
    BY <1>1, <1>12, <2>1 DEF PlainUpTo
  <2>3. q.follow => n = cursor'
    BY <1>1, <2>1 DEF PlainUpTo
  <2>4. q.count \/ q.follow \/ warned \/ atStart <= n
    BY <1>1, <2>1 DEF PlainUpTo
  <2>5. Querying' => q.follow
    BY <1>2 DEF Querying
  <2>6. PlainUpTo(n)'
    BY <1>1, <2>2, <2>3, <2>4, <2>5 DEF PlainUpTo
  <2> QED BY <2>6
<1>14. TableOK'
  <2> SUFFICES ASSUME q.interactive
               PROVE  \E a, n \in Nat : TableUpTo(a, n)'
    BY <1>1 DEF TableOK
  <2>1. PICK a \in Nat, n \in Nat : TableUpTo(a, n)
    BY DEF EventsInv, TableOK
  <2>2. rows = <<>> /\ rows' = rows
    BY <1>1
  <2>3. printed' = printed
    BY <1>1, <1>4, <1>6, <2>2, ConcatEmptySeq DEF ShowPage, CommandIs
  <2>4. Querying' => q.follow
    BY <1>2 DEF Querying
  <2>5. TableUpTo(a, n)'
    BY <1>1, <2>1, <2>2, <2>3, <2>4 DEF TableUpTo
  <2> QED BY <2>5
<1>15. LogsOK'
  <2> SUFFICES ASSUME NewestFirst
               PROVE  /\ ~Querying' /\ qpc' # "shows"
                      /\ \E a, b \in Int : Ascending(printed', a, b) /\ Gapless(printed', a, b)
    BY <1>1 DEF LogsOK, NewestFirst
  <2>1. q.name = "logs" /\ ~q.follow
    BY DEF NewestFirst
  <2>2. printed = <<>> /\ \E a, b \in Int : Descending(rows, a, b) /\ Gapless(rows, a, b)
    BY <1>1 DEF EventsInv, LogsOK
  <2>3. PICK a \in Int, b \in Int : Descending(rows, a, b) /\ Gapless(rows, a, b)
    BY <2>2
  <2>4. Reverse(rows) \in Seq(Int) /\ Ascending(Reverse(rows), a, b) /\ Gapless(Reverse(rows), a, b)
    BY <2>3, ReverseAscends DEF Ascending
  <2>5. printed' = Reverse(rows)
    BY <1>1, <2>1, <2>2, <2>4, ConcatEmptySeq DEF ShowPage
  <2> QED BY <1>2, <2>1, <2>4, <2>5 DEF Querying
<1> QED BY <1>8, <1>9, <1>10, <1>11, <1>13, <1>14, <1>15 DEF EventsInv

LEMMA NextInv == EventsInv /\ [EventsNext]_eventVars => EventsInv'
<1> SUFFICES ASSUME EventsInv, [EventsNext]_eventVars PROVE EventsInv'
  OBVIOUS
<1>1. ASSUME RefuseCount \/ PageRequestFails \/ Interrupt PROVE EventsInv'
  <2>1. qpc # "idle" /\ UNCHANGED <<client, answer, warned, produced>>
    BY <1>1 DEF RefuseCount, PageRequestFails, Interrupt
  <2>2. warned' \in BOOLEAN
    BY <2>1 DEF EventsInv, Types
  <2>3. \/ qpc' = "done" /\ outcome' \in {"refused", "failed", "interrupted"}
        \/ qpc' = "open" /\ outcome' = outcome /\ outcome = "none"
    <3>1. PageRequestFails => outcome = "none"
      BY DEF PageRequestFails, EventsInv, Control
    <3> QED BY <1>1, <3>1 DEF RefuseCount, PageRequestFails, FailsAtRequest, Interrupt, Closes
  <2> QED BY <2>1, <2>2, <2>3, CloseStep
<1>2. CASE UNCHANGED eventVars
  BY <1>2 DEF eventVars, EventsInv, Types, Control, Numbers, Stock, AnswerOK, PageOK, NewestOK,
              NewestFirst, PlainOK, PlainUpTo, TableOK, TableUpTo, LogsOK, Querying
<1> QED BY <1>1, <1>2, ProduceStep, AnswerStep, StartStep, TakeStep, StopStep, EndStep, InsertStep,
           ShowStep DEF EventsNext, FetcherStep

LEMMA EventsInvariant == EventsSpec => []EventsInv
BY InitInv, NextInv, PTL DEF EventsSpec

-----------------------------------------------------------------------------
(* The theorems                                                            *)

\* What is shown is in the order of the events, with none twice and none left out in silence.
THEOREM EventsPrintedInOrder == EventsSpec => []PrintedInOrder
<1>1. ASSUME EventsInv PROVE PrintedInOrder
  <2> SUFFICES ASSUME ~ (q.name = "logs" /\ q.follow), NEW i \in 1..(Len(printed) - 1)
               PROVE  /\ q.interactive => printed[i] - printed[i + 1] = 1
                      /\ ~q.interactive => /\ printed[i + 1] - printed[i] >= 1
                                           /\ printed[i + 1] - printed[i] = 1 \/ warned
    BY DEF PrintedInOrder
  <2>1. CASE q.interactive
    <3>1. PICK a \in Nat, n \in Nat : TableUpTo(a, n)
      BY <1>1, <2>1 DEF EventsInv, TableOK
    <3>2. Descending(printed, 0, a) /\ Gapless(printed, 0, a)
      BY <3>1 DEF TableUpTo
    <3>3. printed[i] - printed[i + 1] = 1
      BY <3>2, NeighboursDown
    <3> QED BY <2>1, <3>3
  <2>2. CASE q.name = "logs"
    <3>1. CommandIs(q)
      BY <1>1, CommandFacts DEF EventsInv, Types
    <3>2. PICK a \in Int, b \in Int : Ascending(printed, a, b) /\ Gapless(printed, a, b)
      BY <1>1, <2>2 DEF EventsInv, LogsOK, NewestFirst
    <3>3. printed[i + 1] - printed[i] >= 1 /\ printed[i + 1] - printed[i] = 1
      BY <3>2, NeighboursUp
    <3> QED BY <2>2, <3>1, <3>3 DEF CommandIs
  <2>3. CASE ~q.interactive /\ q.name # "logs"
    <3>1. Types
      BY <1>1 DEF EventsInv
    <3>2. printed \in Seq(Int) /\ rows \in Seq(Int)
      BY <3>1 DEF Types
    <3>3. phase # "ids"
      <4>1. phase = "ids" => printed = <<>>
        BY <1>1 DEF EventsInv, Control
      <4> QED BY <4>1
    <3>4. PICK n \in Nat : Fetched(printed \o rows, 0, n, warned)
      BY <1>1, <2>3, <3>3 DEF EventsInv, PlainOK, PlainUpTo
    <3> DEFINE s == printed \o rows
    <3>5. /\ s[i] = printed[i] /\ s[i + 1] = printed[i + 1] /\ i \in 1..(Len(s) - 1)
      BY <3>2, Prefix
    <3>6. Ascending(s, 0, n) /\ (warned \/ Gapless(s, 0, n))
      BY <3>4 DEF Fetched
    <3> HIDE DEF s
    <3>7. s[i + 1] - s[i] >= 1 /\ (Gapless(s, 0, n) => s[i + 1] - s[i] = 1)
      BY <3>5, <3>6, NeighboursUp
    <3> QED BY <2>3, <3>5, <3>6, <3>7
  <2> QED BY <2>1, <2>2, <2>3
<1> QED BY <1>1, EventsInvariant, PTL

\* A command that ends well has shown all that there was when it asked, or has warned.
THEOREM EndsAreComplete == EventsSpec => []EndsComplete
<1>1. ASSUME EventsInv PROVE EndsComplete
  <2> SUFFICES ASSUME outcome = "ok", ~q.count, ~warned, NEW e \in 1..atStart
               PROVE  e \in ToSet(printed)
    BY DEF EndsComplete
  <2>1. Types /\ Control
    BY <1>1 DEF EventsInv
  <2>2. CommandIs(q) /\ ~q.follow /\ ~q.interactive
    BY <2>1, CommandFacts DEF Types, Control
  <2>3. q.name # "logs"
    BY <2>2 DEF CommandIs
  <2>4. phase # "ids"
    <3>1. phase = "ids" => atStart = 0
      BY <2>1 DEF Control
    <3> QED BY <3>1
  <2>5. rows = <<>>
    BY <2>1, <2>4 DEF Control
  <2>6. PICK n \in Nat : PlainUpTo(n)
    BY <1>1, <2>2, <2>3, <2>4 DEF EventsInv, PlainOK
  <2>7. atStart <= n
    BY <2>2, <2>6 DEF PlainUpTo
  <2>8. printed \o rows = printed
    BY <2>1, <2>5, ConcatEmptySeq DEF Types
  <2>9. Gapless(printed, 0, n)
    BY <2>6, <2>8 DEF PlainUpTo, Fetched
  <2>10. \E i \in DOMAIN printed : printed[i] = e
    <3>1. atStart \in Nat
      BY <2>1 DEF Types
    <3>2. e \in Int /\ 0 < e /\ e <= n
      BY <2>7, <3>1
    <3> QED BY <2>9, <3>2 DEF Gapless
  <2> QED BY <2>10 DEF ToSet
<1> QED BY <1>1, EventsInvariant, PTL

\* No more events and faults than there may be.
Bounded == produced <= MaxEvents /\ faults \in 0..MaxFaults

LEMMA BoundedStep ==
  ASSUME EventsInv, Bounded, [EventsNext]_eventVars
  PROVE  Bounded'
<1> USE EventsAssumption
<1>1. produced \in Nat
  BY DEF EventsInv, Types
<1>2. CASE Produce
  BY <1>1, <1>2 DEF Produce, Bounded
<1>3. CASE ServiceAnswersPage
  BY <1>3 DEF ServiceAnswersPage, Bounded
<1>4. CASE PageRequestFails
  BY <1>4 DEF PageRequestFails, Bounded
<1>5. CASE StartCommand \/ RefuseCount \/ FetcherStep \/ Interrupt \/ UNCHANGED eventVars
  BY <1>5 DEF StartCommand, RefuseCount, FetcherStep, TakePage, StopAtPage, EndAtPage, InsertRow,
              ShowRows, ShowLastRows, Interrupt, eventVars, Bounded
<1> QED BY <1>2, <1>3, <1>4, <1>5 DEF EventsNext

\* Every variable of a query stays in its domain: no more is asked for than there is, and what
\* was there when a command asked is not more than there is now (events.go, logs.go).
THEOREM EventsTypesCorrect == EventsSpec => []EventsTypeOK
<1>1. EventsInit => Bounded
  BY EventsAssumption DEF EventsInit, Bounded
<1>2. ASSUME EventsInv, Bounded PROVE EventsTypeOK
  <2>1. Types /\ Numbers
    BY <1>2 DEF EventsInv
  <2>2. q.ids \in 0..(PageSize + 1)
    <3>1. CASE q \in Commands
      <4>1. q.ids \in {0, PageSize + 1}
        BY <3>1 DEF Commands
      <4> QED BY <4>1, EventsAssumption
    <3>2. CASE q = NoCommand
      BY <3>2, EventsAssumption DEF NoCommand
    <3> QED BY <2>1, <3>1, <3>2 DEF Types
  <2>3. produced \in 0..MaxEvents /\ cursor \in 0..(MaxEvents + PageSize + 1) /\ atStart \in 0..produced
    BY <1>2, <2>1, <2>2, EventsAssumption DEF Types, Numbers, Stock, Bounded
  <2>4. answer.kind \in {"none", "rows", "nil", "empty", "nomain"}
    BY <2>1 DEF Types, Answers
  <2> QED BY <1>2, <2>1, <2>3, <2>4 DEF EventsTypeOK, Types, Bounded
<1>3. EventsInv /\ Bounded /\ [EventsNext]_eventVars => Bounded'
  BY BoundedStep
<1> QED BY <1>1, <1>2, <1>3, EventsInvariant, PTL DEF EventsSpec

-----------------------------------------------------------------------------
(* The optimizers                                                          *)

Objects == [id : Ids, desired : {"none", "started", "stopped"}, suspensions : SUBSET SuspensionIds,
            ignored : SUBSET Blockers, notes : SUBSET Users,
            override : {"none", "soft", "hard", "hand"}, etag : Nat]

\* The commands that write what they have read: those of `optimize`, and the editor.
Managers == {"start", "stop", "suspend", "unsuspend"}
Editors == Managers \cup {"edit"}

\* The commands that write what a user wrote.
Handed == {"configure", "edit", "update", "insert"}

ObjectTypes ==
  /\ store \in [Ids -> Objects]
  /\ version \in Nat
  /\ busy \in [Users -> Operations \cup {NoOperation}]
  /\ todo \in [Users -> Seq({"read", "report", "write"})]
  /\ copy \in [Users -> [id : Ids, object : Objects]]
  /\ report \in [Users -> SUBSET Blockers]
  /\ due \in [Ids -> SUBSET SuspensionIds]
  /\ kept \in [Ids -> SUBSET Users]
  /\ blind \in BOOLEAN

\* A command that has something to do is one; an editor that has come to write has read an object,
\* and the one of the ID if it names one.
Progress ==
  \A u \in Users :
    /\ todo[u] # <<>> => busy[u] \in Operations
    /\ busy[u].op \in Editors =>
         \/ todo[u] = <<"read", "write">>
         \/ /\ todo[u] = <<"write">> /\ copy[u].object # NoObject
            /\ busy[u].by = "id" => copy[u].id = busy[u].id

\* Entity tags are those of writes that were made.
Tags ==
  /\ \A id \in Ids : store[id].etag <= version
  /\ \A u \in Users : copy[u].object.etag <= version

\* A copy that has the tag of the object is the object.
Copies ==
  \A u \in Users :
    /\ copy[u].object # NoObject
    /\ copy[u].id \in Existing
    /\ store[copy[u].id].etag = copy[u].object.etag
    => copy[u].object = store[copy[u].id]

\* Every object that is stored or was read is there and ignores no unknown blocker; but by hand,
\* it ignores none without an override, and no hard one without the override for it.
Allowed(o) ==
  /\ o.desired = "none" => o = NoObject
  /\ "unknown" \notin o.ignored
  /\ o.override # "hand" =>
       /\ o.ignored # {} => o.override # "none"
       /\ "hard" \in o.ignored => o.override = "hard"
Blocking ==
  /\ \A id \in Ids : Allowed(store[id])
  /\ \A u \in Users : Allowed(copy[u].object)

OptimizersInv ==
  ObjectTypes /\ Progress /\ Tags /\ Copies /\ Blocking /\ SuspensionsSurvive /\ EditsAllKept

-----------------------------------------------------------------------------
LEMMA OperationFacts ==
  ASSUME NEW c \in Operations
  PROVE  /\ c.op \in Editors \cup {"configure", "update", "insert", "delete"}
         /\ c.id \in Ids
         /\ c.op \in {"suspend", "unsuspend"} => c.arg \in SuspensionIds
         /\ c.op = "configure" => c.override \in {"none", "soft", "hard"}
         /\ c.op \in {"edit", "update", "delete"} => c.by = "id"
         /\ c.op \in Handed => c.file \in {"none", "settings", "all"}
         /\ c.op \in {"update", "insert"} => c.file = "all"
         /\ c.op \in Handed /\ c.file # "none" => c.hand \in HandWritten
BY DEF Operations, Ids, Editors, Managers, Handed

LEMMA NoOperationFacts == NoOperation.op \notin Editors /\ NoOperation.op = "none"
BY DEF NoOperation, Editors, Managers

LEMMA ObjectFacts ==
  /\ NewObject \in Objects /\ NoObject \in Objects
  /\ Allowed(NewObject) /\ Allowed(NoObject)
  /\ NewObject.etag = 0 /\ NoObject.etag = 0
BY DEF NewObject, NoObject, Objects, Allowed, Ids

\* What is written by hand over an object is one too; it stays what it was but for what the user wrote.
LEMMA ByHandFacts ==
  ASSUME NEW c \in Operations, c.op \in Handed, NEW o \in Objects, Allowed(o), o.desired # "none"
  PROVE  /\ ByHand(c, o) \in Objects /\ Allowed(ByHand(c, o)) /\ ByHand(c, o).desired # "none"
         /\ ByHand(c, o).notes = o.notes /\ ByHand(c, o).etag = o.etag
         /\ c.file = "none" => ByHand(c, o) = o
<1>1. c.file \in {"none", "settings", "all"}
  BY OperationFacts
<1>2. CASE c.file = "none"
  BY <1>2 DEF ByHand
<1>3. CASE c.file # "none"
  <2> DEFINE h == c.hand
             n == ByHand(c, o)
  <2>1. h \in [id : Ids, desired : {"started", "stopped"}, suspensions : SUBSET SuspensionIds,
               ignored : SUBSET {"soft", "hard"}]
    BY <1>3, OperationFacts, HandWrittenAssumption
  <2>2. CASE c.file = "settings"
    <3>1. n = [o EXCEPT !.id = h.id, !.desired = h.desired, !.suspensions = h.suspensions]
      BY <2>2 DEF ByHand
    <3> HIDE DEF n, h
    <3>2. n = [id |-> h.id, desired |-> h.desired, suspensions |-> h.suspensions,
               ignored |-> o.ignored, notes |-> o.notes, override |-> o.override, etag |-> o.etag]
      BY <3>1 DEF Objects
    <3>3. n \in Objects /\ n.desired # "none"
      BY <2>1, <3>2 DEF Objects
    <3>4. Allowed(n)
      BY <3>2, <3>3 DEF Allowed
    <3> QED BY <1>3, <3>2, <3>3, <3>4 DEF n
  <2>3. CASE c.file = "all"
    <3>1. n = [o EXCEPT !.id = h.id, !.desired = h.desired, !.suspensions = h.suspensions,
                        !.ignored = h.ignored, !.override = "hand"]
      BY <2>3 DEF ByHand
    <3> HIDE DEF n, h
    <3>2. n = [id |-> h.id, desired |-> h.desired, suspensions |-> h.suspensions,
               ignored |-> h.ignored, notes |-> o.notes, override |-> "hand", etag |-> o.etag]
      BY <3>1 DEF Objects
    <3>3. n \in Objects /\ n.desired # "none"
      BY <2>1, <3>2 DEF Objects, Blockers
    <3>4. Allowed(n)
      BY <2>1, <3>2, <3>3 DEF Allowed
    <3> QED BY <1>3, <3>2, <3>3, <3>4 DEF n
  <2> QED BY <1>1, <1>3, <2>2, <2>3
<1> QED BY <1>2, <1>3

\* Likewise what configure makes of the report.
LEMMA ConfiguredFacts ==
  ASSUME NEW c \in Operations, c.op = "configure", NEW blockers \in SUBSET Blockers,
         BlockersPass(blockers, c.override)
  PROVE  /\ Configured(c, blockers) \in Objects /\ Allowed(Configured(c, blockers))
         /\ Configured(c, blockers).desired # "none"
         /\ Configured(c, blockers).ignored \in SUBSET {"soft", "hard"}
         /\ Configured(c, blockers) =
              [id |-> "own", desired |-> IF c.start THEN "started" ELSE "stopped", suspensions |-> {},
               ignored |-> Known(blockers), notes |-> {}, override |-> c.override, etag |-> 0]
<1> DEFINE desired == IF c.start THEN "started" ELSE "stopped"
           ignored == Known(blockers)
           override == c.override
           n == Configured(c, blockers)
<1>1. n = [NewObject EXCEPT !.desired = desired, !.ignored = ignored, !.override = override]
  BY DEF Configured
<1>2. desired \in {"started", "stopped"} /\ ignored \in SUBSET {"soft", "hard"}
  BY DEF Known, Blockers
<1>3. override \in {"none", "soft", "hard"}
  BY OperationFacts
<1>4. /\ "hard" \in ignored => override = "hard"
      /\ ignored # {} => override # "none"
  BY DEF BlockersPass, CheckHardBlockers, Known
<1> HIDE DEF desired, ignored, override, n
<1>5. n = [id |-> "own", desired |-> desired, suspensions |-> {}, ignored |-> ignored, notes |-> {},
           override |-> override, etag |-> 0]
  BY <1>1 DEF NewObject
<1>6. n \in Objects /\ n.desired # "none" /\ n.ignored \in SUBSET {"soft", "hard"}
  BY <1>2, <1>3, <1>5 DEF Objects, Blockers, Ids
<1>7. Allowed(n)
  BY <1>2, <1>4, <1>5, <1>6 DEF Allowed
<1> QED BY <1>5, <1>6, <1>7 DEF n, desired, ignored, override

LEMMA PlanFacts ==
  /\ <<"read", "write">> \in Seq({"read", "report", "write"})
  /\ <<"write">> \in Seq({"read", "report", "write"})
  /\ <<"read", "report", "write">> \in Seq({"read", "report", "write"})
  /\ <<"report", "read", "write">> \in Seq({"read", "report", "write"})
  /\ <<>> \in Seq({"read", "report", "write"})
OBVIOUS

\* The plans of the commands, and what is left of those of the editors.
LEMMA StepsFacts ==
  ASSUME NEW c \in Operations
  PROVE  /\ Steps(c) \in Seq({"read", "report", "write"})
         /\ c.op \in Editors => Steps(c) = <<"read", "write">>
<1>1. CASE c.op \in Editors
  <2>1. Steps(c) = <<"read", "write">>
    BY <1>1 DEF Steps, Editors, Managers
  <2> QED BY <2>1, PlanFacts
<1>2. CASE c.op = "configure"
  <2>1. Steps(c) \in {<<"read", "report", "write">>, <<"report", "read", "write">>, <<"write">>}
    BY <1>2 DEF Steps
  <2> QED BY <1>2, <2>1, PlanFacts DEF Editors, Managers
<1>3. CASE c.op \in {"update", "insert", "delete"}
  <2>1. Steps(c) = <<"write">>
    BY <1>3 DEF Steps
  <2> QED BY <1>3, <2>1, PlanFacts DEF Editors, Managers
<1> QED BY <1>1, <1>2, <1>3, OperationFacts

LEMMA TodoFacts ==
  /\ <<"read", "write">> # <<>> /\ <<"write">> # <<>>
  /\ Head(<<"read", "write">>) = "read" /\ Tail(<<"read", "write">>) = <<"write">>
  /\ Head(<<"write">>) = "write" /\ <<"write">> # <<"read", "write">>
OBVIOUS

LEMMA TailFacts ==
  ASSUME NEW S, NEW s \in Seq(S), s # <<>>
  PROVE  Tail(s) \in Seq(S)
OBVIOUS
LEMMA InitOptimizersInv == OptimizersInit => OptimizersInv
<1> SUFFICES ASSUME OptimizersInit PROVE OptimizersInv
  OBVIOUS
<1> USE DEF OptimizersInit
<1>1. PICK own \in {NewObject, NoObject} :
        store = [id \in Ids |-> IF id = "own" THEN own ELSE NoObject]
  OBVIOUS
<1>2. \A id \in Ids : store[id] \in {NewObject, NoObject}
  BY <1>1
<1>3. ObjectTypes
  <2>1. store \in [Ids -> Objects] /\ version \in Nat /\ blind \in BOOLEAN
    BY <1>1, <1>2, ObjectFacts
  <2>2. busy \in [Users -> Operations \cup {NoOperation}]
    OBVIOUS
  <2>3. todo \in [Users -> Seq({"read", "report", "write"})]
    BY PlanFacts
  <2>4. copy \in [Users -> [id : Ids, object : Objects]]
    BY ObjectFacts DEF Ids
  <2>5. /\ report \in [Users -> SUBSET Blockers]
        /\ due \in [Ids -> SUBSET SuspensionIds] /\ kept \in [Ids -> SUBSET Users]
    OBVIOUS
  <2> QED BY <2>1, <2>2, <2>3, <2>4, <2>5 DEF ObjectTypes
<1>4. Progress
  BY NoOperationFacts DEF Progress
<1>5. Tags
  BY <1>2, ObjectFacts DEF Tags
<1>6. Copies
  BY DEF Copies
<1>7. Blocking
  BY <1>2, ObjectFacts DEF Blocking
<1>8. SuspensionsSurvive /\ EditsAllKept
  BY DEF SuspensionsSurvive, EditsAllKept
<1> QED BY <1>3, <1>4, <1>5, <1>6, <1>7, <1>8 DEF OptimizersInv

LEMMA BeginInv ==
  ASSUME OptimizersInv, NEW u \in Users, NEW c \in Operations, BeginOperation(u, c)
  PROVE  OptimizersInv'
<1> USE DEF OptimizersInv, BeginOperation
<1>1. ObjectTypes'
  BY StepsFacts DEF ObjectTypes
<1>2. Progress'
  BY StepsFacts DEF Progress, ObjectTypes
<1>3. Tags' /\ Copies' /\ Blocking'
  BY DEF Tags, Copies, Existing, Blocking
<1>4. SuspensionsSurvive' /\ EditsAllKept'
  BY DEF SuspensionsSurvive, EditsAllKept
<1> QED BY <1>1, <1>2, <1>3, <1>4

\* A command that is over leaves nothing behind it but what it wrote.
LEMMA EndedFacts ==
  ASSUME ObjectTypes, Progress, NEW u \in Users, Ended(u)
  PROVE  /\ busy' \in [Users -> Operations \cup {NoOperation}]
         /\ todo' \in [Users -> Seq({"read", "report", "write"})]
         /\ copy' \in [Users -> [id : Ids, object : Objects]]
         /\ report' \in [Users -> SUBSET Blockers]
         /\ Progress'
         /\ copy'[u].object = NoObject
         /\ \A v \in Users : v # u => copy'[v] = copy[v]
<1>1. [id |-> "own", object |-> NoObject] \in [id : Ids, object : Objects]
  BY ObjectFacts DEF Ids
<1>2. Progress'
  BY NoOperationFacts DEF Progress, ObjectTypes, Ended
<1> QED BY <1>1, <1>2 DEF ObjectTypes, Ended

LEMMA AbandonInv ==
  ASSUME OptimizersInv, NEW u \in Users, Abandon(u)
  PROVE  OptimizersInv'
<1> USE DEF OptimizersInv, Abandon
<1>1. ObjectTypes' /\ Progress'
  BY EndedFacts DEF ObjectTypes
<1>2. copy'[u].object = NoObject /\ \A v \in Users : v # u => copy'[v] = copy[v]
  BY EndedFacts
<1>3. Tags'
  BY <1>2, ObjectFacts DEF ObjectTypes, Tags
<1>4. Blocking'
  BY <1>2, ObjectFacts DEF Blocking
<1>5. Copies'
  BY <1>2 DEF Copies, Existing
<1>6. SuspensionsSurvive' /\ EditsAllKept'
  BY DEF SuspensionsSurvive, EditsAllKept
<1> QED BY <1>1, <1>3, <1>4, <1>5, <1>6

LEMMA ReadReportInv ==
  ASSUME OptimizersInv, NEW u \in Users, ReadReport(u)
  PROVE  OptimizersInv'
<1> USE DEF OptimizersInv, ReadReport
<1>1. todo[u] \in Seq({"read", "report", "write"}) /\ todo[u] # <<>> /\ Head(todo[u]) = "report"
  BY DEF ObjectTypes, Has
<1>2. busy[u] \in Operations /\ busy[u].op \notin Editors
  BY <1>1, TodoFacts DEF Progress
<1>3. ObjectTypes'
  BY <1>1, TailFacts DEF ObjectTypes, Reports, Blockers
<1>4. Progress'
  BY <1>2 DEF Progress, ObjectTypes
<1>5. Tags' /\ Copies' /\ Blocking'
  BY DEF Tags, Copies, Existing, Blocking
<1>6. SuspensionsSurvive' /\ EditsAllKept'
  BY DEF SuspensionsSurvive, EditsAllKept
<1> QED BY <1>3, <1>4, <1>5, <1>6

LEMMA ReadObjectInv ==
  ASSUME OptimizersInv, NEW u \in Users, ReadObject(u)
  PROVE  OptimizersInv'
<1> USE DEF OptimizersInv, ReadObject
<1>1. todo[u] \in Seq({"read", "report", "write"}) /\ todo[u] # <<>> /\ Head(todo[u]) = "read"
  BY DEF ObjectTypes, Has
<1>2. busy[u] \in Operations
  BY <1>1 DEF Progress
<1>3. CASE Creates(busy[u])
  <2>1. busy[u].op \notin Editors /\ UNCHANGED copy
    BY <1>3 DEF Creates, Editors, Managers
  <2>2. ObjectTypes'
    BY <1>1, <2>1, TailFacts DEF ObjectTypes
  <2>3. Progress'
    BY <1>2, <2>1 DEF Progress, ObjectTypes
  <2>4. Tags' /\ Copies' /\ Blocking'
    BY <2>1 DEF Tags, Copies, Existing, Blocking
  <2>5. SuspensionsSurvive' /\ EditsAllKept'
    BY DEF SuspensionsSurvive, EditsAllKept
  <2> QED BY <2>2, <2>3, <2>4, <2>5
<1>4. CASE ~Creates(busy[u])
  <2>1. PICK id \in Existing : /\ copy' = [copy EXCEPT ![u] = [id |-> id, object |-> store[id]]]
                               /\ busy[u].by = "id" => id = busy[u].id
    BY <1>4 DEF Found
  <2>2. id \in Ids /\ store[id] # NoObject /\ store[id] \in Objects
    BY <2>1 DEF Existing, ObjectTypes
  <2>3. copy' \in [Users -> [id : Ids, object : Objects]]
    BY <2>1, <2>2 DEF ObjectTypes
  <2>4. /\ copy'[u].id = id /\ copy'[u].object = store[id]
        /\ \A v \in Users : v # u => copy'[v] = copy[v]
    BY <2>1 DEF ObjectTypes
  <2>5. ObjectTypes'
    BY <1>1, <2>3, TailFacts DEF ObjectTypes
  <2>6. Progress'
    BY <1>1, <1>2, <2>1, <2>2, <2>4, TodoFacts DEF Progress, ObjectTypes
  <2>7. Tags' /\ Blocking'
    BY <2>2, <2>4 DEF Tags, Blocking
  <2>8. Copies'
    BY <2>4 DEF Copies, Existing
  <2>9. SuspensionsSurvive' /\ EditsAllKept'
    BY DEF SuspensionsSurvive, EditsAllKept
  <2> QED BY <2>5, <2>6, <2>7, <2>8, <2>9
<1> QED BY <1>3, <1>4
-----------------------------------------------------------------------------
\* What a command writes is an object that may be stored, whatever was read and reported.
LEMMA WrittenFacts ==
  ASSUME OptimizersInv, NEW u \in Users, Has(u, "write"), Accepts(u)
  PROVE  /\ busy[u] \in Operations
         /\ Target(u) \in Ids
         /\ Written(u) \in Objects /\ Allowed(Written(u))
         /\ Written(u) = NoObject <=> busy[u].op = "delete"
         /\ busy[u].op \in Editors => copy[u].object # NoObject
         /\ busy[u].op = "edit" => Target(u) = copy[u].id
         /\ busy[u].op \notin {"edit", "update", "delete"} => Target(u) = Written(u).id
<1> DEFINE c == busy[u]
           o == copy[u].object
           new == Written(u)
<1>1. todo[u] # <<>> /\ Head(todo[u]) = "write"
  BY DEF Has
<1>2. c \in Operations
  BY <1>1, TodoFacts DEF OptimizersInv, Progress
<1>3. c.op \in Editors => o # NoObject /\ (c.by = "id" => copy[u].id = c.id)
  BY <1>1, TodoFacts DEF OptimizersInv, Progress
<1>4. o \in Objects /\ Allowed(o) /\ copy[u].id \in Ids /\ report[u] \in SUBSET Blockers
  BY DEF OptimizersInv, ObjectTypes, Blocking
<1>5. c.op \in Editors => o.desired # "none"
  BY <1>3, <1>4 DEF Allowed
<1>6. NoObject.desired = "none"
  BY DEF NoObject, NewObject
<1>7. ASSUME c.op \in Managers
      PROVE  new \in Objects /\ Allowed(new) /\ new # NoObject
  <2>1. o.desired # "none"
    BY <1>5, <1>7 DEF Editors
  <2>2. CASE c.op = "start"
    <3>1. new = [o EXCEPT !.desired = "started"]
      BY <2>2 DEF Written, Started
    <3> HIDE DEF new, o
    <3> QED BY <1>4, <1>6, <2>1, <3>1 DEF Objects, Allowed
  <2>3. CASE c.op = "stop"
    <3>1. new = [o EXCEPT !.desired = "stopped"]
      BY <2>3 DEF Written
    <3> HIDE DEF new, o
    <3> QED BY <1>4, <1>6, <2>1, <3>1 DEF Objects, Allowed
  <2>4. ASSUME NEW x \in SUBSET SuspensionIds, new = [o EXCEPT !.suspensions = x]
        PROVE  new \in Objects /\ Allowed(new) /\ new # NoObject
    <3> HIDE DEF new, o
    <3> QED BY <1>4, <1>6, <2>1, <2>4 DEF Objects, Allowed
  <2>5. CASE c.op = "suspend"
    <3> DEFINE x == o.suspensions \cup {c.arg}
    <3>1. new = [o EXCEPT !.suspensions = x]
      BY <2>5 DEF Written
    <3>2. x \in SUBSET SuspensionIds
      BY <1>2, <1>4, <2>5, OperationFacts DEF Objects
    <3> HIDE DEF x, new, o
    <3> QED BY <2>4, <3>1, <3>2
  <2>6. CASE c.op = "unsuspend"
    <3> DEFINE x == o.suspensions \ {c.arg}
    <3>1. new = [o EXCEPT !.suspensions = x]
      BY <2>6 DEF Written
    <3>2. x \in SUBSET SuspensionIds
      BY <1>4 DEF Objects
    <3> HIDE DEF x, new, o
    <3> QED BY <2>4, <3>1, <3>2
  <2> QED BY <1>7, <2>2, <2>3, <2>5, <2>6 DEF Managers
<1>8. ASSUME c.op = "edit"
      PROVE  new \in Objects /\ Allowed(new) /\ new # NoObject
  <2> DEFINE n == ByHand(c, o)
             x == n.notes \cup {u}
  <2>1. n \in Objects /\ Allowed(n) /\ n.desired # "none"
    BY <1>2, <1>4, <1>5, <1>8, ByHandFacts DEF Editors, Handed
  <2>2. new = [n EXCEPT !.notes = x]
    BY <1>8 DEF Written
  <2>3. x \in SUBSET Users
    BY <2>1 DEF Objects
  <2> HIDE DEF n, x, new
  <2> QED BY <1>6, <2>1, <2>2, <2>3 DEF Objects, Allowed
<1>9. ASSUME c.op = "configure"
      PROVE  new \in Objects /\ Allowed(new) /\ new # NoObject
  <2>1. BlockersPass(report[u], c.override)
    BY <1>9 DEF Accepts
  <2>2. new = ByHand(c, Configured(c, report[u]))
    BY <1>9 DEF Written
  <2> HIDE DEF new
  <2> QED BY <1>2, <1>4, <1>6, <1>9, <2>1, <2>2, ConfiguredFacts, ByHandFacts DEF Handed
<1>10. ASSUME c.op \in {"update", "insert"}
       PROVE  new \in Objects /\ Allowed(new) /\ new # NoObject
  <2>1. new = ByHand(c, NewObject)
    BY <1>10 DEF Written
  <2>2. NewObject.desired # "none"
    BY DEF NewObject
  <2> HIDE DEF new
  <2> QED BY <1>2, <1>6, <1>10, <2>1, <2>2, ByHandFacts, ObjectFacts DEF Handed
<1>11. c.op = "delete" => new = NoObject
  BY DEF Written
<1>12. /\ new \in Objects /\ Allowed(new)
       /\ new = NoObject <=> c.op = "delete"
  <2> HIDE DEF new
  <2>1. c.op \in Managers \cup {"edit", "configure", "update", "insert", "delete"}
    BY <1>2, OperationFacts DEF Editors
  <2>2. "delete" \notin Managers \cup {"edit", "configure", "update", "insert"}
    BY DEF Managers
  <2> QED BY <1>7, <1>8, <1>9, <1>10, <1>11, <2>1, <2>2, ObjectFacts
<1>13. Target(u) = IF c.op \in {"edit", "update", "delete"} THEN c.id ELSE new.id
  BY DEF Target
<1>14. Target(u) \in Ids
  <2> HIDE DEF new
  <2> QED BY <1>2, <1>12, <1>13, OperationFacts DEF Objects
<1>15. c.op = "edit" => Target(u) = copy[u].id
  BY <1>2, <1>3, <1>13, OperationFacts DEF Editors
<1> QED BY <1>2, <1>3, <1>12, <1>13, <1>14, <1>15

\* A command that writes over what it has not seen is blind: else it read what it writes over.
LEMMA SeenFacts ==
  ASSUME OptimizersInv, NEW u \in Users, Has(u, "write"), Accepts(u), StoreTakes(u),
         busy[u].op \in Editors, ~Stale(u)
  PROVE  copy[u].object = store[Target(u)] /\ Target(u) = copy[u].id
<1>1. copy[u].object # NoObject
  BY WrittenFacts
<1>2. busy[u].op = "edit" \/ busy[u].op \in Managers
  BY DEF Editors
<1>3. Target(u) = copy[u].id
  BY <1>2, WrittenFacts DEF Stale, Managers
<1>4. Target(u) \in Existing /\ store[Target(u)].etag \in SentVersion(u)
  BY DEF StoreTakes, Creates, Editors, Managers
<1>5. store[Target(u)].etag = copy[u].object.etag
  BY <1>2, <1>4 DEF Stale, SentVersion, Managers
<1> QED BY <1>1, <1>3, <1>4, <1>5 DEF OptimizersInv, Copies

LEMMA WriteInv ==
  ASSUME OptimizersInv, NEW u \in Users, WriteObject(u)
  PROVE  OptimizersInv'
<1> DEFINE c == busy[u]
           id == Target(u)
           new == Written(u)
           stored == IF new = NoObject THEN new ELSE [new EXCEPT !.etag = version + 1]
<1> USE DEF OptimizersInv
<1>1. Has(u, "write") /\ Accepts(u) /\ StoreTakes(u) /\ Ended(u)
  BY DEF WriteObject
<1>2. PICK heard \in BOOLEAN :
        /\ store' = [store EXCEPT ![id] = stored]
        /\ due' = [due EXCEPT ![id] = DueNow(u, id, heard)]
        /\ kept' = [kept EXCEPT ![id] = KeptNow(u, id, heard)]
  BY DEF WriteObject
<1>3. version' = version + 1 /\ blind' = (blind \/ Stale(u)) /\ version \in Nat
  BY DEF WriteObject, ObjectTypes
<1>4. c \in Operations /\ id \in Ids /\ new \in Objects /\ Allowed(new)
  BY <1>1, WrittenFacts
<1>5. /\ stored \in Objects /\ Allowed(stored)
      /\ stored.suspensions = new.suspensions /\ stored.notes = new.notes
      /\ stored = NoObject \/ stored.etag = version + 1
      /\ stored.etag <= version + 1
  BY <1>3, <1>4, ObjectFacts DEF Objects, Allowed
<1>6. store'[id] = stored /\ \A other \in Ids : other # id => store'[other] = store[other]
  BY <1>2, <1>4 DEF ObjectTypes
<1>7. /\ c.op \in Editors \cup {"configure", "update", "insert", "delete"}
      /\ c.op \in {"suspend", "unsuspend"} => c.arg \in SuspensionIds
  BY <1>4, OperationFacts
<1>8. due[id] \in SUBSET SuspensionIds /\ kept[id] \in SUBSET Users
  BY <1>4 DEF ObjectTypes
<1>9. /\ DueNow(u, id, heard) \in SUBSET SuspensionIds
      /\ KeptNow(u, id, heard) \in SUBSET Users
  BY <1>7, <1>8 DEF DueNow, KeptNow
<1>10. copy'[u].object = NoObject /\ \A v \in Users : v # u => copy'[v] = copy[v]
  BY <1>1, EndedFacts
<1>11. ObjectTypes'
  <2>1. store' \in [Ids -> Objects]
    BY <1>2, <1>5 DEF ObjectTypes
  <2>2. version' \in Nat
    BY <1>3
  <2>3. blind' \in BOOLEAN
    BY <1>3, Zenon DEF ObjectTypes, Stale
  <2>4. due' \in [Ids -> SUBSET SuspensionIds] /\ kept' \in [Ids -> SUBSET Users]
    BY <1>2, <1>9 DEF ObjectTypes
  <2> QED BY <1>1, <2>1, <2>2, <2>3, <2>4, EndedFacts DEF ObjectTypes
<1>12. Progress'
  BY <1>1, EndedFacts
<1>13. Tags'
  <2>1. \A tag \in Nat : tag <= version => tag <= version'
    BY <1>3
  <2>2. ASSUME NEW other \in Ids PROVE store'[other].etag <= version'
    <3>1. CASE other = id
      BY <1>3, <1>5, <1>6, <3>1
    <3>2. CASE other # id
      <4>1. store[other].etag \in Nat /\ store[other].etag <= version
        BY DEF ObjectTypes, Tags, Objects
      <4> QED BY <1>6, <2>1, <3>2, <4>1
    <3> QED BY <3>1, <3>2
  <2>3. ASSUME NEW v \in Users PROVE copy'[v].object.etag <= version'
    <3>1. copy'[v].object = copy[v].object \/ copy'[v].object = NoObject
      BY <1>10
    <3>2. copy[v].object.etag \in Nat /\ copy[v].object.etag <= version
      BY DEF ObjectTypes, Tags, Objects
    <3> QED BY <1>3, <2>1, <3>1, <3>2, ObjectFacts
  <2> QED BY <2>2, <2>3 DEF Tags
<1>14. Copies'
  <2> SUFFICES ASSUME NEW v \in Users, copy'[v].object # NoObject,
                      copy'[v].id \in Ids, store'[copy'[v].id] # NoObject,
                      store'[copy'[v].id].etag = copy'[v].object.etag
               PROVE  copy'[v].object = store'[copy'[v].id]
    BY DEF Copies, Existing
  <2>1. copy'[v] = copy[v]
    BY <1>10
  <2>2. copy[v].id # id
    <3>1. copy[v].object.etag <= version /\ copy[v].object.etag \in Nat
      BY DEF Tags, ObjectTypes, Objects
    <3>2. copy[v].id = id => copy[v].object.etag = version + 1
      BY <1>5, <1>6, <2>1
    <3> QED BY <1>3, <3>1, <3>2
  <2> QED BY <1>6, <2>1, <2>2 DEF Copies, Existing
<1>15. Blocking'
  <2>1. \A other \in Ids : Allowed(store'[other])
    BY <1>5, <1>6 DEF Blocking
  <2>2. \A v \in Users : Allowed(copy'[v].object)
    BY <1>10, ObjectFacts DEF Blocking
  <2> QED BY <2>1, <2>2 DEF Blocking, Allowed
<1>16. ~blind' => /\ DueNow(u, id, heard) \subseteq new.suspensions
                  /\ KeptNow(u, id, heard) \subseteq new.notes
  <2> SUFFICES ASSUME ~blind, ~Stale(u)
               PROVE  /\ DueNow(u, id, heard) \subseteq new.suspensions
                      /\ KeptNow(u, id, heard) \subseteq new.notes
    BY <1>3
  <2>1. CASE c.op \in Editors
    <3> DEFINE o == store[id]
    <3>1. copy[u].object = o
      BY <1>1, <2>1, SeenFacts
    <3>2. due[id] \subseteq o.suspensions /\ kept[id] \subseteq o.notes
      BY <1>4 DEF SuspensionsSurvive, EditsAllKept
    <3>3. o \in Objects
      BY <1>4 DEF ObjectTypes
    <3>4. CASE c.op = "start"
      BY <3>1, <3>2, <3>3, <3>4 DEF Written, Started, DueNow, KeptNow, Objects
    <3>5. CASE c.op = "stop"
      BY <3>1, <3>2, <3>3, <3>5 DEF Written, DueNow, KeptNow, Objects
    <3>6. CASE c.op = "suspend"
      BY <3>1, <3>2, <3>3, <3>6 DEF Written, DueNow, KeptNow, Objects
    <3>7. CASE c.op = "unsuspend"
      BY <3>1, <3>2, <3>3, <3>7 DEF Written, DueNow, KeptNow, Objects
    <3>8. CASE c.op = "edit"
      <4> DEFINE n == ByHand(c, o)
      <4>1. o.desired # "none"
        BY <1>1, <1>4, <2>1, <3>1, WrittenFacts DEF Blocking, Allowed
      <4>2. n \in Objects /\ n.notes = o.notes /\ (c.file = "none" => n = o)
        BY <1>4, <3>3, <3>8, <4>1, ByHandFacts DEF Blocking, Handed
      <4>3. new = [n EXCEPT !.notes = @ \cup {u}]
        BY <3>1, <3>8 DEF Written
      <4>4. new.suspensions = n.suspensions /\ new.notes = o.notes \cup {u}
        <5> HIDE DEF n, new, o
        <5> QED BY <4>2, <4>3 DEF Objects
      <4>5. DueNow(u, id, heard) = {} \/ (DueNow(u, id, heard) = due[id] /\ c.file = "none")
        BY <3>8 DEF DueNow
      <4>6. KeptNow(u, id, heard) \subseteq kept[id] \cup {u}
        BY <3>8 DEF KeptNow
      <4> HIDE DEF n, new, o
      <4> QED BY <3>2, <4>2, <4>4, <4>5, <4>6
    <3> QED BY <2>1, <3>4, <3>5, <3>6, <3>7, <3>8 DEF Editors, Managers
  <2>2. CASE c.op \in {"configure", "update", "insert", "delete"}
    BY <2>2 DEF DueNow, KeptNow
  <2> QED BY <1>7, <2>1, <2>2
<1>17. \A other \in Ids : /\ due'[other] = IF other = id THEN DueNow(u, id, heard) ELSE due[other]
                          /\ kept'[other] = IF other = id THEN KeptNow(u, id, heard) ELSE kept[other]
  BY <1>2 DEF ObjectTypes
<1>18. SuspensionsSurvive' /\ EditsAllKept'
  BY <1>3, <1>5, <1>6, <1>16, <1>17 DEF SuspensionsSurvive, EditsAllKept
<1> QED BY <1>11, <1>12, <1>13, <1>14, <1>15, <1>18

-----------------------------------------------------------------------------
\* The strengthened invariant holds in every state of every run.
LEMMA OptimizersInvariant == OptimizersSpec => []OptimizersInv
<1>1. OptimizersInv /\ [OptimizersNext]_optimizerVars => OptimizersInv'
  <2> SUFFICES ASSUME OptimizersInv, [OptimizersNext]_optimizerVars
               PROVE  OptimizersInv'
    OBVIOUS
  <2>1. CASE UNCHANGED optimizerVars
    BY <2>1 DEF optimizerVars, OptimizersInv, ObjectTypes, Progress, Tags, Copies, Blocking, Allowed,
                Existing, SuspensionsSurvive, EditsAllKept
  <2>2. ASSUME NEW u \in Users, NEW c \in Operations, BeginOperation(u, c) PROVE OptimizersInv'
    BY <2>2, BeginInv
  <2>3. ASSUME NEW u \in Users, Abandon(u) PROVE OptimizersInv'
    BY <2>3, AbandonInv
  <2>4. ASSUME NEW u \in Users, ReadObject(u) PROVE OptimizersInv'
    BY <2>4, ReadObjectInv
  <2>5. ASSUME NEW u \in Users, ReadReport(u) PROVE OptimizersInv'
    BY <2>5, ReadReportInv
  <2>6. ASSUME NEW u \in Users, WriteObject(u) PROVE OptimizersInv'
    BY <2>6, WriteInv
  <2> QED BY <2>1, <2>2, <2>3, <2>4, <2>5, <2>6 DEF OptimizersNext
<1> QED BY InitOptimizersInv, <1>1, PTL DEF OptimizersSpec

-----------------------------------------------------------------------------
(* The atomic commands                                                     *)

\* Contents tells whether there is an object, and keeps all that the abstract one has.
LEMMA ContentsFacts ==
  ASSUME NEW o \in Objects, Allowed(o)
  PROVE  /\ Contents(o) = Atomic!Absent <=> o = NoObject
         /\ o # NoObject => Contents(o) \in Atomic!Objects
<1>1. CASE o = NoObject
  BY <1>1 DEF Contents, NoObject, NewObject, Atomic!Absent, Atomic!New
<1>2. CASE o # NoObject
  <2>1. o.desired \in {"started", "stopped"} /\ Contents(o).desired = o.desired
    BY <1>2 DEF Allowed, Objects, Contents
  <2>2. Atomic!Absent.desired = "none"
    BY DEF Atomic!Absent, Atomic!New
  <2>3. o.ignored \in SUBSET {"soft", "hard"}
    BY DEF Allowed, Objects, Blockers
  <2>4. Atomic!Lawful(o.ignored, o.override)
    BY DEF Allowed, Atomic!Lawful
  <2>5. Contents(o) \in Atomic!Objects
    BY <2>1, <2>3, <2>4 DEF Contents, Objects, Atomic!Objects
  <2> QED BY <1>2, <2>1, <2>2, <2>5
<1> QED BY <1>1, <1>2

\* What is written by hand over an object is the same for its readers.
LEMMA ByHandContents ==
  ASSUME NEW c \in Operations, c.op \in Handed, NEW o \in Objects
  PROVE  Contents(ByHand(c, o)) = Atomic!ByHand(c, Contents(o))
<1> DEFINE h == c.hand
           n == ByHand(c, o)
           a == Contents(o)
<1>1. c.file \in {"none", "settings", "all"}
  BY OperationFacts
<1>2. CASE c.file = "none"
  BY <1>2 DEF ByHand, Atomic!ByHand
<1>3. CASE c.file = "settings"
  <2>1. n = [o EXCEPT !.id = h.id, !.desired = h.desired, !.suspensions = h.suspensions]
    BY <1>3 DEF ByHand
  <2>2. Atomic!ByHand(c, a) = [a EXCEPT !.id = h.id, !.desired = h.desired, !.suspensions = h.suspensions]
    BY <1>3 DEF Atomic!ByHand
  <2> HIDE DEF n, h
  <2>3. Contents(n) = [id |-> h.id, desired |-> h.desired, suspensions |-> h.suspensions,
                       ignored |-> o.ignored, notes |-> o.notes, override |-> o.override]
    BY <2>1 DEF Contents, Objects
  <2>4. Atomic!ByHand(c, a) = [id |-> h.id, desired |-> h.desired, suspensions |-> h.suspensions,
                               ignored |-> o.ignored, notes |-> o.notes, override |-> o.override]
    BY <2>2 DEF Contents
  <2> QED BY <2>3, <2>4 DEF n
<1>4. CASE c.file = "all"
  <2>1. n = [o EXCEPT !.id = h.id, !.desired = h.desired, !.suspensions = h.suspensions,
                      !.ignored = h.ignored, !.override = "hand"]
    BY <1>4 DEF ByHand
  <2>2. Atomic!ByHand(c, a) = [a EXCEPT !.id = h.id, !.desired = h.desired, !.suspensions = h.suspensions,
                                        !.ignored = h.ignored, !.override = "hand"]
    BY <1>4 DEF Atomic!ByHand
  <2> HIDE DEF n, h
  <2>3. Contents(n) = [id |-> h.id, desired |-> h.desired, suspensions |-> h.suspensions,
                       ignored |-> h.ignored, notes |-> o.notes, override |-> "hand"]
    BY <2>1 DEF Contents, Objects
  <2>4. Atomic!ByHand(c, a) = [id |-> h.id, desired |-> h.desired, suspensions |-> h.suspensions,
                               ignored |-> h.ignored, notes |-> o.notes, override |-> "hand"]
    BY <2>2 DEF Contents
  <2> QED BY <2>3, <2>4 DEF n
<1> QED BY <1>1, <1>2, <1>3, <1>4

\* What a write does to the object is what the abstract store takes.
LEMMA WriteTakes ==
  ASSUME OptimizersInv, NEW u \in Users, WriteObject(u)
  PROVE  /\ busy[u] \in Operations /\ Target(u) \in Ids
         /\ Written(u) \in Objects /\ Allowed(Written(u))
         /\ Atomic!Takes(u, Target(u), Contents(Written(u)))
         /\ Atomic!Is(Target(u)) <=> Target(u) \in Existing
<1> DEFINE id == Target(u)
           new == Written(u)
           stored == IF new = NoObject THEN new ELSE [new EXCEPT !.etag = version + 1]
<1>1. Has(u, "write") /\ Accepts(u) /\ Ended(u) /\ store' = [store EXCEPT ![id] = stored]
  BY DEF WriteObject
<1>2. busy[u] \in Operations /\ id \in Ids /\ new \in Objects /\ Allowed(new)
  BY <1>1, WrittenFacts
<1>3. Contents(stored) = Contents(new)
  BY <1>2 DEF Contents, Objects
<1>4. store \in [Ids -> Objects] /\ Allowed(store[id])
  BY <1>2 DEF OptimizersInv, ObjectTypes, Blocking
<1> HIDE DEF id, new, stored
<1>5. [i \in Ids |-> Contents(store'[i])] = [[i \in Ids |-> Contents(store[i])] EXCEPT ![id] = Contents(new)]
  BY <1>1, <1>2, <1>3, <1>4
<1>6. busy' = [busy EXCEPT ![u] = NoOperation]
  BY <1>1 DEF Ended
<1>7. Atomic!Takes(u, id, Contents(new))
  BY <1>5, <1>6 DEF Atomic!Takes
<1>8. Contents(store[id]) = Atomic!Absent <=> store[id] = NoObject
  BY <1>2, <1>4, ContentsFacts
<1>9. Atomic!Is(id) <=> id \in Existing
  BY <1>2, <1>8 DEF Atomic!Is, Existing
<1> QED BY <1>2, <1>7, <1>9 DEF id, new

\* An editor that writes has read the object that it names.
LEMMA ReadBeforeWrite ==
  ASSUME OptimizersInv, NEW u \in Users, Has(u, "write"), busy[u].op \in Editors
  PROVE  todo[u] = <<"write">> /\ (busy[u].by = "id" => copy[u].id = busy[u].id)
<1>1. todo[u] # <<"read", "write">>
  BY DEF Has
<1> QED BY <1>1 DEF OptimizersInv, Progress

\* A write of what was read, if it is what is there, has the effect of the command on what is there.
LEMMA EditEffect ==
  ASSUME OptimizersInv, NEW u \in Users, WriteObject(u), busy[u].op \in Editors, ~Stale(u)
  PROVE  LET id == Target(u)
         IN  \/ Atomic!Start(u, id) \/ Atomic!Stop(u, id) \/ Atomic!Suspend(u, id)
             \/ Atomic!Unsuspend(u, id) \/ Atomic!Edit(u, id)
<1> DEFINE id == Target(u)
           c == busy[u]
           o == store[id]
           seen == [i \in Ids |-> Contents(store[i])]
<1>1. Has(u, "write") /\ Accepts(u) /\ StoreTakes(u)
  BY DEF WriteObject
<1>2. c \in Operations /\ id \in Ids /\ o \in Objects /\ seen[id] = Contents(o)
  BY WriteTakes DEF OptimizersInv, ObjectTypes
<1>3. copy[u].object = o
  BY <1>1, SeenFacts
<1>4. Atomic!Names(u, id)
  <2>1. todo[u] = <<"write">> /\ (c.by = "id" => copy[u].id = c.id)
    BY <1>1, ReadBeforeWrite
  <2>2. id = copy[u].id
    BY <1>1, SeenFacts
  <2> QED BY <2>1, <2>2 DEF Atomic!Names
<1>5. Atomic!Is(id)
  BY <1>1, WriteTakes DEF StoreTakes, Creates, Editors, Managers
<1>14. c.op \in Managers => Atomic!Manages(u, id)
  <2> SUFFICES ASSUME c.op \in Managers PROVE seen[id].id = id
    BY <1>4, <1>5 DEF Atomic!Manages
  <2>1. id = Written(u).id
    BY <1>1, WrittenFacts DEF Managers
  <2>2. Written(u).id = o.id
    BY <1>2, <1>3 DEF Written, Started, Managers, Objects
  <2> HIDE DEF id, o, seen
  <2> QED BY <1>2, <2>1, <2>2 DEF Contents
<1>6. \A op \in Editors : Atomic!Asks(u, op) <=> c.op = op
  BY <1>2, OperationFacts, NoOperationFacts DEF Atomic!Asks
<1>7. Atomic!Takes(u, id, Contents(Written(u)))
  BY WriteTakes
<1>8. /\ Contents(o).desired = o.desired /\ Contents(o).suspensions = o.suspensions
      /\ o.suspensions \in SUBSET SuspensionIds /\ o.notes \in SUBSET Users
  BY <1>2 DEF Contents, Objects
<1>9. CASE c.op = "start"
  <2>1. o.desired # "started" \/ c.restart
    BY <1>1, <1>3, <1>9 DEF Accepts
  <2>2. Contents(Written(u)) = [Contents(o) EXCEPT !.desired = "started"]
    BY <1>2, <1>3, <1>9 DEF Written, Started, Contents, Objects
  <2> HIDE DEF id, c, o
  <2>3. Atomic!Takes(u, id, [seen[id] EXCEPT !.desired = "started"])
    BY <1>2, <1>7, <2>2 DEF id
  <2> HIDE DEF seen
  <2> QED BY <1>2, <1>6, <1>14, <1>8, <1>9, <2>1, <2>3 DEF Atomic!Start, Atomic!Manages, seen, id, c, Editors, Managers
<1>10. CASE c.op = "stop"
  <2>1. o.desired # "stopped"
    BY <1>1, <1>3, <1>10 DEF Accepts
  <2>2. Contents(Written(u)) = [Contents(o) EXCEPT !.desired = "stopped"]
    BY <1>2, <1>3, <1>10 DEF Written, Started, Contents, Objects
  <2> HIDE DEF id, c, o
  <2>3. Atomic!Takes(u, id, [seen[id] EXCEPT !.desired = "stopped"])
    BY <1>2, <1>7, <2>2 DEF id
  <2> HIDE DEF seen
  <2> QED BY <1>2, <1>6, <1>14, <1>8, <1>10, <2>1, <2>3 DEF Atomic!Stop, Atomic!Manages, seen, id, c, Editors, Managers
<1>11. CASE c.op = "suspend"
  <2>1. c.arg \notin o.suspensions
    BY <1>1, <1>3, <1>11 DEF Accepts
  <2>2. Contents(Written(u)) = [Contents(o) EXCEPT !.suspensions = @ \cup {c.arg}]
    <3> DEFINE new == Written(u)
               x == o.suspensions \cup {c.arg}
    <3>1. new = [o EXCEPT !.suspensions = x]
      BY <1>3, <1>11 DEF Written
    <3> HIDE DEF new, x, o
    <3>2. Contents(new) = [Contents(o) EXCEPT !.suspensions = x]
      BY <1>2, <3>1 DEF Contents, Objects
    <3>3. Contents(o).suspensions = o.suspensions
      BY DEF Contents
    <3> QED BY <3>2, <3>3 DEF new, x
  <2> HIDE DEF id, c, o
  <2>3. Atomic!Takes(u, id, [seen[id] EXCEPT !.suspensions = @ \cup {c.arg}])
    BY <1>2, <1>7, <2>2 DEF id, c
  <2> HIDE DEF seen
  <2> QED BY <1>2, <1>6, <1>14, <1>8, <1>11, <2>1, <2>3 DEF Atomic!Suspend, Atomic!Manages, seen, id, c, Editors, Managers
<1>12. CASE c.op = "unsuspend"
  <2>1. c.arg \in o.suspensions
    BY <1>1, <1>3, <1>12 DEF Accepts
  <2>2. Contents(Written(u)) = [Contents(o) EXCEPT !.suspensions = @ \ {c.arg}]
    <3> DEFINE new == Written(u)
               x == o.suspensions \ {c.arg}
    <3>1. new = [o EXCEPT !.suspensions = x]
      BY <1>3, <1>12 DEF Written
    <3> HIDE DEF new, x, o
    <3>2. Contents(new) = [Contents(o) EXCEPT !.suspensions = x]
      BY <1>2, <3>1 DEF Contents, Objects
    <3>3. Contents(o).suspensions = o.suspensions
      BY DEF Contents
    <3> QED BY <3>2, <3>3 DEF new, x
  <2> HIDE DEF id, c, o
  <2>3. Atomic!Takes(u, id, [seen[id] EXCEPT !.suspensions = @ \ {c.arg}])
    BY <1>2, <1>7, <2>2 DEF id, c
  <2> HIDE DEF seen
  <2> QED BY <1>2, <1>6, <1>14, <1>8, <1>12, <2>1, <2>3 DEF Atomic!Unsuspend, Atomic!Manages, seen, id, c, Editors, Managers
<1>13. CASE c.op = "edit"
  <2> DEFINE n == ByHand(c, o)
             made == Atomic!ByHand(c, seen[id])
  <2>1. Contents(n) = made
    BY <1>2, <1>13, ByHandContents DEF Handed
  <2>2. n \in Objects
    <3>1. o.desired # "none"
      <4>1. o # NoObject /\ Allowed(o)
        BY <1>1, <1>2, <1>3, WrittenFacts DEF OptimizersInv, Blocking
      <4> HIDE DEF o
      <4> QED BY <4>1 DEF Allowed
    <3> QED BY <1>2, <1>13, <3>1, ByHandFacts DEF OptimizersInv, Blocking, Handed
  <2>3. Written(u) = [n EXCEPT !.notes = @ \cup {u}]
    BY <1>3, <1>13 DEF Written
  <2> HIDE DEF id, c, o, n, made
  <2>4. Contents(Written(u)) = [Contents(n) EXCEPT !.notes = @ \cup {u}]
    BY <2>2, <2>3 DEF Contents, Objects
  <2>5. Atomic!Takes(u, id, [made EXCEPT !.notes = @ \cup {u}])
    BY <1>7, <2>1, <2>4 DEF id
  <2>6. Atomic!Asks(u, "edit")
    BY <1>6, <1>13 DEF Editors
  <2> HIDE DEF seen
  <2>7. Atomic!Edit(u, id)
    BY <1>4, <1>5, <2>5, <2>6 DEF Atomic!Edit, made, seen, c
  <2> QED BY <2>7 DEF id
<1> QED BY <1>9, <1>10, <1>11, <1>12, <1>13 DEF Editors, Managers

\* A write of what is no longer there has the effect on what was read.
LEMMA OverwriteEffect ==
  ASSUME OptimizersInv, NEW u \in Users, WriteObject(u), Stale(u)
  PROVE  Atomic!Overwrite(u, Target(u))
<1> DEFINE id == Target(u)
           c == busy[u]
           o == copy[u].object
           new == Written(u)
           objects == [i \in Ids |-> Contents(store'[i])]
<1>1. Has(u, "write") /\ Accepts(u) /\ StoreTakes(u)
  BY DEF WriteObject
<1>2. c.op \in Managers /\ c.op \in Editors
  BY DEF Stale, Editors, Managers
<1>3. /\ c \in Operations /\ id \in Ids /\ new \in Objects /\ Allowed(new)
      /\ Atomic!Takes(u, id, Contents(new)) /\ (Atomic!Is(id) <=> id \in Existing)
  BY WriteTakes
<1>4. new # NoObject /\ id = new.id
  BY <1>1, <1>2, WrittenFacts DEF Managers
<1>5. Atomic!Is(id)
  BY <1>1, <1>2, <1>3 DEF StoreTakes, Creates, Managers
<1>6. c # NoOperation
  BY <1>2, NoOperationFacts
<1>7. Atomic!Does(c, Contents(new))
  <2>1. o \in Objects
    BY DEF OptimizersInv, ObjectTypes
  <2>2. Contents(new).desired = new.desired /\ Contents(new).suspensions = new.suspensions
    BY DEF Contents
  <2>3. CASE c.op = "start"
    <3>1. new.desired = "started"
      BY <2>1, <2>3 DEF Written, Started, Objects
    <3> HIDE DEF new
    <3> QED BY <2>2, <2>3, <3>1 DEF Atomic!Does
  <2>4. CASE c.op = "stop"
    <3>1. new.desired = "stopped"
      BY <2>1, <2>4 DEF Written, Objects
    <3> HIDE DEF new
    <3> QED BY <2>2, <2>4, <3>1 DEF Atomic!Does
  <2>5. CASE c.op = "suspend"
    <3>1. c.arg \in new.suspensions
      BY <2>1, <2>5 DEF Written, Objects
    <3> HIDE DEF new, o
    <3> QED BY <2>2, <2>5, <3>1 DEF Atomic!Does
  <2>6. CASE c.op = "unsuspend"
    <3>1. c.arg \notin new.suspensions
      BY <2>1, <2>6 DEF Written, Objects
    <3> HIDE DEF new, o
    <3> QED BY <2>2, <2>6, <3>1 DEF Atomic!Does
  <2> QED BY <1>2, <2>3, <2>4, <2>5, <2>6 DEF Managers
<1>8. Contents(new) \in Atomic!Objects /\ Contents(new).id = id
  <2> HIDE DEF id, new
  <2> QED BY <1>3, <1>4, ContentsFacts DEF Contents
<1>9. objects[id] = Contents(new)
  BY <1>3 DEF Atomic!Takes
<1> HIDE DEF new, o, id
<1> QED BY <1>2, <1>3, <1>5, <1>6, <1>7, <1>8, <1>9 DEF Atomic!Overwrite, Atomic!Asks, Managers, id

\* The commands that write without reading, and configure.
LEMMA PlainEffect ==
  ASSUME OptimizersInv, NEW u \in Users, WriteObject(u), busy[u].op \notin Editors
  PROVE  LET id == Target(u)
         IN  Atomic!Configure(u, id) \/ Atomic!Replace(u, id) \/ Atomic!Insert(u, id) \/ Atomic!Delete(u, id)
<1> DEFINE id == Target(u)
           c == busy[u]
           new == Written(u)
<1>1. Has(u, "write") /\ Accepts(u) /\ StoreTakes(u)
  BY DEF WriteObject
<1>2. /\ c \in Operations /\ id \in Ids /\ new \in Objects /\ Allowed(new)
      /\ Atomic!Takes(u, id, Contents(new)) /\ (Atomic!Is(id) <=> id \in Existing)
  BY WriteTakes
<1>3. c.op \in {"configure", "update", "insert", "delete"} /\ c # NoOperation
  BY <1>2, OperationFacts, NoOperationFacts
<1>4. Contents(NewObject) = Atomic!New /\ Contents(NoObject) = Atomic!Absent
  BY DEF Contents, NewObject, NoObject, Atomic!New, Atomic!Absent
<1>5. c.op \in {"configure", "insert"} => Contents(new).id = id
  <2>1. Contents(new).id = new.id
    BY DEF Contents
  <2>2. c.op \in {"configure", "insert"} => id = new.id
    BY <1>1, WrittenFacts
  <2> HIDE DEF new, id
  <2> QED BY <2>1, <2>2
<1>6. CASE c.op = "configure"
  <2> DEFINE configured == Configured(c, report[u])
             ignored == Known(report[u])
             desired == IF c.start THEN "started" ELSE "stopped"
             override == c.override
             made == [Atomic!New EXCEPT !.desired = desired, !.ignored = ignored, !.override = override]
  <2>1. BlockersPass(report[u], c.override)
    BY <1>1, <1>6 DEF Accepts
  <2>2. /\ configured \in Objects /\ Allowed(configured)
        /\ configured.ignored \in SUBSET {"soft", "hard"}
        /\ configured = [id |-> "own", desired |-> desired, suspensions |-> {}, ignored |-> ignored,
                         notes |-> {}, override |-> override, etag |-> 0]
    BY <1>2, <1>6, <2>1, ConfiguredFacts DEF OptimizersInv, ObjectTypes
  <2>3. new = ByHand(c, configured)
    BY <1>6 DEF Written
  <2>4. c.create <=> ~ Atomic!Is(id)
    BY <1>1, <1>2, <1>6 DEF StoreTakes, Creates
  <2> HIDE DEF configured, ignored, desired, override, new
  <2>5. ignored \in SUBSET {"soft", "hard"} /\ Atomic!Lawful(ignored, override)
    BY <2>2 DEF Allowed, Atomic!Lawful
  <2>6. Contents(configured) = made
    <3>1. Contents(configured) = [id |-> "own", desired |-> desired, suspensions |-> {}, ignored |-> ignored,
                                  notes |-> {}, override |-> override]
      <4> HIDE DEF made
      <4> QED BY <2>2 DEF Contents
    <3>2. made = [id |-> "own", desired |-> desired, suspensions |-> {}, ignored |-> ignored,
                  notes |-> {}, override |-> override]
      <4>1. made = [Atomic!New EXCEPT !.desired = desired, !.ignored = ignored, !.override = override]
        OBVIOUS
      <4> HIDE DEF made
      <4> QED BY <4>1 DEF Atomic!New
    <3> QED BY <3>1, <3>2
  <2>7. Contents(new) = Atomic!ByHand(c, made)
    BY <1>2, <1>6, <2>2, <2>3, <2>6, ByHandContents DEF Handed
  <2> HIDE DEF made, id
  <2>8. Atomic!ByHand(c, made).id = id /\ Atomic!Takes(u, id, Atomic!ByHand(c, made))
    BY <1>2, <1>5, <1>6, <2>7
  <2>9. Atomic!Configure(u, id)
    BY <1>3, <1>6, <2>4, <2>5, <2>8 DEF Atomic!Configure, Atomic!Asks, made, desired, override
  <2> QED BY <2>9 DEF id
<1>7. CASE c.op \in {"update", "insert"}
  <2>1. new = ByHand(c, NewObject)
    BY <1>7 DEF Written
  <2>2. Contents(new) = Atomic!ByHand(c, Atomic!New)
    BY <1>2, <1>4, <1>7, <2>1, ByHandContents, ObjectFacts DEF Handed
  <2>3. c.op = "insert" <=> id \notin Existing
    BY <1>1, <1>7 DEF StoreTakes, Creates
  <2>4. c.op = "update" => id = c.id
    BY DEF Target
  <2> HIDE DEF new, id
  <2>5. Atomic!Replace(u, id) \/ Atomic!Insert(u, id)
    BY <1>2, <1>3, <1>5, <1>7, <2>2, <2>3, <2>4
       DEF Atomic!Replace, Atomic!Insert, Atomic!Asks, Atomic!Names
  <2> QED BY <2>5 DEF id
<1>8. CASE c.op = "delete"
  <2>1. id = c.id
    BY <1>8 DEF Target
  <2>2. new = NoObject
    BY <1>8 DEF Written
  <2>3. id \in Existing
    BY <1>1, <1>8 DEF StoreTakes, Creates
  <2> HIDE DEF new, id
  <2>4. Atomic!Delete(u, id)
    BY <1>2, <1>3, <1>4, <1>8, <2>1, <2>2, <2>3 DEF Atomic!Delete, Atomic!Asks, Atomic!Names
  <2> QED BY <2>4 DEF id
<1> QED BY <1>3, <1>6, <1>7, <1>8

LEMMA WriteEffect ==
  ASSUME OptimizersInv, NEW u \in Users, WriteObject(u)
  PROVE  Atomic!Next
<1> DEFINE id == Target(u)
<1>1. id \in Ids /\ blind' = (blind \/ Stale(u)) /\ blind \in BOOLEAN
  BY WriteTakes DEF WriteObject, OptimizersInv, ObjectTypes
<1>2. CASE Stale(u)
  <2>1. Atomic!Overwrite(u, id)
    BY <1>2, OverwriteEffect
  <2>2. blind' = TRUE
    BY <1>1, <1>2
  <2> HIDE DEF id
  <2> QED BY <1>1, <2>1, <2>2, Zenon DEF Atomic!Next
<1>3. CASE ~ Stale(u)
  <2>1. blind' = blind
    BY <1>1, <1>3
  <2>2. \/ Atomic!Start(u, id) \/ Atomic!Stop(u, id) \/ Atomic!Suspend(u, id)
        \/ Atomic!Unsuspend(u, id) \/ Atomic!Edit(u, id)
        \/ Atomic!Configure(u, id) \/ Atomic!Replace(u, id) \/ Atomic!Insert(u, id) \/ Atomic!Delete(u, id)
    BY <1>3, EditEffect, PlainEffect
  <2> HIDE DEF id
  <2> QED BY <1>1, <2>1, <2>2, Zenon DEF Atomic!Next
<1> QED BY <1>2, <1>3

LEMMA AtomicStep == OptimizersInv /\ [OptimizersNext]_optimizerVars => [Atomic!Next]_(Atomic!vars)
<1> SUFFICES ASSUME OptimizersInv, [OptimizersNext]_optimizerVars
             PROVE  Atomic!Next \/ UNCHANGED Atomic!vars
  OBVIOUS
<1>1. CASE UNCHANGED optimizerVars
  BY <1>1 DEF optimizerVars, Atomic!vars
<1>2. ASSUME NEW u \in Users, NEW c \in Operations, BeginOperation(u, c) PROVE Atomic!Next
  <2>1. Atomic!Begin(u)
    BY <1>2 DEF BeginOperation, Atomic!Begin
  <2> QED BY <2>1 DEF Atomic!Next
<1>3. ASSUME NEW u \in Users, Abandon(u) PROVE Atomic!Next
  <2>1. Atomic!GiveUp(u)
    BY <1>3 DEF Abandon, Ended, Atomic!GiveUp
  <2> QED BY <2>1 DEF Atomic!Next
<1>4. ASSUME NEW u \in Users, ReadObject(u) \/ ReadReport(u) PROVE UNCHANGED Atomic!vars
  BY <1>4 DEF ReadObject, ReadReport, Atomic!vars
<1> QED BY <1>1, <1>2, <1>3, <1>4, WriteEffect DEF OptimizersNext

LEMMA AtomicInit == OptimizersInit => Atomic!Init
<1> SUFFICES ASSUME OptimizersInit PROVE Atomic!Init
  OBVIOUS
<1>1. \A id \in Ids : store[id] \in {NewObject, NoObject}
  BY DEF OptimizersInit
<1>2. Contents(NewObject) = Atomic!New /\ Contents(NoObject) = Atomic!Absent
  BY DEF Contents, NewObject, NoObject, Atomic!New, Atomic!Absent
<1>3. [id \in Ids |-> Contents(store[id])] \in [Ids -> {Atomic!New, Atomic!Absent}]
  BY <1>1, <1>2
<1> QED BY <1>3 DEF OptimizersInit, Atomic!Init

-----------------------------------------------------------------------------
(* Whatever any number of users do with the commands of `optimize` and of  *)
(* `knowledge`, an optimizer ignores a blocker without the override for it *)
(* only if its ignored blockers were written by hand (checkHardBlockers is *)
(* asked before all that configure makes of the report itself; a file laid *)
(* over that, at configure.go:395, is not asked about, nor is one that is  *)
(* created, put in its place or edited).                                   *)
THEOREM HardBlockersAlwaysStop == OptimizersSpec => []HardBlockersStop
<1>1. OptimizersInv => HardBlockersStop
  BY DEF OptimizersInv, Blocking, Allowed, HardBlockersStop
<1> QED BY OptimizersInvariant, <1>1, PTL

(* As long as nobody wrote from a stale copy, every suspension that its    *)
(* user was told of is in the object until it is lifted or the object      *)
(* replaced (suspend, unsuspend and the commands beside them).             *)
THEOREM SuspensionsAlwaysSurvive == OptimizersSpec => []SuspensionsSurvive
<1>1. OptimizersInv => SuspensionsSurvive
  BY DEF OptimizersInv
<1> QED BY OptimizersInvariant, <1>1, PTL

(* Likewise every edit: the If-Match header of `knowledge edit` makes the  *)
(* version that was read the one that is replaced.                         *)
THEOREM EditsAlwaysKept == OptimizersSpec => []EditsAllKept
<1>1. OptimizersInv => EditsAllKept
  BY DEF OptimizersInv
<1> QED BY OptimizersInvariant, <1>1, PTL

(* Every command of every user takes effect at one moment, on the object   *)
(* as it is then, or not at all, although between its requests others are  *)
(* made; only start, stop, suspend and unsuspend may instead write an old  *)
(* copy over what they have not seen, and the flag tells when one has      *)
(* (management.go:93, edit.go:65).                                         *)
THEOREM OptimizersAreAtomic == OptimizersSpec => ImplementsAtomic
BY OptimizersInvariant, AtomicInit, AtomicStep, PTL DEF OptimizersSpec, ImplementsAtomic, Atomic!Spec

\* The commands under way.
Running == {u \in Users : busy[u] # NoOperation}

\* Each command that was begun is under way, or has written once at most.
Counted ==
  /\ IsFiniteSet(Running)
  /\ version + Cardinality(Running) <= begun
  /\ begun \in 0..MaxOperations

LEMMA CountedInit ==
  ASSUME OptimizersInit
  PROVE  Counted
<1>1. Running = {}
  BY DEF OptimizersInit, Running
<1> QED BY <1>1, FS_EmptySet, MaxOperationsAssumption DEF Counted, OptimizersInit

\* A command that ends is counted no more.
LEMMA EndedCounted ==
  ASSUME OptimizersInv, Counted, NEW u \in Users, busy[u] # NoOperation, Ended(u)
  PROVE  /\ IsFiniteSet(Running') /\ Cardinality(Running') = Cardinality(Running) - 1
         /\ Cardinality(Running) \in Nat
<1>1. Running' = Running \ {u} /\ u \in Running
  BY DEF Running, Ended, OptimizersInv, ObjectTypes
<1> QED BY <1>1, FS_RemoveElement, FS_CardinalityType DEF Counted

LEMMA CountedStep ==
  ASSUME OptimizersInv, Counted, [OptimizersNext]_optimizerVars
  PROVE  Counted'
<1>1. version \in Nat /\ Cardinality(Running) \in Nat /\ begun \in Nat /\ MaxOperations \in Nat
  BY FS_CardinalityType, MaxOperationsAssumption DEF OptimizersInv, ObjectTypes, Counted
<1>2. ASSUME NEW u \in Users, NEW c \in Operations, BeginOperation(u, c) PROVE Counted'
  <2>1. c # NoOperation
    BY OperationFacts, NoOperationFacts
  <2>2. Running' = Running \cup {u} /\ u \notin Running
    BY <1>2, <2>1 DEF BeginOperation, Running, OptimizersInv, ObjectTypes
  <2>3. IsFiniteSet(Running') /\ Cardinality(Running') = Cardinality(Running) + 1
    BY <2>2, FS_AddElement DEF Counted
  <2> QED BY <1>1, <1>2, <2>3 DEF BeginOperation, Counted
<1>3. ASSUME NEW u \in Users, Abandon(u) PROVE Counted'
  <2>1. IsFiniteSet(Running') /\ Cardinality(Running') = Cardinality(Running) - 1
    BY <1>3, EndedCounted DEF Abandon
  <2> QED BY <1>1, <1>3, <2>1 DEF Abandon, Counted
<1>4. ASSUME NEW u \in Users, WriteObject(u) PROVE Counted'
  <2>1. busy[u] # NoOperation
    BY <1>4, WriteTakes, OperationFacts, NoOperationFacts
  <2>2. version' = version + 1 /\ begun' = begun /\ Ended(u)
    BY <1>4 DEF WriteObject
  <2>3. IsFiniteSet(Running') /\ Cardinality(Running') = Cardinality(Running) - 1
    BY <2>1, <2>2, EndedCounted
  <2> QED BY <1>1, <2>2, <2>3 DEF Counted
<1>5. ASSUME UNCHANGED <<version, busy, begun>> PROVE Counted'
  BY <1>5 DEF Counted, Running
<1>6. CASE \E u \in Users : ReadObject(u) \/ ReadReport(u)
  BY <1>5, <1>6 DEF ReadObject, ReadReport
<1>7. CASE UNCHANGED optimizerVars
  BY <1>5, <1>7 DEF optimizerVars
<1> QED BY <1>2, <1>3, <1>4, <1>6, <1>7 DEF OptimizersNext

\* Every object is of the shape the code can write, an unknown blocker is never in it, and a
\* command writes once at most, so that there are no more versions than commands
\* (configure.go:436, management.go:93).
THEOREM OptimizersTypesCorrect == OptimizersSpec => []OptimizersTypeOK
<1>1. OptimizersInit => Counted
  BY CountedInit
<1>2. OptimizersInv /\ Counted /\ [OptimizersNext]_optimizerVars => Counted'
  BY CountedStep
<1>3. ASSUME OptimizersInv, Counted PROVE OptimizersTypeOK
  <2>1. ObjectTypes /\ Tags /\ Blocking
    BY <1>3 DEF OptimizersInv
  <2>2. version \in 0..MaxOperations /\ begun \in 0..MaxOperations
    BY <1>3, <2>1, FS_CardinalityType, MaxOperationsAssumption DEF Counted, ObjectTypes
  <2>3. ASSUME NEW id \in Ids
        PROVE  /\ store[id].desired \in {"none", "started", "stopped"}
               /\ store[id].suspensions \subseteq SuspensionIds
               /\ store[id].ignored \subseteq Blockers \ {"unknown"}
               /\ store[id].notes \subseteq Users
               /\ store[id].etag \in 0..version /\ store[id].id \in Ids
    <3>1. store[id] \in Objects /\ "unknown" \notin store[id].ignored /\ store[id].etag <= version
      BY <2>1 DEF ObjectTypes, Blocking, Allowed, Tags
    <3> QED BY <2>1, <3>1 DEF Objects, ObjectTypes
  <2> QED BY <2>1, <2>2, <2>3 DEF OptimizersTypeOK, ObjectTypes
<1> QED BY <1>1, <1>2, <1>3, OptimizersInvariant, PTL DEF OptimizersSpec
=============================================================================
