-------------------------- MODULE TimerDriver_proofs --------------------------
(***************************************************************************)
(* The timer driver for any timers, any width of a word and any number of  *)
(* ticks, whatever the clients do: the two chains hold every linked timer  *)
(* once, and no call changes the time that GetNowTime tells.  What holds   *)
(* if clients use the timers as they do from day to day is proved in       *)
(* TimerDaily_proofs.                                                      *)
(***************************************************************************)
EXTENDS TimerDriver, TLAPS, FiniteSetTheorems, NaturalsInduction,
        WellFoundedInduction, SequenceTheorems

Words == -Half .. Half - 1

LEMMA WordFacts ==
  /\ Word \in Nat /\ Half \in Nat /\ Half > 0 /\ Word = 2 * Half
  /\ Longest \in Nat /\ Longest >= 1 /\ Longest = Word - 1
  /\ Never \in Nat /\ Never = MaxTime + 3 * Word
BY WordAssumption, DelayAssumption DEF Word, Half, Longest, Never

LEMMA SignedIsWord ==
  ASSUME NEW n \in Int
  PROVE  Signed(n) \in Words
BY WordFacts DEF Signed, Words

LEMMA SignedOfWord ==
  ASSUME NEW n \in Words
  PROVE  Signed(n) = n
BY WordFacts DEF Signed, Words

LEMMA UnsignedIsWord ==
  ASSUME NEW n \in Int
  PROVE  Unsigned(n) \in 0 .. Longest
BY WordFacts DEF Unsigned

LEMMA UnsignedOfWord ==
  ASSUME NEW n \in 0 .. Longest
  PROVE  Unsigned(n) = n
BY WordFacts DEF Unsigned

LEMMA InvalidIsWord ==
  /\ Invalid \in Words /\ Invalid = -7 * Unit /\ Calculated = -6 * Unit
  /\ Unsigned(Invalid) = 9 * Unit
<1>1. Invalid = ((17 * Unit) % (16 * Unit)) - 8 * Unit
  BY WordAssumption DEF Invalid, Signed, Word, Half
<1>2. (17 * Unit) % (16 * Unit) = Unit
  BY WordAssumption
<1>3. Calculated = ((18 * Unit) % (16 * Unit)) - 8 * Unit
  BY WordAssumption DEF Calculated, Signed, Word, Half
<1>4. (18 * Unit) % (16 * Unit) = 2 * Unit
  BY WordAssumption
<1>5. Unsigned(-7 * Unit) = 9 * Unit
  BY WordAssumption DEF Unsigned, Word
<1> QED BY <1>1, <1>2, <1>3, <1>4, <1>5, WordAssumption DEF Words, Half

-----------------------------------------------------------------------------
(* The smallest of a set of numbers, for induction.                        *)
LEMMA Smallest ==
  ASSUME NEW S, S \subseteq Nat, S # {}
  PROVE  \E m \in S : \A k \in S : m <= k
<1> DEFINE R == OpToRel(<, Nat)
<1>1. \A x, y \in Nat : <<x, y>> \in R <=> x < y
  BY DEF OpToRel
<1>2. IsWellFoundedOn(R, Nat)
  BY NatLessThanWellFounded
<1> HIDE DEF R
<1>3. PICK m \in S : \A y \in S : ~(<<y, m>> \in R)
  BY <1>2, WFMin
<1>4. \A y \in S : ~(y < m)
  BY <1>1, <1>3
<1> QED BY <1>4

(* What happens to a list when an element is put in or taken out.          *)
LEMMA InsertAtPlace ==
  ASSUME NEW S, NEW s \in Seq(S), NEW k \in 0 .. Len(s), NEW e \in S
  PROVE  LET r == InsertAt(s, k + 1, e) IN
         /\ r \in Seq(S)
         /\ Len(r) = Len(s) + 1
         /\ \A i \in 1 .. Len(s) + 1 :
              r[i] = IF i <= k THEN s[i] ELSE IF i = k + 1 THEN e ELSE s[i - 1]
<1> DEFINE a == SubSeq(s, 1, k)
           b == SubSeq(s, k + 1, Len(s))
<1>1. /\ a \in Seq(S) /\ Len(a) = k
      /\ \A i \in 1 .. k : a[i] = s[i]
  BY SubSeqProperties
<1>2. /\ b \in Seq(S) /\ Len(b) = Len(s) - k
      /\ \A i \in 1 .. Len(s) - k : b[i] = s[k + i]
  BY SubSeqProperties
<1>3. InsertAt(s, k + 1, e) = (a \o <<e>>) \o b
  <2>1. (k + 1) - 1 = k
    OBVIOUS
  <2> QED BY <2>1 DEF InsertAt
<1> DEFINE c == a \o <<e>>
<1>4. <<e>> \in Seq(S) /\ Len(<<e>>) = 1 /\ <<e>>[1] = e
  OBVIOUS
<1> HIDE DEF a, b
<1>5. /\ c \in Seq(S) /\ Len(c) = k + 1
      /\ \A i \in 1 .. k + 1 : c[i] = IF i <= k THEN s[i] ELSE e
  <2>1. /\ c \in Seq(S) /\ Len(c) = k + 1
        /\ \A i \in 1 .. k + 1 : c[i] = IF i <= k THEN a[i] ELSE <<e>>[i - k]
    BY <1>1, <1>4, ConcatProperties
  <2> QED BY <1>1, <1>4, <2>1
<1> HIDE DEF c
<1> DEFINE r == c \o b
<1>6. /\ r \in Seq(S) /\ Len(r) = Len(s) + 1
      /\ \A i \in 1 .. Len(s) + 1 : r[i] = IF i <= k + 1 THEN c[i] ELSE b[i - (k + 1)]
  BY <1>2, <1>5, ConcatProperties
<1>7. \A i \in 1 .. Len(s) + 1 : i > k + 1 => b[i - (k + 1)] = s[i - 1]
  BY <1>2
<1>8. InsertAt(s, k + 1, e) = r
  BY <1>3 DEF c
<1> HIDE DEF r
<1>9. \A i \in 1 .. Len(s) + 1 :
        r[i] = IF i <= k THEN s[i] ELSE IF i = k + 1 THEN e ELSE s[i - 1]
  <2> TAKE i \in 1 .. Len(s) + 1
  <2>1. CASE i <= k + 1
    <3>1. i \in 1 .. k + 1 /\ r[i] = c[i]
      BY <1>6, <2>1
    <3> QED BY <1>5, <3>1
  <2>2. CASE i > k + 1
    <3>1. r[i] = s[i - 1]
      BY <1>6, <1>7, <2>2
    <3> QED BY <2>2, <3>1
  <2> QED BY <2>1, <2>2
<1> QED BY <1>6, <1>8, <1>9

LEMMA RemoveAtPlace ==
  ASSUME NEW S, NEW s \in Seq(S), NEW k \in 1 .. Len(s)
  PROVE  LET r == RemoveAt(s, k) IN
         /\ r \in Seq(S)
         /\ Len(r) = Len(s) - 1
         /\ \A i \in 1 .. Len(s) - 1 : r[i] = IF i < k THEN s[i] ELSE s[i + 1]
<1> DEFINE a == SubSeq(s, 1, k - 1)
           b == SubSeq(s, k + 1, Len(s))
<1>1. /\ a \in Seq(S) /\ Len(a) = k - 1
      /\ \A i \in 1 .. k - 1 : a[i] = s[i]
  BY SubSeqProperties
<1>2. /\ b \in Seq(S) /\ Len(b) = Len(s) - k
      /\ \A i \in 1 .. Len(s) - k : b[i] = s[k + i]
  BY SubSeqProperties
<1>3. RemoveAt(s, k) = a \o b
  BY DEF RemoveAt
<1> DEFINE r == a \o b
<1> HIDE DEF a, b
<1>4. /\ r \in Seq(S) /\ Len(r) = Len(s) - 1
      /\ \A i \in 1 .. Len(s) - 1 : r[i] = IF i <= k - 1 THEN a[i] ELSE b[i - (k - 1)]
  BY <1>1, <1>2, ConcatProperties
<1> HIDE DEF r
<1>5. ASSUME NEW i \in 1 .. Len(s) - 1
      PROVE  r[i] = IF i < k THEN s[i] ELSE s[i + 1]
  <2>1. CASE i < k
    <3>1. i <= k - 1 /\ i \in 1 .. k - 1
      BY <2>1
    <3> QED BY <1>1, <1>4, <2>1, <3>1
  <2>2. CASE i >= k
    <3>1. i - (k - 1) \in 1 .. Len(s) - k /\ k + (i - (k - 1)) = i + 1 /\ ~(i <= k - 1)
      BY <2>2
    <3>2. r[i] = b[i - (k - 1)]
      BY <1>4, <3>1
    <3> QED BY <1>2, <2>2, <3>1, <3>2
  <2> QED BY <2>1, <2>2
<1>6. RemoveAt(s, k) = r
  BY <1>3 DEF r
<1> QED BY <1>4, <1>5, <1>6

-----------------------------------------------------------------------------
(* The two chains: each linked timer is in one of them, once, and last     *)
(* ends the chain.                                                         *)
In(s, n)    == \E i \in 1 .. Len(s) : s[i] = n
Distinct(s) == \A i, j \in 1 .. Len(s) : s[i] = s[j] => i = j

Lists(ch, to, ln) ==
  /\ ch \in Seq(Node \cup {last}) /\ to \in Seq(Node) /\ ln \subseteq Node
  /\ Len(ch) > 0 /\ ch[Len(ch)] = last
  /\ Distinct(ch) /\ Distinct(to)
  /\ \A n \in Node : n \in ln <=> In(ch, n) \/ In(to, n)
  /\ \A n \in Node : ~(In(ch, n) /\ In(to, n))

LEMMA RangeIsIn ==
  ASSUME NEW S, NEW s \in Seq(S), NEW n
  PROVE  n \in Range(s) <=> In(s, n)
BY DEF Range, In

LEMMA PlaceIsThere ==
  ASSUME NEW S, NEW s \in Seq(S), NEW n, In(s, n)
  PROVE  Place(s, n) \in 1 .. Len(s) /\ s[Place(s, n)] = n
BY DEF In, Place

(* Places in the list before and after.                                    *)
LEMMA InsertKeepsDistinct ==
  ASSUME NEW m \in Nat, NEW s, NEW r, NEW k \in 0 .. m, NEW e,
         \A i, j \in 1 .. m : s[i] = s[j] => i = j,
         \A i \in 1 .. m : s[i] # e,
         \A i \in 1 .. m + 1 :
           r[i] = IF i <= k THEN s[i] ELSE IF i = k + 1 THEN e ELSE s[i - 1]
  PROVE  \A i, j \in 1 .. m + 1 : r[i] = r[j] => i = j
<1> SUFFICES ASSUME NEW i \in 1 .. m + 1, NEW j \in 1 .. m + 1, r[i] = r[j]
             PROVE  i = j
  OBVIOUS
<1>1. CASE i <= k /\ j <= k
  BY <1>1
<1>2. CASE i <= k /\ j = k + 1
  BY <1>2
<1>3. CASE i <= k /\ j > k + 1
  <2>1. i \in 1 .. m /\ j - 1 \in 1 .. m /\ i # j - 1
    BY <1>3
  <2>2. r[i] = s[i] /\ r[j] = s[j - 1]
    BY <1>3
  <2> QED BY <2>1, <2>2
<1>4. CASE i = k + 1 /\ j <= k
  BY <1>4
<1>5. CASE i = k + 1 /\ j > k + 1
  <2>1. r[i] = e /\ r[j] = s[j - 1]
    BY <1>5
  <2> QED BY <1>5, <2>1
<1>6. CASE i > k + 1 /\ j <= k
  <2>1. i - 1 \in 1 .. m /\ j \in 1 .. m /\ i - 1 # j
    BY <1>6
  <2>2. r[i] = s[i - 1] /\ r[j] = s[j]
    BY <1>6
  <2> QED BY <2>1, <2>2
<1>7. CASE i > k + 1 /\ j = k + 1
  BY <1>7
<1>8. CASE i > k + 1 /\ j > k + 1
  BY <1>8
<1>9. CASE i = k + 1 /\ j = k + 1
  BY <1>9
<1> QED BY <1>1, <1>2, <1>3, <1>4, <1>5, <1>6, <1>7, <1>8, <1>9

LEMMA RemoveKeepsDistinct ==
  ASSUME NEW m \in Nat, NEW s, NEW r, NEW k \in 1 .. m,
         \A i, j \in 1 .. m : s[i] = s[j] => i = j,
         \A i \in 1 .. m - 1 : r[i] = IF i < k THEN s[i] ELSE s[i + 1]
  PROVE  \A i, j \in 1 .. m - 1 : r[i] = r[j] => i = j
<1> SUFFICES ASSUME NEW i \in 1 .. m - 1, NEW j \in 1 .. m - 1, r[i] = r[j]
             PROVE  i = j
  OBVIOUS
<1>1. CASE i < k /\ j < k
  BY <1>1
<1>2. CASE i < k /\ j >= k
  BY <1>2
<1>3. CASE i >= k /\ j < k
  BY <1>3
<1>4. CASE i >= k /\ j >= k
  BY <1>4
<1> QED BY <1>1, <1>2, <1>3, <1>4

(* A list with another element.                                            *)
LEMMA InsertedList ==
  ASSUME NEW S, NEW s \in Seq(S), Distinct(s),
         NEW k \in 0 .. Len(s), NEW e \in S, ~In(s, e)
  PROVE  LET r == InsertAt(s, k + 1, e) IN
         /\ r \in Seq(S) /\ Len(r) = Len(s) + 1
         /\ \A i \in 1 .. Len(s) + 1 :
              r[i] = IF i <= k THEN s[i] ELSE IF i = k + 1 THEN e ELSE s[i - 1]
         /\ Distinct(r)
         /\ \A n : In(r, n) <=> In(s, n) \/ n = e
<1> DEFINE r == InsertAt(s, k + 1, e)
<1>1. /\ r \in Seq(S) /\ Len(r) = Len(s) + 1
      /\ \A i \in 1 .. Len(s) + 1 :
           r[i] = IF i <= k THEN s[i] ELSE IF i = k + 1 THEN e ELSE s[i - 1]
  <2>1. LET q == InsertAt(s, k + 1, e) IN
        /\ q \in Seq(S) /\ Len(q) = Len(s) + 1
        /\ \A i \in 1 .. Len(s) + 1 :
             q[i] = IF i <= k THEN s[i] ELSE IF i = k + 1 THEN e ELSE s[i - 1]
    BY InsertAtPlace
  <2> QED BY <2>1
<1>2. Len(s) \in Nat
  OBVIOUS
<1> HIDE DEF r
<1>3. Distinct(r)
  <2>1. \A h \in 1 .. Len(s) : s[h] # e
    BY DEF In
  <2>2. \A i, j \in 1 .. Len(s) : s[i] = s[j] => i = j
    BY DEF Distinct
  <2>3. \A i, j \in 1 .. Len(s) + 1 : r[i] = r[j] => i = j
    <3> DEFINE m == Len(s)
    <3>1. m \in Nat /\ k \in 0 .. m
      BY <1>2
    <3>2. \A i \in 1 .. m + 1 :
            r[i] = IF i <= k THEN s[i] ELSE IF i = k + 1 THEN e ELSE s[i - 1]
      BY <1>1
    <3>3. \A i, j \in 1 .. m : s[i] = s[j] => i = j
      BY <2>2
    <3>4. \A i \in 1 .. m : s[i] # e
      BY <2>1
    <3> HIDE DEF m
    <3>5. \A i, j \in 1 .. m + 1 : r[i] = r[j] => i = j
      BY <3>1, <3>2, <3>3, <3>4, InsertKeepsDistinct
    <3> QED BY <3>5 DEF m
  <2> QED BY <1>1, <2>3 DEF Distinct
<1>4. ASSUME NEW n PROVE In(r, n) <=> In(s, n) \/ n = e
  <2>1. ASSUME In(r, n) PROVE In(s, n) \/ n = e
    <3>1. PICK i \in 1 .. Len(r) : r[i] = n
      BY <2>1 DEF In
    <3>2. r[i] = IF i <= k THEN s[i] ELSE IF i = k + 1 THEN e ELSE s[i - 1]
      BY <1>1
    <3>3. i \in 1 .. Len(s) + 1
      BY <1>1, <3>1
    <3>4. CASE i <= k
      <4>1. i \in 1 .. Len(s) /\ s[i] = n
        BY <1>2, <3>1, <3>2, <3>3, <3>4
      <4> QED BY <4>1 DEF In
    <3>5. CASE i = k + 1
      BY <3>1, <3>2, <3>5
    <3>6. CASE i > k + 1
      <4>1. i - 1 \in 1 .. Len(s) /\ ~(i <= k) /\ i # k + 1
        BY <1>2, <3>3, <3>6
      <4>2. s[i - 1] = n
        BY <3>1, <3>2, <4>1
      <4> QED BY <4>1, <4>2 DEF In
    <3> QED BY <3>3, <3>4, <3>5, <3>6
  <2>2. ASSUME In(s, n) PROVE In(r, n)
    <3>1. PICK i \in 1 .. Len(s) : s[i] = n
      BY <2>2 DEF In
    <3>2. r[IF i <= k THEN i ELSE i + 1] = n
      <4>1. CASE i <= k
        BY <1>1, <1>2, <3>1, <4>1
      <4>2. CASE i > k
        <5>1. i + 1 \in 1 .. Len(s) + 1 /\ ~(i + 1 <= k) /\ i + 1 # k + 1
          BY <1>2, <4>2
        <5>2. r[i + 1] = s[(i + 1) - 1]
          BY <1>1, <5>1
        <5> QED BY <1>2, <3>1, <4>2, <5>2
      <4> QED BY <1>2, <4>1, <4>2
    <3> QED BY <1>1, <1>2, <3>2 DEF In
  <2>3. In(r, e)
    <3>1. r[k + 1] = e /\ k + 1 \in 1 .. Len(r)
      BY <1>1, <1>2
    <3> QED BY <3>1 DEF In
  <2> QED BY <2>1, <2>2, <2>3
<1> QED BY <1>1, <1>3, <1>4 DEF r

(* A list without an element.                                              *)
LEMMA RemovedList ==
  ASSUME NEW S, NEW s \in Seq(S), Distinct(s), NEW k \in 1 .. Len(s)
  PROVE  LET r == RemoveAt(s, k) IN
         /\ r \in Seq(S) /\ Len(r) = Len(s) - 1
         /\ \A i \in 1 .. Len(s) - 1 : r[i] = IF i < k THEN s[i] ELSE s[i + 1]
         /\ Distinct(r)
         /\ \A n : In(r, n) <=> In(s, n) /\ n # s[k]
<1> DEFINE r == RemoveAt(s, k)
<1>1. /\ r \in Seq(S) /\ Len(r) = Len(s) - 1
      /\ \A i \in 1 .. Len(s) - 1 : r[i] = IF i < k THEN s[i] ELSE s[i + 1]
  BY RemoveAtPlace
<1>2. Len(s) \in Nat
  OBVIOUS
<1> HIDE DEF r
<1>3. Distinct(r)
  <2>1. \A i, j \in 1 .. Len(s) : s[i] = s[j] => i = j
    BY DEF Distinct
  <2>2. \A i, j \in 1 .. Len(s) - 1 : r[i] = r[j] => i = j
    BY <1>1, <1>2, <2>1, RemoveKeepsDistinct
  <2> QED BY <1>1, <2>2 DEF Distinct
<1>4. ASSUME NEW n PROVE In(r, n) <=> In(s, n) /\ n # s[k]
  <2>1. ASSUME In(r, n) PROVE In(s, n) /\ n # s[k]
    <3>1. PICK i \in 1 .. Len(r) : r[i] = n
      BY <2>1 DEF In
    <3>2. r[i] = IF i < k THEN s[i] ELSE s[i + 1]
      BY <1>1
    <3>3. i < k => i \in 1 .. Len(s) /\ i # k
      BY <1>1, <1>2
    <3>4. ~(i < k) => i + 1 \in 1 .. Len(s) /\ i + 1 # k
      BY <1>1, <1>2
    <3> QED BY <3>1, <3>2, <3>3, <3>4 DEF In, Distinct
  <2>2. ASSUME In(s, n), n # s[k] PROVE In(r, n)
    <3>1. PICK i \in 1 .. Len(s) : s[i] = n
      BY <2>2 DEF In
    <3>2. i # k
      BY <2>2, <3>1
    <3>3. CASE i < k
      <4>1. i \in 1 .. Len(r) /\ r[i] = n
        BY <1>1, <1>2, <3>1, <3>3
      <4> QED BY <4>1 DEF In
    <3>4. CASE i > k
      <4>1. i - 1 \in 1 .. Len(s) - 1 /\ ~(i - 1 < k) /\ (i - 1) + 1 = i
        BY <1>2, <3>4
      <4>2. r[i - 1] = n
        BY <1>1, <3>1, <4>1
      <4> QED BY <1>1, <4>1, <4>2 DEF In
    <3> QED BY <1>2, <3>2, <3>3, <3>4
  <2> QED BY <2>1, <2>2
<1> QED BY <1>1, <1>3, <1>4 DEF r

-----------------------------------------------------------------------------
(* The two chains after each thing that is done to them.                   *)
LEMMA LinkedLists ==
  ASSUME NEW ch, NEW to, NEW ln, Lists(ch, to, ln),
         NEW n \in Node, n \notin ln, NEW k \in 0 .. Len(ch) - 1
  PROVE  Lists(InsertAt(ch, k + 1, n), to, ln \cup {n})
<1> DEFINE r == InsertAt(ch, k + 1, n)
<1>1. ch \in Seq(Node \cup {last}) /\ Distinct(ch) /\ k \in 0 .. Len(ch)
      /\ n \in Node \cup {last} /\ ~In(ch, n) /\ ~In(to, n)
  BY DEF Lists
<1> HIDE DEF r
<1>2. /\ r \in Seq(Node \cup {last}) /\ Len(r) = Len(ch) + 1
      /\ \A i \in 1 .. Len(ch) + 1 :
           r[i] = IF i <= k THEN ch[i] ELSE IF i = k + 1 THEN n ELSE ch[i - 1]
      /\ Distinct(r)
      /\ \A m : In(r, m) <=> In(ch, m) \/ m = n
  BY <1>1, InsertedList DEF r
<1>3. r[Len(r)] = last
  <2>1. Len(ch) + 1 \in 1 .. Len(ch) + 1 /\ ~(Len(ch) + 1 <= k) /\ Len(ch) + 1 # k + 1
    BY <1>1
  <2>2. r[Len(ch) + 1] = ch[(Len(ch) + 1) - 1]
    BY <1>2, <2>1
  <2> QED BY <1>1, <1>2, <2>2 DEF Lists
<1>4. Lists(r, to, ln \cup {n})
  BY <1>1, <1>2, <1>3 DEF Lists
<1> QED BY <1>4 DEF r

LEMMA LateLists ==
  ASSUME NEW ch, NEW to, NEW ln, Lists(ch, to, ln), NEW n \in Node, n \notin ln
  PROVE  Lists(ch, Append(to, n), ln \cup {n})
<1> DEFINE r == Append(to, n)
<1>1. to \in Seq(Node) /\ Distinct(to) /\ ~In(to, n) /\ ~In(ch, n)
  BY DEF Lists
<1>2. /\ r \in Seq(Node) /\ Len(r) = Len(to) + 1
      /\ \A i \in 1 .. Len(to) : r[i] = to[i]
      /\ r[Len(to) + 1] = n
  BY <1>1
<1> HIDE DEF r
<1>3. Len(to) \in Nat
  BY <1>1
<1>4. Distinct(r)
  BY <1>1, <1>2, <1>3 DEF Distinct, In
<1>5. \A m : In(r, m) <=> In(to, m) \/ m = n
  BY <1>2, <1>3 DEF In
<1>6. Lists(ch, r, ln \cup {n})
  BY <1>1, <1>2, <1>4, <1>5 DEF Lists
<1> QED BY <1>6 DEF r

LEMMA TimedOutLists ==
  ASSUME NEW ch, NEW to, NEW ln, Lists(ch, to, ln), Head(ch) # last
  PROVE  Lists(Tail(ch), Append(to, Head(ch)), ln) /\ Head(ch) \in ln
<1> DEFINE n == ch[1]
           r == Tail(ch)
<1>1. /\ ch \in Seq(Node \cup {last}) /\ Distinct(ch) /\ Len(ch) \in Nat /\ Len(ch) > 0
      /\ ch[Len(ch)] = last /\ n # last /\ Head(ch) = n
  BY DEF Lists
<1>2. n \in Node /\ Len(ch) > 1
  BY <1>1
<1>3. /\ r \in Seq(Node \cup {last}) /\ Len(r) = Len(ch) - 1
      /\ \A i \in 1 .. Len(ch) - 1 : r[i] = ch[i + 1]
  BY <1>1
<1> HIDE DEF r
<1>4. Distinct(r)
  <2> SUFFICES ASSUME NEW i \in 1 .. Len(r), NEW j \in 1 .. Len(r), r[i] = r[j]
               PROVE  i = j
    BY DEF Distinct
  <2>1. ch[i + 1] = ch[j + 1] /\ i + 1 \in 1 .. Len(ch) /\ j + 1 \in 1 .. Len(ch)
    BY <1>1, <1>3
  <2> QED BY <1>1, <2>1 DEF Distinct
<1>5. \A m : In(r, m) <=> In(ch, m) /\ m # n
  <2> TAKE m
  <2>1. ASSUME In(r, m) PROVE In(ch, m) /\ m # n
    <3>1. PICK i \in 1 .. Len(r) : r[i] = m
      BY <2>1 DEF In
    <3>2. i + 1 \in 1 .. Len(ch) /\ ch[i + 1] = m /\ 1 \in 1 .. Len(ch) /\ i + 1 # 1
      BY <1>1, <1>3, <3>1
    <3>3. ch[i + 1] # ch[1]
      BY <1>1, <3>2 DEF Distinct
    <3> QED BY <3>2, <3>3 DEF In
  <2>2. ASSUME In(ch, m), m # n PROVE In(r, m)
    <3>1. PICK i \in 1 .. Len(ch) : ch[i] = m
      BY <2>2 DEF In
    <3>2. i # 1
      BY <2>2, <3>1
    <3>3. i - 1 \in 1 .. Len(r) /\ r[i - 1] = m
      BY <1>1, <1>3, <3>1, <3>2
    <3> QED BY <3>3 DEF In
  <2> QED BY <2>1, <2>2
<1>6. n \in ln
  <2>1. In(ch, n)
    BY <1>1 DEF In
  <2> QED BY <1>2, <2>1 DEF Lists
<1>7. r[Len(r)] = last
  BY <1>1, <1>2, <1>3
<1>8. Lists(r, to, ln \ {n})
  <2>1. \A m \in Node : m \in ln \ {n} <=> In(r, m) \/ In(to, m)
    <3>1. ~In(to, n)
      <4>1. In(ch, n)
        BY <1>1 DEF In
      <4> QED BY <1>2, <4>1 DEF Lists
    <3> QED BY <1>5, <3>1 DEF Lists
  <2> QED BY <1>1, <1>2, <1>3, <1>4, <1>5, <1>7, <2>1 DEF Lists
<1>9. Lists(r, Append(to, n), (ln \ {n}) \cup {n})
  BY <1>2, <1>8, LateLists
<1>10. (ln \ {n}) \cup {n} = ln
  BY <1>6
<1> QED BY <1>1, <1>6, <1>9, <1>10 DEF r

(* A timer that has timed out is called, or cancelled.                     *)
LEMMA CalledLists ==
  ASSUME NEW ch, NEW to, NEW ln, Lists(ch, to, ln), NEW k \in 1 .. Len(to)
  PROVE  Lists(ch, RemoveAt(to, k), ln \ {to[k]}) /\ to[k] \in ln
<1> DEFINE n == to[k]
           r == RemoveAt(to, k)
<1>1. to \in Seq(Node) /\ Distinct(to) /\ n \in Node
  BY DEF Lists
<1>2. r \in Seq(Node) /\ Distinct(r) /\ \A m : In(r, m) <=> In(to, m) /\ m # n
  BY <1>1, RemovedList
<1>3. In(to, n) /\ n \in ln
  <2>1. In(to, n)
    BY DEF In
  <2> QED BY <1>1, <2>1 DEF Lists
<1>4. ~In(ch, n)
  BY <1>1, <1>3 DEF Lists
<1> HIDE DEF r, n
<1>5. \A m \in Node : m \in ln \ {n} <=> In(ch, m) \/ In(r, m)
  BY <1>2, <1>4 DEF Lists
<1>6. Lists(ch, r, ln \ {n})
  BY <1>1, <1>2, <1>5 DEF Lists
<1> QED BY <1>3, <1>6 DEF r, n

(* A timer is cancelled before it times out.                               *)
LEMMA CancelledLists ==
  ASSUME NEW ch, NEW to, NEW ln, Lists(ch, to, ln),
         NEW k \in 1 .. Len(ch), ch[k] # last
  PROVE  Lists(RemoveAt(ch, k), to, ln \ {ch[k]}) /\ ch[k] \in ln
<1> DEFINE n == ch[k]
           r == RemoveAt(ch, k)
<1>1. ch \in Seq(Node \cup {last}) /\ Distinct(ch) /\ n \in Node /\ Len(ch) \in Nat
      /\ ch[Len(ch)] = last
  BY DEF Lists
<1>2. /\ r \in Seq(Node \cup {last}) /\ Distinct(r) /\ Len(r) = Len(ch) - 1
      /\ \A m : In(r, m) <=> In(ch, m) /\ m # n
  BY <1>1, RemovedList
<1>3. In(ch, n) /\ n \in ln
  <2>1. In(ch, n)
    BY DEF In
  <2> QED BY <1>1, <2>1 DEF Lists
<1>4. ~In(to, n)
  BY <1>1, <1>3 DEF Lists
<1>5. k < Len(ch)
  BY <1>1
<1>6. Len(r) > 0 /\ r[Len(r)] = last
  <2>1. r[Len(ch) - 1] = ch[(Len(ch) - 1) + 1]
    <3>1. Len(ch) - 1 \in 1 .. Len(ch) - 1 /\ ~(Len(ch) - 1 < k)
      BY <1>1, <1>5
    <3> QED BY <1>1, <3>1, RemoveAtPlace
  <2> QED BY <1>1, <1>2, <1>5, <2>1
<1> HIDE DEF r, n
<1>7. \A m \in Node : m \in ln \ {n} <=> In(r, m) \/ In(to, m)
  BY <1>2, <1>4 DEF Lists
<1>8. Lists(r, to, ln \ {n})
  BY <1>1, <1>2, <1>6, <1>7 DEF Lists
<1> QED BY <1>3, <1>8 DEF r, n

-----------------------------------------------------------------------------
(* The sums of the intervals of a chain: there is such a function, and it  *)
(* is the one the model speaks of.                                         *)
IsSum(f, w, m) == f = [i \in 0 .. m |-> IF i = 0 THEN 0 ELSE f[i - 1] + w[i]]

LEMMA SumExists ==
  ASSUME NEW w, NEW m \in Nat
  PROVE  \E f : IsSum(f, w, m)
<1> DEFINE Without == {i \in Nat : ~\E f : IsSum(f, w, i)}
<1>1. SUFFICES ASSUME Without # {} PROVE FALSE
  OBVIOUS
<1>2. PICK l \in Without : \A i \in Without : l <= i
  BY <1>1, Smallest
<1>3. CASE l = 0
  <2> DEFINE f == [i \in 0 .. 0 |-> 0]
  <2>1. IsSum(f, w, 0)
    BY DEF IsSum
  <2> QED BY <1>3, <2>1
<1>4. CASE l # 0
  <2>1. l - 1 \in Nat /\ l - 1 \notin Without
    BY <1>2, <1>4
  <2>2. PICK f : IsSum(f, w, l - 1)
    BY <2>1
  <2> DEFINE g == [i \in 0 .. l |-> IF i = l THEN f[l - 1] + w[l] ELSE f[i]]
  <2>3. \A i \in 0 .. l - 1 : g[i] = f[i]
    BY <2>1
  <2>4. \A i \in 0 .. l - 1 : f[i] = IF i = 0 THEN 0 ELSE f[i - 1] + w[i]
    BY <2>2 DEF IsSum
  <2>5. \A i \in 0 .. l : g[i] = IF i = 0 THEN 0 ELSE g[i - 1] + w[i]
    <3> TAKE i \in 0 .. l
    <3>1. CASE i = l
      BY <1>4, <2>1, <2>3, <3>1
    <3>2. CASE i # l
      <4>1. i \in 0 .. l - 1 /\ (i # 0 => i - 1 \in 0 .. l - 1)
        BY <2>1, <3>2
      <4> QED BY <2>3, <2>4, <4>1
    <3> QED BY <3>1, <3>2
  <2>6. g = [i \in 0 .. l |-> g[i]]
    OBVIOUS
  <2> HIDE DEF g
  <2>7. IsSum(g, w, l)
    BY <2>5, <2>6 DEF IsSum
  <2> QED BY <2>7
<1> QED BY <1>3, <1>4

LEMMA SumIsNat ==
  ASSUME NEW w, NEW m \in Nat, NEW f, IsSum(f, w, m), \A i \in 1 .. m : w[i] \in Nat
  PROVE  \A i \in 0 .. m : f[i] \in Nat
<1> DEFINE Bad == {i \in 0 .. m : f[i] \notin Nat}
<1>1. SUFFICES ASSUME Bad # {} PROVE FALSE
  OBVIOUS
<1>2. PICK l \in Bad : \A i \in Bad : l <= i
  <2>1. Bad \subseteq Nat
    OBVIOUS
  <2> HIDE DEF Bad
  <2> QED BY <1>1, <2>1, Smallest
<1>3. f[l] = IF l = 0 THEN 0 ELSE f[l - 1] + w[l]
  BY DEF IsSum
<1>4. l # 0 => l - 1 \in 0 .. m /\ l - 1 \notin Bad
  BY <1>2
<1> QED BY <1>2, <1>3, <1>4

(* The intervals of a chain as unsigned words.                             *)
Widths(c) == [i \in 1 .. Len(c.chain) |-> Unsigned(c.interval[c.chain[i]])]

LEMMA BehindIsSum ==
  ASSUME NEW c, Len(c.chain) \in Nat
  PROVE  IsSum(Behind(c), Widths(c), Len(c.chain))
<1> DEFINE m == Len(c.chain)
           w == Widths(c)
           Is(f) == f = [i \in 0 .. m |->
                           IF i = 0 THEN 0 ELSE f[i - 1] + Unsigned(c.interval[c.chain[i]])]
<1>1. ASSUME NEW f PROVE IsSum(f, w, m) <=> Is(f)
  <2>1. \A i \in 0 .. m : i # 0 => w[i] = Unsigned(c.interval[c.chain[i]])
    BY DEF Widths
  <2>2. [i \in 0 .. m |-> IF i = 0 THEN 0 ELSE f[i - 1] + w[i]]
        = [i \in 0 .. m |-> IF i = 0 THEN 0 ELSE f[i - 1] + Unsigned(c.interval[c.chain[i]])]
    BY <2>1
  <2> QED BY <2>2 DEF IsSum
<1>2. PICK f : Is(f)
  BY <1>1, SumExists
<1>3. Behind(c) = CHOOSE g : Is(g)
  BY DEF Behind
<1>4. Is(Behind(c))
  BY <1>2, <1>3
<1> QED BY <1>1, <1>4

-----------------------------------------------------------------------------
(* The state as TimerRegister and the steps of the handler need it.        *)
IsHead(h) == h = [time |-> h.time, interval |-> h.interval] /\ h.time \in Int /\ h.interval \in Words

Typed ==
  /\ IsHead(head)
  /\ longcounter \in 0 .. Longest
  /\ status \in {0, 1}
  /\ time \in [Node \cup {last} -> Int]
  /\ interval \in [Node \cup {last} -> Words]
  /\ pc \in {"idle", "check", "call", "wait"}
  /\ left \in Words /\ late \in Nat
  /\ now \in Nat

IsChain(c) ==
  /\ c = [head |-> c.head, chain |-> c.chain, timeout |-> c.timeout, interval |-> c.interval,
          longcounter |-> c.longcounter]
  /\ IsHead(c.head)
  /\ c.chain \in Seq(Node \cup {last}) /\ Len(c.chain) > 0
  /\ c.interval \in [Node \cup {last} -> Words]
  /\ c.longcounter \in 0 .. Longest

(* The time that GetNowTime tells, from head and the counter.              *)
Told(c) == c.head.time - c.longcounter

LEMMA IntervalIsWord ==
  ASSUME NEW from \in Int, NEW to \in Int
  PROVE  Interval(from, to) \in Words
<1>1. to - from \in Int
  OBVIOUS
<1> QED BY <1>1, SignedIsWord, InvalidIsWord DEF Interval

LEMMA ChainIsChain ==
  ASSUME Typed, Lists(chain, timeout, linked)
  PROVE  /\ IsChain(Chain)
         /\ Chain.head = head /\ Chain.longcounter = longcounter
         /\ Chain.chain = chain /\ Chain.timeout = timeout /\ Chain.interval = interval
BY DEF Chain, IsChain, Typed, Lists

(* GetTimeAndFixZero.                                                      *)
LEMMA FixZeroKeepsTime ==
  ASSUME NEW c, IsChain(c)
  PROVE  LET r == FixZero(c)
             sum == c.head.interval + Signed(c.longcounter - 1) IN
         /\ IsChain(r)
         /\ Told(r) = Told(c)
         /\ r.chain = c.chain /\ r.timeout = c.timeout /\ r.interval = c.interval
         /\ r.longcounter = 1
         /\ r.head.time = c.head.time - (c.longcounter - 1)
         /\ r.head.interval = IF Signed(c.longcounter - 1) < 0 \/ sum < 0
                              THEN Invalid ELSE Signed(sum)
<1> DEFINE more == c.longcounter - 1
           sum  == c.head.interval + Signed(more)
           h    == [time |-> c.head.time - more,
                    interval |-> IF Signed(more) < 0 \/ sum < 0 THEN Invalid ELSE Signed(sum)]
           r    == [head |-> h, chain |-> c.chain, timeout |-> c.timeout,
                    interval |-> c.interval, longcounter |-> 1]
<1>1. FixZero(c) = [[c EXCEPT !.head = h] EXCEPT !.longcounter = 1]
  BY DEF FixZero
<1>2. more \in Int /\ c.head.interval \in Int /\ c.head.time \in Int
  BY WordFacts DEF IsChain, IsHead, Words
<1>3. Signed(more) \in Words
  BY <1>2, SignedIsWord
<1>4. Signed(more) \in Int /\ sum \in Int
  BY <1>2, <1>3, WordFacts DEF Words
<1>5. h.interval \in Words /\ h.time \in Int
  BY <1>2, <1>4, SignedIsWord, InvalidIsWord
<1>6. IsHead(h)
  <2>1. h = [time |-> h.time, interval |-> h.interval]
    OBVIOUS
  <2> QED BY <1>5, <2>1 DEF IsHead
<1> HIDE DEF h
<1>7. FixZero(c) = r
  BY <1>1 DEF IsChain
<1>8. IsChain(r)
  BY <1>6, WordFacts DEF IsChain
<1>9. Told(r) = Told(c)
  BY <1>2 DEF Told, IsChain, h
<1> QED BY <1>7, <1>8, <1>9 DEF h

(* A node is put into a chain.                                             *)
LEMMA LinkIsInsert ==
  ASSUME NEW c, IsChain(c), NEW n \in Node, NEW k \in 0 .. Len(c.chain) - 1,
         NEW before \in Words, NEW after \in Words
  PROVE  LET r == Link(c, n, k, before, after) IN
         /\ IsHead(r.head) /\ r.head.time = c.head.time
         /\ r.head.interval = IF k = 0 THEN before ELSE c.head.interval
         /\ r.chain = InsertAt(c.chain, k + 1, n)
         /\ r.timeout = c.timeout
         /\ r.interval \in [Node \cup {last} -> Words]
         /\ \A m \in Node \cup {last} :
              r.interval[m] = IF m = n THEN after
                              ELSE IF k > 0 /\ m = c.chain[k] THEN before ELSE c.interval[m]
         /\ r.longcounter = c.longcounter
<1> DEFINE h == [time |-> c.head.time, interval |-> IF k = 0 THEN before ELSE c.head.interval]
           i == IF k = 0 THEN c.interval ELSE [c.interval EXCEPT ![c.chain[k]] = before]
           d == [head |-> h, chain |-> c.chain, timeout |-> c.timeout,
                 interval |-> i, longcounter |-> c.longcounter]
           q == InsertAt(c.chain, k + 1, n)
           r == [head |-> h, chain |-> q, timeout |-> c.timeout,
                 interval |-> [i EXCEPT ![n] = after], longcounter |-> c.longcounter]
<1>1. Link(c, n, k, before, after) = [[d EXCEPT !.chain = InsertAt(@, k + 1, n)] EXCEPT !.interval[n] = after]
  <2>1. CASE k = 0
    <3>1. [c EXCEPT !.head.interval = before] = d
      BY <2>1 DEF IsChain, IsHead
    <3> QED BY <2>1, <3>1 DEF Link
  <2>2. CASE k # 0
    <3>1. c.head = h
      BY <2>2 DEF IsChain, IsHead
    <3>2. c = [head |-> c.head, chain |-> c.chain, timeout |-> c.timeout,
               interval |-> c.interval, longcounter |-> c.longcounter]
      BY DEF IsChain
    <3>3. i = [c.interval EXCEPT ![c.chain[k]] = before]
      BY <2>2
    <3> HIDE DEF h, i
    <3>4. [c EXCEPT !.interval[c.chain[k]] = before] = d
      BY <3>1, <3>2, <3>3
    <3> QED BY <2>2, <3>4 DEF Link
  <2> QED BY <2>1, <2>2
<1>2. Link(c, n, k, before, after) = r
  <2> HIDE DEF h, i
  <2> QED BY <1>1
<1>3. k > 0 => c.chain[k] \in Node \cup {last}
  BY DEF IsChain
<1>4. i \in [Node \cup {last} -> Words]
  BY <1>3 DEF IsChain
<1>5. \A m \in Node \cup {last} :
        [i EXCEPT ![n] = after][m]
        = IF m = n THEN after
          ELSE IF k > 0 /\ m = c.chain[k] THEN before ELSE c.interval[m]
  BY <1>3 DEF IsChain
<1>6. [i EXCEPT ![n] = after] \in [Node \cup {last} -> Words]
  BY <1>4
<1>7. IsHead(h)
  BY DEF IsHead, IsChain
<1>8. h.time = c.head.time /\ h.interval = IF k = 0 THEN before ELSE c.head.interval
  OBVIOUS
<1> DEFINE e == [i EXCEPT ![n] = after]
<1> HIDE DEF h, i, q, e
<1>9. /\ r.head = h /\ r.chain = q /\ r.timeout = c.timeout /\ r.interval = e
      /\ r.longcounter = c.longcounter
  BY DEF e
<1> HIDE DEF r
<1>10. Link(c, n, k, before, after) = r
  BY <1>2 DEF r
<1> QED BY <1>5, <1>6, <1>7, <1>8, <1>9, <1>10 DEF e, q

-----------------------------------------------------------------------------
(* TimerRegister: the node goes to those that have timed out or into the   *)
(* chain, but not behind last, and the time is told as before.             *)
LEMMA CountIsSmall ==
  ASSUME NEW a \in Int, NEW b \in Int, a <= b + 1, NEW T \in SUBSET (a .. b)
  PROVE  Cardinality(T) \in Nat /\ Cardinality(T) <= b - a + 1
<1>1. IsFiniteSet(a .. b) /\ Cardinality(a .. b) = b - a + 1
  BY FS_Interval
<1>2. IsFiniteSet(T) /\ Cardinality(T) <= b - a + 1
  BY <1>1, FS_Subset
<1> QED BY <1>2, FS_CardinalityType

LEMMA LinkByTimeIsLink ==
  ASSUME Typed, NEW c, IsChain(c), NEW n \in Node, NEW t \in Int
  PROVE  \E k \in 0 .. Len(c.chain) - 1, before, after \in Words :
           LinkByTime(c, n, t) = Link(c, n, k, before, after)
<1> DEFINE earlier == {i \in 1 .. Len(c.chain) - 1 : time[c.chain[i]] <= t}
           k       == Cardinality(earlier)
           from    == IF k = 0 THEN c.head.time ELSE time[c.chain[k]]
           next    == time[c.chain[k + 1]]
<1>1. Len(c.chain) - 1 \in Nat
  BY DEF IsChain
<1>2. k \in 0 .. Len(c.chain) - 1
  <2> DEFINE m == Len(c.chain) - 1
  <2>1. earlier \subseteq 1 .. m
    OBVIOUS
  <2> HIDE DEF earlier
  <2>2. m \in Int /\ 1 <= m + 1
    BY <1>1
  <2> HIDE DEF m
  <2>3. Cardinality(earlier) \in 0 .. m
    BY <2>1, <2>2, CountIsSmall
  <2> QED BY <2>2, <2>3 DEF m
<1> HIDE DEF k, earlier
<1>3. from \in Int /\ next \in Int
  <2>1. k + 1 \in 1 .. Len(c.chain) /\ (k # 0 => k \in 1 .. Len(c.chain))
    BY <1>1, <1>2
  <2>2. c.chain[k + 1] \in Node \cup {last} /\ (k # 0 => c.chain[k] \in Node \cup {last})
    BY <2>1 DEF IsChain
  <2> QED BY <2>2 DEF Typed, IsChain, IsHead
<1>4. LinkByTime(c, n, t) = Link(c, n, k, Interval(from, t), Interval(t, next))
  BY DEF LinkByTime, k, earlier
<1> HIDE DEF from, next
<1> QED BY <1>2, <1>3, <1>4, IntervalIsWord

LEMMA BehindIsNat ==
  ASSUME NEW c, IsChain(c)
  PROVE  /\ \A i \in 0 .. Len(c.chain) : Behind(c)[i] \in Nat
         /\ Behind(c)[0] = 0
         /\ \A i \in 1 .. Len(c.chain) :
              Behind(c)[i] = Behind(c)[i - 1] + Unsigned(c.interval[c.chain[i]])
<1>1. Len(c.chain) \in Nat
  BY DEF IsChain
<1>2. \A i \in 1 .. Len(c.chain) : Widths(c)[i] = Unsigned(c.interval[c.chain[i]])
  BY DEF Widths
<1>3. ASSUME NEW i \in 1 .. Len(c.chain) PROVE Widths(c)[i] \in Nat
  <2>1. c.interval[c.chain[i]] \in Words
    BY DEF IsChain
  <2>2. c.interval[c.chain[i]] \in Int
    BY <2>1, WordFacts DEF Words
  <2>3. Unsigned(c.interval[c.chain[i]]) \in 0 .. Longest
    BY <2>2, UnsignedIsWord
  <2> QED BY <1>2, <2>3, WordFacts
<1>4. IsSum(Behind(c), Widths(c), Len(c.chain))
  BY <1>1, BehindIsSum
<1>5. \A i \in 0 .. Len(c.chain) : Behind(c)[i] \in Nat
  BY <1>1, <1>3, <1>4, SumIsNat
<1>6. \A i \in 0 .. Len(c.chain) :
        Behind(c)[i] = IF i = 0 THEN 0 ELSE Behind(c)[i - 1] + Widths(c)[i]
  BY <1>1, <1>4 DEF IsSum
<1> QED BY <1>1, <1>2, <1>5, <1>6

LEMMA LinkByIntervalIsLink ==
  ASSUME Typed, NEW c, IsChain(c), NEW n \in Node, NEW t \in Int,
         t - c.head.time \in 0 .. Half - 1
  PROVE  \E k \in 0 .. Len(c.chain) - 1, before, after \in Words :
           LinkByInterval(c, n, t) = Link(c, n, k, before, after)
<1> DEFINE x      == t - c.head.time - c.head.interval
           passed == {i \in 0 .. Len(c.chain) - 2 : Behind(c)[i] <= x}
           k      == IF x < 0 \/ c.head.interval < Calculated THEN 0 ELSE Cardinality(passed)
           before == IF k = 0 THEN t - c.head.time ELSE Signed(x - Behind(c)[k - 1])
           old    == IF k = 0 THEN c.head.interval ELSE c.interval[c.chain[k]]
           next   == time[c.chain[k + 1]]
           after  == IF old < 0 THEN Interval(t, next) ELSE Signed(next - t)
<1>1. Len(c.chain) - 1 \in Nat
  BY DEF IsChain
<1>2. k \in 0 .. Len(c.chain) - 1
  <2> DEFINE m == Len(c.chain) - 1
  <2>1. passed \subseteq 0 .. m - 1
    BY <1>1
  <2> HIDE DEF passed, x
  <2>2. m \in Nat /\ m - 1 \in Int /\ 0 <= (m - 1) + 1 /\ (m - 1) - 0 + 1 = m
    BY <1>1
  <2> HIDE DEF m
  <2>3. 0 \in Int /\ passed \in SUBSET (0 .. m - 1)
    BY <2>1
  <2>4. Cardinality(passed) \in Nat /\ Cardinality(passed) <= (m - 1) - 0 + 1
    BY <2>2, <2>3, CountIsSmall, Zenon
  <2>5. Cardinality(passed) \in 0 .. m /\ 0 \in 0 .. m
    BY <2>2, <2>4
  <2> QED BY <2>5 DEF m
<1>3. x \in Int
  <2>1. c.head.interval \in Words /\ c.head.time \in Int
    BY DEF IsChain, IsHead
  <2>2. c.head.interval \in Int
    BY <2>1, WordFacts DEF Words
  <2> QED BY <2>1, <2>2
<1> HIDE DEF k, passed, x
<1>4. before \in Words
  <2>1. CASE k = 0
    BY <2>1, WordFacts DEF Words
  <2>2. CASE k # 0
    <3>1. Behind(c)[k - 1] \in Int
      BY <1>1, <1>2, <2>2, BehindIsNat
    <3> QED BY <1>3, <2>2, <3>1, SignedIsWord
  <2> QED BY <2>1, <2>2
<1>5. next \in Int
  <2>1. k + 1 \in 1 .. Len(c.chain)
    BY <1>1, <1>2
  <2>2. c.chain[k + 1] \in Node \cup {last}
    BY <2>1 DEF IsChain
  <2> QED BY <2>2 DEF Typed
<1> HIDE DEF next
<1>6. after \in Words
  BY <1>5, IntervalIsWord, SignedIsWord
<1>7. LinkByInterval(c, n, t) = Link(c, n, k, before, after)
  BY DEF LinkByInterval, k, passed, x, next
<1> HIDE DEF before, after
<1> QED BY <1>2, <1>4, <1>6, <1>7

(* What TimerRegister leaves: r, where n is a node that was not linked.    *)
IsRegistered(r, n) ==
  /\ IsHead(r.head) /\ r.longcounter \in 0 .. Longest
  /\ r.interval \in [Node \cup {last} -> Words]
  /\ Told(r) = head.time - longcounter
  /\ \/ r.chain = chain /\ r.timeout = Append(timeout, n)
     \/ /\ r.timeout = timeout
        /\ \E k \in 0 .. Len(chain) - 1 : r.chain = InsertAt(chain, k + 1, n)

LEMMA LinkRegisters ==
  ASSUME NEW c, IsChain(c), Told(c) = head.time - longcounter,
         c.chain = chain, c.timeout = timeout, NEW n \in Node,
         NEW k \in 0 .. Len(chain) - 1, NEW before \in Words, NEW after \in Words
  PROVE  LET r == Link(c, n, k, before, after) IN
         /\ IsRegistered(r, n)
         /\ r.head.time = c.head.time /\ r.longcounter = c.longcounter
<1> DEFINE r == Link(c, n, k, before, after)
<1>0. k \in 0 .. Len(c.chain) - 1 /\ Len(c.chain) \in Nat
  BY DEF IsChain
<1> HIDE DEF r
<1>1. /\ IsHead(r.head) /\ r.head.time = c.head.time
      /\ r.chain = InsertAt(c.chain, k + 1, n) /\ r.timeout = c.timeout
      /\ r.interval \in [Node \cup {last} -> Words]
      /\ r.longcounter = c.longcounter
  <2>1. r.timeout = c.timeout
    BY <1>0, LinkIsInsert DEF r
  <2>2. IsHead(r.head) 
    BY <1>0, LinkIsInsert DEF r
  <2>3. r.head.time = c.head.time
    BY <1>0, LinkIsInsert DEF r
  <2>4. r.chain = InsertAt(c.chain, k + 1, n)
    BY <1>0, LinkIsInsert DEF r
  <2>5. r.interval \in [Node \cup {last} -> Words]
    BY <1>0, LinkIsInsert DEF r
  <2>6. r.longcounter = c.longcounter
    BY <1>0, LinkIsInsert DEF r
  <2> QED BY <2>1, <2>2, <2>3, <2>4, <2>5, <2>6
<1>2. c.longcounter \in 0 .. Longest
  BY DEF IsChain
<1>3. Told(r) = Told(c)
  BY <1>1 DEF Told
<1>4. IsRegistered(r, n)
  BY <1>1, <1>2, <1>3 DEF IsRegistered
<1> QED BY <1>1, <1>4 DEF r

LEMMA RegisterKeepsTime ==
  ASSUME Typed, Lists(chain, timeout, linked),
         NEW n \in Node, NEW t \in Int, NEW handling
  PROVE  LET r == Register(n, t, handling) IN
         /\ IsRegistered(r, n)
         /\ handling = 1 => r.head.time = head.time /\ r.longcounter = longcounter
<1> DEFINE fixes == t < head.time /\ handling = 0
           c == IF fixes THEN FixZero(Chain) ELSE Chain
           d == t - c.head.time
           r == Register(n, t, handling)
<1>1. /\ IsChain(c) /\ Told(c) = head.time - longcounter
      /\ c.chain = chain /\ c.timeout = timeout
      /\ ~fixes => c.head.time = head.time /\ c.longcounter = longcounter
  <2>1. IsChain(Chain) /\ Told(Chain) = head.time - longcounter
        /\ Chain.head = head /\ Chain.longcounter = longcounter
        /\ Chain.chain = chain /\ Chain.timeout = timeout
    BY ChainIsChain DEF Told
  <2>2. CASE fixes
    BY <2>1, <2>2, FixZeroKeepsTime
  <2>3. CASE ~fixes
    BY <2>1, <2>3
  <2> QED BY <2>2, <2>3
<1>2. handling = 1 => ~fixes
  OBVIOUS
<1>3. r = IF d < 0 THEN [c EXCEPT !.timeout = Append(@, n)]
          ELSE IF d >= Half \/ ~Fits(d - c.head.interval) THEN LinkByTime(c, n, t)
          ELSE LinkByInterval(c, n, t)
  BY DEF Register
<1> HIDE DEF c, r, fixes
<1>4. d \in Int
  <2>1. IsHead(c.head)
    BY <1>1 DEF IsChain
  <2>2. c.head.time \in Int
    BY <2>1 DEF IsHead
  <2> QED BY <2>2
<1>5. CASE d < 0
  <2>1. r = [head |-> c.head, chain |-> c.chain, timeout |-> Append(c.timeout, n),
             interval |-> c.interval, longcounter |-> c.longcounter]
    BY <1>1, <1>3, <1>5 DEF IsChain
  <2>2. IsRegistered(r, n)
    BY <1>1, <2>1 DEF IsRegistered, IsChain, Told
  <2> QED BY <1>1, <1>2, <2>1, <2>2 DEF r
<1>6. CASE d >= 0
  <2>1. \E k \in 0 .. Len(chain) - 1, before, after \in Words : r = Link(c, n, k, before, after)
    <3>1. CASE d >= Half \/ ~Fits(d - c.head.interval)
      <4>1. r = LinkByTime(c, n, t)
        BY <1>3, <1>4, <1>6, <3>1
      <4> QED BY <1>1, <4>1, LinkByTimeIsLink
    <3>2. CASE ~(d >= Half \/ ~Fits(d - c.head.interval))
      <4>1. r = LinkByInterval(c, n, t)
        BY <1>3, <1>4, <1>6, <3>2
      <4>2. d \in 0 .. Half - 1
        BY <1>4, <1>6, <3>2, WordFacts
      <4> QED BY <1>1, <4>1, <4>2, LinkByIntervalIsLink
    <3> QED BY <3>1, <3>2
  <2>2. PICK k \in 0 .. Len(chain) - 1, before \in Words, after \in Words :
          r = Link(c, n, k, before, after)
    BY <2>1
  <2>3. IsRegistered(r, n) /\ r.head.time = c.head.time /\ r.longcounter = c.longcounter
    BY <1>1, <2>2, LinkRegisters
  <2> QED BY <1>1, <1>2, <2>3 DEF r
<1> QED BY <1>4, <1>5, <1>6

LEMMA RegisteredLists ==
  ASSUME NEW ch, NEW to, NEW ln, Lists(ch, to, ln), NEW n \in Node, n \notin ln,
         NEW ch2, NEW to2,
         \/ ch2 = ch /\ to2 = Append(to, n)
         \/ to2 = to /\ \E k \in 0 .. Len(ch) - 1 : ch2 = InsertAt(ch, k + 1, n)
  PROVE  Lists(ch2, to2, ln \cup {n})
<1>1. CASE ch2 = ch /\ to2 = Append(to, n)
  BY <1>1, LateLists
<1>2. CASE to2 = to /\ \E k \in 0 .. Len(ch) - 1 : ch2 = InsertAt(ch, k + 1, n)
  BY <1>2, LinkedLists
<1> QED BY <1>1, <1>2

-----------------------------------------------------------------------------
(* The invariant of every behaviour.                                       *)
IInv ==
  /\ Typed
  /\ Lists(chain, timeout, linked)
  /\ pc = "call" => timeout # <<>>

LEMMA InitIInv == Init => IInv
<1> SUFFICES ASSUME Init PROVE IInv
  OBVIOUS
<1>1. Typed
  <2>1. IsHead(head)
    BY InvalidIsWord DEF Init, IsHead
  <2>2. 0 \in Words
    BY WordFacts DEF Words
  <2>3. time \in [Node \cup {last} -> Int]
    BY WordFacts DEF Init
  <2>4. interval \in [Node \cup {last} -> Words]
    BY <2>2 DEF Init
  <2> QED BY <2>1, <2>2, <2>3, <2>4, WordFacts DEF Init, Typed
<1>2. Lists(<<last>>, <<>>, {})
  BY NodeAssumption DEF Lists, Distinct, In
<1> QED BY <1>1, <1>2 DEF Init, IInv

LEMMA ClientsKeepIInv ==
  ASSUME IInv, NEW n \in Node, SetNowTimeNode(n) \/ AddTimeNode(n)
  PROVE  IInv'
<1>1. NowTime \in Int
  BY WordFacts DEF NowTime, IInv, Typed, IsHead
<1>2. \A d \in Delays : time[n] + d \in Int
  BY DelayAssumption DEF IInv, Typed
<1>3. time' \in [Node \cup {last} -> Int]
  BY <1>1, <1>2 DEF SetNowTimeNode, AddTimeNode, IInv, Typed
<1>4. UNCHANGED <<head, chain, timeout, interval, linked, longcounter, status, pc, left,
                  late, now>>
  BY DEF SetNowTimeNode, AddTimeNode
<1> QED BY <1>3, <1>4 DEF IInv, Typed, Lists

LEMMA SetTimerKeepsIInv ==
  ASSUME IInv, NEW n \in Node, SetTimer(n)
  PROVE  IInv'
<1> DEFINE r == Register(n, time[n], status)
<1>1. IsRegistered(r, n)
  BY RegisterKeepsTime DEF IInv, Typed
<1> HIDE DEF r
<1>2. /\ head' = r.head /\ chain' = r.chain /\ timeout' = r.timeout
      /\ interval' = r.interval /\ longcounter' = r.longcounter
      /\ linked' = linked \cup {n} /\ n \notin linked /\ status' = 0 /\ pc = "idle"
      /\ UNCHANGED <<time, pc, left, late, now>>
  BY DEF SetTimer, SetChain, r
<1>3. Typed'
  BY <1>1, <1>2 DEF IsRegistered, IInv, Typed
<1>4. Lists(chain', timeout', linked')
  BY <1>1, <1>2, RegisteredLists DEF IsRegistered, IInv
<1> QED BY <1>2, <1>3, <1>4 DEF IInv

LEMMA CancelTimerKeepsIInv ==
  ASSUME IInv, NEW n \in Node, CancelTimer(n)
  PROVE  IInv'
<1>1. /\ n \in linked /\ linked' = linked \ {n} /\ pc = "idle"
      /\ UNCHANGED <<time, longcounter, status, pc, left, late, now>>
  BY DEF CancelTimer
<1>2. /\ chain \in Seq(Node \cup {last}) /\ timeout \in Seq(Node)
      /\ In(chain, n) \/ In(timeout, n)
  BY <1>1 DEF IInv, Lists
<1>3. CASE n \in Range(timeout)
  <2>1. timeout' = RemoveAt(timeout, Place(timeout, n)) /\ UNCHANGED <<head, chain, interval>>
    BY <1>3 DEF CancelTimer
  <2>2. In(timeout, n)
    BY <1>2, <1>3, RangeIsIn
  <2>3. Place(timeout, n) \in 1 .. Len(timeout) /\ timeout[Place(timeout, n)] = n
    BY <1>2, <2>2, PlaceIsThere
  <2>4. Lists(chain', timeout', linked')
    BY <1>1, <2>1, <2>3, CalledLists DEF IInv
  <2>5. Typed'
    BY <1>1, <2>1 DEF IInv, Typed
  <2> QED BY <1>1, <2>4, <2>5 DEF IInv
<1>4. CASE n \notin Range(timeout)
  <2> DEFINE k == Place(chain, n)
  <2>1. /\ chain' = RemoveAt(chain, k) /\ timeout' = timeout
        /\ IF k = 1
           THEN /\ head' = [head EXCEPT !.interval = Joined(interval[n], @)]
                /\ UNCHANGED interval
           ELSE /\ interval' = [interval EXCEPT ![chain[k - 1]] = Joined(interval[n], @)]
                /\ UNCHANGED head
    BY <1>4 DEF CancelTimer
  <2>2. In(chain, n)
    BY <1>2, <1>4, RangeIsIn
  <2>3. k \in 1 .. Len(chain) /\ chain[k] = n
    BY <1>2, <2>2, PlaceIsThere
  <2> HIDE DEF k
  <2>4. Lists(chain', timeout', linked')
    BY <1>1, <2>1, <2>3, CancelledLists, NodeAssumption DEF IInv
  <2>5. \A a, b \in Words : Joined(a, b) \in Words
    <3> TAKE a \in Words, b \in Words
    <3>1. a + b \in Int
      BY WordFacts DEF Words
    <3> QED BY <3>1, SignedIsWord, InvalidIsWord DEF Joined
  <2>6. interval[n] \in Words /\ IsHead(head)
    BY DEF IInv, Typed
  <2>7. IsHead(head') /\ interval' \in [Node \cup {last} -> Words]
    <3>1. CASE k = 1
      <4>1. Joined(interval[n], head.interval) \in Words
        BY <2>5, <2>6 DEF IsHead
      <4> QED BY <2>1, <2>6, <3>1, <4>1 DEF IsHead, IInv, Typed
    <3>2. CASE k # 1
      <4>1. k - 1 \in 1 .. Len(chain)
        BY <1>2, <2>3, <3>2
      <4>2. chain[k - 1] \in Node \cup {last}
        BY <1>2, <4>1
      <4> QED BY <2>1, <2>5, <2>6, <3>2, <4>2 DEF IInv, Typed
    <3> QED BY <3>1, <3>2
  <2>8. Typed'
    BY <1>1, <2>7 DEF IInv, Typed
  <2> QED BY <1>1, <2>4, <2>8 DEF IInv
<1> QED BY <1>3, <1>4

LEMMA TickKeepsIInv ==
  ASSUME IInv, Tick
  PROVE  IInv'
<1>1. longcounter - 1 \in Int /\ head.interval \in Words /\ 0 \in Words
  <2>1. longcounter - 1 \in Int
    BY DEF IInv, Typed
  <2>2. head.interval \in Words
    BY DEF IInv, Typed, IsHead
  <2>3. 0 \in Words
    BY WordFacts DEF Words
  <2> QED BY <2>1, <2>2, <2>3
<1>2. longcounter' \in 0 .. Longest
  BY <1>1, UnsignedIsWord DEF Tick
<1>3. left' \in Words /\ late' \in Nat /\ now' \in Nat
  BY <1>1 DEF Tick, IInv, Typed
<1>4. pc' \in {"idle", "check"}
  BY DEF Tick
<1>5. UNCHANGED <<chainVars, status>>
  BY DEF Tick
<1> QED BY <1>2, <1>3, <1>4, <1>5 DEF chainVars, IInv, Typed, Lists

LEMMA FirstIsThere ==
  ASSUME IInv
  PROVE  /\ chain \in Seq(Node \cup {last}) /\ chain # <<>>
         /\ First = chain[1] /\ First \in Node \cup {last}
BY DEF IInv, Lists, First

LEMMA TimesOutKeepsIInv ==
  ASSUME IInv, TimesOut
  PROVE  IInv'
<1>1. /\ pc = "check" /\ left >= 0 /\ left - late <= 0 /\ First # last
      /\ timeout' = Append(timeout, First) /\ chain' = Tail(chain)
      /\ late' = late - left /\ left' = interval[First]
      /\ UNCHANGED <<head, time, interval, linked, longcounter, status, pc, now>>
  BY DEF TimesOut
<1>2. Lists(chain', timeout', linked')
  BY <1>1, TimedOutLists DEF First, IInv
<1>3. late' \in Nat
  BY <1>1, WordFacts DEF IInv, Typed, Words
<1>4. left' \in Words
  BY <1>1, FirstIsThere DEF IInv, Typed
<1> QED BY <1>1, <1>2, <1>3, <1>4 DEF IInv, Typed

LEMMA FindIntervalKeepsIInv ==
  ASSUME IInv, FindInterval
  PROVE  IInv'
<1> DEFINE d == time[First] - head.time
           calculated == IF 0 < d /\ d < Half THEN d ELSE Invalid
<1>1. /\ \/ left < 0 /\ head' = [head EXCEPT !.interval = calculated]
         \/ left >= 0 /\ left - late > 0 /\ head' = [head EXCEPT !.interval = left - late]
      /\ pc' = (IF timeout # <<>> THEN "call" ELSE "wait")
      /\ left' = 0 /\ late' = 0
      /\ UNCHANGED <<chain, timeout, time, interval, linked, longcounter, status, now>>
  BY DEF FindInterval
<1>2. d \in Int
  BY FirstIsThere DEF IInv, Typed, IsHead
<1> HIDE DEF d
<1>3. calculated \in Words
  BY <1>2, InvalidIsWord, WordFacts DEF Words
<1>4. left >= 0 /\ left - late > 0 => left - late \in Words
  BY WordFacts DEF IInv, Typed, Words
<1> HIDE DEF calculated
<1>5. IsHead(head')
  BY <1>1, <1>3, <1>4 DEF IInv, Typed, IsHead
<1>6. 0 \in Words
  BY WordFacts DEF Words
<1>7. Typed'
  BY <1>1, <1>5, <1>6 DEF IInv, Typed
<1> QED BY <1>1, <1>7 DEF IInv

LEMMA CallKeepsIInv ==
  ASSUME IInv, Call
  PROVE  IInv'
<1> DEFINE n == Head(timeout)
           t == time[n] + Period[n]
           r == Register(n, t, 1)
           c == [r EXCEPT !.timeout = Tail(@)]
<1>1. /\ pc = "call" /\ status' = 1 /\ pc' = "check" /\ late' = 0 /\ UNCHANGED now
      /\ IF Period[n] = 0
         THEN /\ timeout' = Tail(timeout)
              /\ linked' = linked \ {n}
              /\ UNCHANGED <<head, chain, interval, time, longcounter>>
              /\ left' = head.interval
         ELSE /\ time' = [time EXCEPT ![n] = t]
              /\ SetChain(c)
              /\ UNCHANGED linked
              /\ left' = c.head.interval
  BY DEF Call
<1>2. /\ timeout \in Seq(Node) /\ timeout # <<>> /\ n = timeout[1] /\ n \in Node
      /\ 1 \in 1 .. Len(timeout) /\ Tail(timeout) = RemoveAt(timeout, 1)
  <2>1. timeout \in Seq(Node) /\ timeout # <<>>
    BY <1>1 DEF IInv, Lists
  <2>2. n = timeout[1] /\ 1 \in 1 .. Len(timeout)
    BY <2>1
  <2>3. n \in Node
    BY <2>1, <2>2
  <2>4. SubSeq(timeout, 1, 0) = <<>> /\ SubSeq(timeout, 2, Len(timeout)) = Tail(timeout)
    BY <2>1
  <2>5. RemoveAt(timeout, 1) = Tail(timeout)
    BY <2>1, <2>4 DEF RemoveAt
  <2> QED BY <2>1, <2>2, <2>3, <2>5
<1> HIDE DEF n
<1>3. t \in Int
  BY <1>2, DelayAssumption DEF IInv, Typed
<1> HIDE DEF t
<1>4. Lists(chain, Tail(timeout), linked \ {n}) /\ n \in linked
  <2>1. Lists(chain, timeout, linked)
    BY DEF IInv
  <2>2. Lists(chain, RemoveAt(timeout, 1), linked \ {timeout[1]})
    BY <1>2, <2>1, CalledLists
  <2>3. timeout[1] \in linked
    BY <1>2, <2>1, CalledLists
  <2> QED BY <1>2, <2>2, <2>3
<1>5. CASE Period[n] = 0
  BY <1>1, <1>4, <1>5 DEF IInv, Typed, IsHead
<1>6. CASE Period[n] # 0
  <2>1. IsRegistered(r, n)
    BY <1>2, <1>3, RegisterKeepsTime DEF IInv
  <2> HIDE DEF r
  <2>2. /\ head' = r.head /\ chain' = r.chain /\ interval' = r.interval
        /\ longcounter' = r.longcounter /\ timeout' = Tail(r.timeout)
        /\ left' = r.head.interval
    <3>1. /\ head' = c.head /\ chain' = c.chain /\ interval' = c.interval
          /\ longcounter' = c.longcounter /\ timeout' = c.timeout /\ left' = c.head.interval
      BY <1>1, <1>6 DEF SetChain
    <3>2. /\ c.head = r.head /\ c.chain = r.chain /\ c.interval = r.interval
          /\ c.longcounter = r.longcounter /\ c.timeout = Tail(r.timeout)
      OBVIOUS
    <3> QED BY <3>1, <3>2
  <2>3. \/ chain' = chain /\ timeout' = Append(Tail(timeout), n)
        \/ /\ timeout' = Tail(timeout)
           /\ \E k \in 0 .. Len(chain) - 1 : chain' = InsertAt(chain, k + 1, n)
    <3>1. Tail(Append(timeout, n)) = Append(Tail(timeout), n)
      BY <1>2
    <3> QED BY <2>1, <2>2, <3>1 DEF IsRegistered
  <2>4. Lists(chain', timeout', (linked \ {n}) \cup {n})
    BY <1>2, <1>4, <2>3, RegisteredLists
  <2>5. (linked \ {n}) \cup {n} = linked'
    BY <1>1, <1>4, <1>6
  <2>6. Typed'
    <3>1. time' \in [Node \cup {last} -> Int]
      BY <1>1, <1>3, <1>6 DEF IInv, Typed
    <3>2. IsHead(head') /\ left' \in Words
      BY <2>1, <2>2 DEF IsRegistered, IsHead
    <3> QED BY <1>1, <2>1, <2>2, <3>1, <3>2 DEF IsRegistered, IInv, Typed
  <2> QED BY <1>1, <2>4, <2>5, <2>6 DEF IInv
<1> QED BY <1>5, <1>6

LEMMA WaitKeepsIInv ==
  ASSUME IInv, Wait
  PROVE  IInv'
<1> DEFINE d     == time[First] - head.time
           ticks == IF head.interval >= 0 THEN head.interval ELSE d
<1>1. /\ IF 0 <= ticks /\ ticks < Word
         THEN /\ longcounter' = ticks
              /\ head' = [time |-> time[First], interval |-> 0]
         ELSE /\ longcounter' = Longest
              /\ head' = [time |-> head.time + Longest,
                          interval |-> IF d - Longest \in 1 .. Half - 1 THEN d - Longest ELSE Invalid]
      /\ status' = 0 /\ pc' = "idle"
      /\ UNCHANGED <<chain, timeout, time, interval, linked, left, late, now>>
  BY DEF Wait
<1>2. time[First] \in Int /\ head.time \in Int /\ head.interval \in Words
  BY FirstIsThere DEF IInv, Typed, IsHead
<1>3. d \in Int /\ ticks \in Int
  BY <1>2, WordFacts DEF Words
<1> HIDE DEF d, ticks
<1>4. longcounter' \in 0 .. Longest
  BY <1>1, <1>3, WordFacts
<1>5. IsHead(head')
  <2>1. CASE 0 <= ticks /\ ticks < Word
    BY <1>1, <1>2, <2>1, WordFacts DEF IsHead, Words
  <2>2. CASE ~(0 <= ticks /\ ticks < Word)
    <3> DEFINE i == IF d - Longest \in 1 .. Half - 1 THEN d - Longest ELSE Invalid
    <3>1. i \in Words
      BY <1>3, WordFacts, InvalidIsWord DEF Words
    <3> HIDE DEF i
    <3>2. head' = [time |-> head.time + Longest, interval |-> i]
      BY <1>1, <2>2 DEF i
    <3> QED BY <1>2, <3>1, <3>2, WordFacts DEF IsHead
  <2> QED BY <2>1, <2>2
<1>6. Typed'
  BY <1>1, <1>4, <1>5 DEF IInv, Typed
<1> QED BY <1>1, <1>6 DEF IInv

LEMMA NextKeepsIInv == IInv /\ [Next]_vars => IInv'
<1> SUFFICES ASSUME IInv, [Next]_vars PROVE IInv'
  OBVIOUS
<1>1. CASE \E n \in Node : SetNowTimeNode(n) \/ AddTimeNode(n)
  BY <1>1, ClientsKeepIInv
<1>2. CASE \E n \in Node : SetTimer(n)
  BY <1>2, SetTimerKeepsIInv
<1>3. CASE \E n \in Node : CancelTimer(n)
  BY <1>3, CancelTimerKeepsIInv
<1>4. CASE Tick
  BY <1>4, TickKeepsIInv
<1>5. CASE TimesOut
  BY <1>5, TimesOutKeepsIInv
<1>6. CASE FindInterval
  BY <1>6, FindIntervalKeepsIInv
<1>7. CASE Call
  BY <1>7, CallKeepsIInv
<1>8. CASE Wait
  BY <1>8, WaitKeepsIInv
<1>9. CASE UNCHANGED vars
  BY <1>9 DEF IInv, Typed, Lists, vars, chainVars
<1> QED BY <1>1, <1>2, <1>3, <1>4, <1>5, <1>6, <1>7, <1>8, <1>9 DEF Next

THEOREM TimerInvariance == Spec => []IInv
BY InitIInv, NextKeepsIInv, PTL DEF Spec

-----------------------------------------------------------------------------
(* The state of the driver has the right shape: words are words, and both  *)
(* chains are chains of nodes.                                             *)
LEMMA IInvIsTyped == IInv => TypeOK
<1> SUFFICES ASSUME IInv PROVE TypeOK
  OBVIOUS
<1>1. head.time \in Int /\ head.interval \in Words
  BY DEF IInv, Typed, IsHead
<1>2. Fits(head.interval)
  BY <1>1, WordFacts DEF Fits, Words
<1>3. chain \in Seq(Node \cup {last}) /\ timeout \in Seq(Node) /\ In(chain, last)
  BY DEF IInv, Lists, In
<1>4. last \in Range(chain) /\ Range(chain) \subseteq Node \cup {last} /\ Range(timeout) \subseteq Node
  BY <1>3, RangeIsIn DEF Range
<1> QED BY <1>1, <1>2, <1>4 DEF TypeOK, IInv, Typed, Lists

THEOREM TimerTypeCorrect == Spec => []TypeOK
BY TimerInvariance, IInvIsTyped, PTL

-----------------------------------------------------------------------------
(* Whatever the clients do, in whatever order: a linked timer is in one of *)
(* the two chains, once, and no other is in any.                           *)
LEMMA CountInList ==
  ASSUME NEW S, NEW s \in Seq(S), Distinct(s), NEW n
  PROVE  Cardinality({i \in DOMAIN s : s[i] = n}) = IF In(s, n) THEN 1 ELSE 0
<1> DEFINE T == {i \in DOMAIN s : s[i] = n}
<1>1. CASE In(s, n)
  <2>1. PICK i \in 1 .. Len(s) : s[i] = n
    BY <1>1 DEF In
  <2>2. T = {i}
    BY <2>1 DEF Distinct
  <2> QED BY <1>1, <2>2, FS_Singleton
<1>2. CASE ~In(s, n)
  <2>1. T = {}
    BY <1>2 DEF In
  <2> QED BY <1>2, <2>1, FS_EmptySet
<1> QED BY <1>1, <1>2

LEMMA IInvIsOnce == IInv => EachOnce
<1> SUFFICES ASSUME IInv, NEW n \in Node
             PROVE  Cardinality({i \in DOMAIN chain : chain[i] = n})
                      + Cardinality({i \in DOMAIN timeout : timeout[i] = n})
                    = IF n \in linked THEN 1 ELSE 0
  BY DEF EachOnce
<1>1. /\ chain \in Seq(Node \cup {last}) /\ Distinct(chain)
      /\ timeout \in Seq(Node) /\ Distinct(timeout)
      /\ n \in linked <=> In(chain, n) \/ In(timeout, n)
      /\ ~(In(chain, n) /\ In(timeout, n))
  BY DEF IInv, Lists
<1>2. Cardinality({i \in DOMAIN chain : chain[i] = n}) = IF In(chain, n) THEN 1 ELSE 0
  BY <1>1, CountInList
<1>3. Cardinality({i \in DOMAIN timeout : timeout[i] = n}) = IF In(timeout, n) THEN 1 ELSE 0
  BY <1>1, CountInList
<1> QED BY <1>1, <1>2, <1>3

THEOREM TimerEachOnce == Spec => []EachOnce
BY TimerInvariance, IInvIsOnce, PTL

-----------------------------------------------------------------------------
(* A call of a client never changes the time that GetNowTime tells,        *)
(* although it may make the clock count less.                              *)
Calls == \E n \in Node : SetNowTimeNode(n) \/ AddTimeNode(n) \/ SetTimer(n) \/ CancelTimer(n)

THEOREM CallsKeepTime == Spec => [][Calls => NowTime' = NowTime]_vars
<1>1. ASSUME IInv, Calls
      PROVE  NowTime' = NowTime
  <2>1. PICK n \in Node : SetNowTimeNode(n) \/ AddTimeNode(n) \/ SetTimer(n) \/ CancelTimer(n)
    BY <1>1 DEF Calls
  <2>2. CASE SetNowTimeNode(n) \/ AddTimeNode(n)
    BY <2>2 DEF SetNowTimeNode, AddTimeNode, NowTime
  <2>3. CASE SetTimer(n)
    <3> DEFINE r == Register(n, time[n], status)
    <3>1. IsRegistered(r, n)
      BY <1>1, RegisterKeepsTime DEF IInv, Typed
    <3> HIDE DEF r
    <3>2. head' = r.head /\ longcounter' = r.longcounter
      BY <2>3 DEF SetTimer, SetChain, r
    <3> QED BY <3>1, <3>2 DEF IsRegistered, Told, NowTime
  <2>4. CASE CancelTimer(n)
    <3>1. head'.time = head.time /\ longcounter' = longcounter
      BY <1>1, <2>4 DEF CancelTimer, IInv, Typed, IsHead
    <3> QED BY <3>1 DEF NowTime
  <2> QED BY <2>1, <2>2, <2>3, <2>4
<1>2. IInv /\ [Next]_vars => [Calls => NowTime' = NowTime]_vars
  BY <1>1
<1> QED BY <1>2, TimerInvariance, PTL DEF Spec
=============================================================================
