------------------------- MODULE WindowFacts_proofs -------------------------
(***************************************************************************)
(* What the proofs about WindowSystem need to know of its data: what is in *)
(* a box, a job list or a ring of windows after something was put into it  *)
(* or taken from it, and what the drawing of windows (RedrawFrom) does to  *)
(* the answers that are owed.                                              *)
(***************************************************************************)
EXTENDS WindowSystem, FiniteSetTheorems, NaturalsInduction, SequenceTheorems, TLAPS

(* A member of M is in s; at most one is; those of M come after those of N; *)
(* one of M is the last.                                                    *)
Has(s, M) == \E i \in 1 .. Len(s) : s[i] \in M
OneOf(s, M) == \A i, j \in 1 .. Len(s) : s[i] \in M /\ s[j] \in M => i = j
After(s, M, N) == \A i, j \in 1 .. Len(s) : s[i] \in M /\ s[j] \in N => j < i
LastIn(s, M) == \A i \in 1 .. Len(s) : s[i] \in M => i = Len(s)

LEMMA HasNone ==
  ASSUME NEW M, NEW N
  PROVE  ~ Has(<<>>, M) /\ OneOf(<<>>, M) /\ After(<<>>, M, N) /\ LastIn(<<>>, M)
BY DEF Has, OneOf, After, LastIn

LEMMA HasAppend ==
  ASSUME NEW S, NEW s \in Seq(S), NEW e \in S, NEW M
  PROVE  /\ Has(Append(s, e), M) <=> Has(s, M) \/ e \in M
         /\ OneOf(Append(s, e), M) <=> OneOf(s, M) /\ ~ (e \in M /\ Has(s, M))
<1>1. /\ Len(s) \in Nat /\ Len(Append(s, e)) = Len(s) + 1
      /\ Append(s, e)[Len(s) + 1] = e
      /\ \A i \in 1 .. Len(s) : Append(s, e)[i] = s[i]
  OBVIOUS
<1> DEFINE t == Append(s, e)
<1> HIDE DEF t
<1>2. 1 .. Len(t) = (1 .. Len(s)) \cup {Len(s) + 1}
  BY <1>1 DEF t
<1>3. t[Len(s) + 1] = e /\ \A i \in 1 .. Len(s) : t[i] = s[i] /\ i # Len(s) + 1
  BY <1>1 DEF t
<1>4. Has(t, M) <=> Has(s, M) \/ e \in M
  BY <1>2, <1>3 DEF Has
<1>5. OneOf(t, M) <=> OneOf(s, M) /\ ~ (e \in M /\ Has(s, M))
  BY <1>2, <1>3 DEF Has, OneOf
<1> QED BY <1>4, <1>5 DEF t

LEMMA HasTail ==
  ASSUME NEW S, NEW s \in Seq(S), s # <<>>, NEW M
  PROVE  /\ Has(s, M) <=> Has(Tail(s), M) \/ Head(s) \in M
         /\ OneOf(s, M) <=> OneOf(Tail(s), M) /\ ~ (Head(s) \in M /\ Has(Tail(s), M))
<1> DEFINE t == Tail(s)
<1>1. /\ Len(s) \in Nat /\ Len(s) > 0 /\ Len(t) = Len(s) - 1 /\ Head(s) = s[1]
      /\ \A i \in 1 .. Len(t) : t[i] = s[i + 1]
  OBVIOUS
<1> HIDE DEF t
<1>2. /\ \A i \in 1 .. Len(t) : t[i] = s[i + 1] /\ i + 1 \in 1 .. Len(s) /\ i + 1 # 1
      /\ \A i \in 1 .. Len(s) : i # 1 => i - 1 \in 1 .. Len(t) /\ t[i - 1] = s[i]
      /\ 1 \in 1 .. Len(s)
  BY <1>1
<1>3. Has(s, M) <=> Has(t, M) \/ Head(s) \in M
  BY <1>1, <1>2 DEF Has
<1>4. ASSUME OneOf(s, M) PROVE OneOf(t, M) /\ ~ (Head(s) \in M /\ Has(t, M))
  BY <1>1, <1>2, <1>4 DEF Has, OneOf
<1>5. ASSUME OneOf(t, M), ~ (Head(s) \in M /\ Has(t, M)) PROVE OneOf(s, M)
  <2> SUFFICES ASSUME NEW i \in 1 .. Len(s), NEW j \in 1 .. Len(s), s[i] \in M, s[j] \in M
               PROVE  i = j
    BY DEF OneOf
  <2>1. CASE i = 1 /\ j = 1
    BY <2>1
  <2>2. CASE i # 1 /\ j # 1
    <3>1. i - 1 = j - 1
      BY <1>2, <1>5, <2>2 DEF OneOf
    <3> QED BY <3>1
  <2>3. CASE ~(i = 1 <=> j = 1)
    BY <1>1, <1>2, <1>5, <2>3 DEF Has
  <2> QED BY <2>1, <2>2, <2>3
<1> QED BY <1>3, <1>4, <1>5 DEF t

LEMMA HasConcat ==
  ASSUME NEW S, NEW s \in Seq(S), NEW r \in Seq(S), NEW M
  PROVE  /\ Has(s \o r, M) <=> Has(s, M) \/ Has(r, M)
         /\ OneOf(s \o r, M) <=> OneOf(s, M) /\ OneOf(r, M) /\ ~ (Has(s, M) /\ Has(r, M))
<1> DEFINE t == s \o r
<1>1. /\ Len(s) \in Nat /\ Len(r) \in Nat /\ Len(t) = Len(s) + Len(r)
      /\ \A i \in 1 .. Len(s) : t[i] = s[i]
      /\ \A i \in 1 .. Len(r) : t[i + Len(s)] = r[i]
  OBVIOUS
<1> HIDE DEF t
<1>2. /\ \A i \in 1 .. Len(s) : t[i] = s[i] /\ i \in 1 .. Len(t)
      /\ \A i \in 1 .. Len(r) : t[i + Len(s)] = r[i] /\ i + Len(s) \in 1 .. Len(t)
                                  /\ i + Len(s) \notin 1 .. Len(s)
      /\ \A i \in 1 .. Len(t) : i \notin 1 .. Len(s) => i - Len(s) \in 1 .. Len(r)
                                  /\ t[i] = r[i - Len(s)]
  <2>1. \A i \in 1 .. Len(t) : i \notin 1 .. Len(s) => i - Len(s) \in 1 .. Len(r)
    BY <1>1
  <2>2. ASSUME NEW i \in 1 .. Len(t), i \notin 1 .. Len(s) PROVE t[i] = r[i - Len(s)]
    <3>1. i - Len(s) \in 1 .. Len(r) /\ (i - Len(s)) + Len(s) = i
      BY <1>1, <2>1, <2>2
    <3> QED BY <3>1, <1>1
  <2> QED BY <1>1, <2>1, <2>2
<1>3. Has(t, M) <=> Has(s, M) \/ Has(r, M)
  <2>1. ASSUME Has(t, M) PROVE Has(s, M) \/ Has(r, M)
    BY <1>2, <2>1 DEF Has
  <2>2. ASSUME Has(s, M) \/ Has(r, M) PROVE Has(t, M)
    BY <1>2, <2>2 DEF Has
  <2> QED BY <2>1, <2>2
<1>4. ASSUME OneOf(t, M) PROVE OneOf(s, M) /\ OneOf(r, M) /\ ~ (Has(s, M) /\ Has(r, M))
  <2>1. OneOf(s, M)
    BY <1>2, <1>4 DEF OneOf
  <2>2. ASSUME NEW i \in 1 .. Len(r), NEW j \in 1 .. Len(r), r[i] \in M, r[j] \in M PROVE i = j
    <3>1. i + Len(s) = j + Len(s)
      BY <1>2, <1>4, <2>2 DEF OneOf
    <3> QED BY <1>1, <3>1
  <2>3. ~ (Has(s, M) /\ Has(r, M))
    BY <1>2, <1>4 DEF Has, OneOf
  <2> QED BY <2>1, <2>2, <2>3 DEF OneOf
<1>5. ASSUME OneOf(s, M), OneOf(r, M), ~ (Has(s, M) /\ Has(r, M)) PROVE OneOf(t, M)
  <2> SUFFICES ASSUME NEW i \in 1 .. Len(t), NEW j \in 1 .. Len(t), t[i] \in M, t[j] \in M
               PROVE  i = j
    BY DEF OneOf
  <2>1. CASE i \in 1 .. Len(s) /\ j \in 1 .. Len(s)
    BY <1>2, <1>5, <2>1 DEF OneOf
  <2>2. CASE i \notin 1 .. Len(s) /\ j \notin 1 .. Len(s)
    <3>1. i - Len(s) = j - Len(s)
      BY <1>2, <1>5, <2>2 DEF OneOf
    <3> QED BY <1>1, <3>1
  <2>3. CASE ~ (i \in 1 .. Len(s) <=> j \in 1 .. Len(s))
    BY <1>2, <1>5, <2>3 DEF Has
  <2> QED BY <2>1, <2>2, <2>3
<1> QED BY <1>3, <1>4, <1>5 DEF t

LEMMA AfterAppend ==
  ASSUME NEW S, NEW s \in Seq(S), NEW e \in S, NEW M, NEW N
  PROVE  After(Append(s, e), M, N) <=> After(s, M, N) /\ ~ (e \in N /\ (e \in M \/ Has(s, M)))
<1>1. /\ Len(s) \in Nat /\ Len(Append(s, e)) = Len(s) + 1
      /\ Append(s, e)[Len(s) + 1] = e
      /\ \A i \in 1 .. Len(s) : Append(s, e)[i] = s[i]
  OBVIOUS
<1> DEFINE t == Append(s, e)
<1> HIDE DEF t
<1>2. 1 .. Len(t) = (1 .. Len(s)) \cup {Len(s) + 1}
  BY <1>1 DEF t
<1>3. t[Len(s) + 1] = e /\ \A i \in 1 .. Len(s) : t[i] = s[i] /\ i < Len(s) + 1
  BY <1>1 DEF t
<1>4. ASSUME After(t, M, N) PROVE After(s, M, N) /\ ~ (e \in N /\ (e \in M \/ Has(s, M)))
  <2>1. After(s, M, N)
    BY <1>2, <1>3, <1>4 DEF After
  <2>2. ASSUME e \in N, e \in M PROVE FALSE
    BY <1>1, <1>2, <1>3, <1>4, <2>2 DEF After
  <2>3. ASSUME e \in N, Has(s, M) PROVE FALSE
    <3>1. PICK i \in 1 .. Len(s) : s[i] \in M
      BY <2>3 DEF Has
    <3>2. Len(s) + 1 < i
      BY <1>2, <1>3, <1>4, <2>3, <3>1 DEF After
    <3> QED BY <1>1, <3>2
  <2> QED BY <2>1, <2>2, <2>3
<1>5. ASSUME After(s, M, N), ~ (e \in N /\ (e \in M \/ Has(s, M))) PROVE After(t, M, N)
  <2> SUFFICES ASSUME NEW i \in 1 .. Len(t), NEW j \in 1 .. Len(t), t[i] \in M, t[j] \in N
               PROVE  j < i
    BY DEF After
  <2>1. CASE i \in 1 .. Len(s) /\ j \in 1 .. Len(s)
    BY <1>3, <1>5, <2>1 DEF After
  <2>2. CASE i = Len(s) + 1 /\ j \in 1 .. Len(s)
    BY <1>3, <2>2
  <2>3. CASE j = Len(s) + 1
    BY <1>2, <1>3, <1>5, <2>3 DEF Has
  <2> QED BY <1>2, <2>1, <2>2, <2>3
<1> QED BY <1>4, <1>5 DEF t

LEMMA AfterTail ==
  ASSUME NEW S, NEW s \in Seq(S), s # <<>>, NEW M, NEW N, After(s, M, N)
  PROVE  After(Tail(s), M, N) /\ (Head(s) \in M => ~ Has(s, N))
<1> DEFINE t == Tail(s)
<1>1. /\ Len(s) \in Nat /\ Len(s) > 0 /\ Len(t) = Len(s) - 1 /\ Head(s) = s[1]
      /\ \A i \in 1 .. Len(t) : t[i] = s[i + 1]
  OBVIOUS
<1> HIDE DEF t
<1>2. After(t, M, N)
  <2> SUFFICES ASSUME NEW i \in 1 .. Len(t), NEW j \in 1 .. Len(t), t[i] \in M, t[j] \in N
               PROVE  j < i
    BY DEF After
  <2>1. i + 1 \in 1 .. Len(s) /\ j + 1 \in 1 .. Len(s) /\ t[i] = s[i + 1] /\ t[j] = s[j + 1]
    BY <1>1
  <2>2. j + 1 < i + 1
    BY <2>1 DEF After
  <2> QED BY <2>2
<1>3. ASSUME Head(s) \in M, Has(s, N) PROVE FALSE
  <2>1. PICK j \in 1 .. Len(s) : s[j] \in N
    BY <1>3 DEF Has
  <2>2. j < 1
    BY <1>1, <1>3, <2>1 DEF After
  <2> QED BY <2>2
<1> QED BY <1>2, <1>3 DEF t

LEMMA LastAppend ==
  ASSUME NEW S, NEW s \in Seq(S), NEW e \in S, NEW M
  PROVE  LastIn(Append(s, e), M) <=> ~ Has(s, M)
<1>1. /\ Len(s) \in Nat /\ Len(Append(s, e)) = Len(s) + 1
      /\ \A i \in 1 .. Len(s) : Append(s, e)[i] = s[i]
  OBVIOUS
<1> QED BY <1>1 DEF LastIn, Has

LEMMA LastTail ==
  ASSUME NEW S, NEW s \in Seq(S), s # <<>>, NEW M, LastIn(s, M)
  PROVE  LastIn(Tail(s), M) /\ (Head(s) \in M => Tail(s) = <<>>)
<1> DEFINE t == Tail(s)
<1>1. /\ Len(s) \in Nat /\ Len(s) > 0 /\ Len(t) = Len(s) - 1 /\ Head(s) = s[1]
      /\ \A i \in 1 .. Len(t) : t[i] = s[i + 1]
      /\ t \in Seq(S)
  OBVIOUS
<1> HIDE DEF t
<1>2. ASSUME NEW i \in 1 .. Len(t), t[i] \in M PROVE i = Len(t)
  <2>1. i + 1 \in 1 .. Len(s) /\ s[i + 1] \in M
    BY <1>1, <1>2
  <2>2. i + 1 = Len(s)
    BY <2>1 DEF LastIn
  <2> QED BY <1>1, <1>2, <2>2
<1>3. ASSUME Head(s) \in M PROVE t = <<>>
  <2>1. 1 \in 1 .. Len(s)
    BY <1>1
  <2>2. Len(s) = 1
    BY <1>1, <1>3, <2>1 DEF LastIn
  <2> QED BY <1>1, <2>2
<1> QED BY <1>2, <1>3 DEF LastIn, t

(* None of M among s, so none is anywhere but at the end. *)
LEMMA LastNone ==
  ASSUME NEW s, NEW M, ~ Has(s, M)
  PROVE  LastIn(s, M)
BY DEF Has, LastIn

(* What counting shows. *)
LEMMA Counted ==
  ASSUME NEW S, NEW s \in Seq(S), NEW M
  PROVE  LET n == Cardinality({ i \in 1 .. Len(s) : s[i] \in M }) IN
         n \in Nat /\ (n = 0 <=> ~ Has(s, M)) /\ (n <= 1 <=> OneOf(s, M))
<1> DEFINE T == { i \in 1 .. Len(s) : s[i] \in M }
<1>1. IsFiniteSet(T)
  BY FS_Interval, FS_Subset
<1>2. Cardinality(T) \in Nat /\ (Cardinality(T) = 0 <=> T = {}) /\ (Cardinality(T) = 1 <=> \E i : T = {i})
  BY <1>1, FS_CardinalityType, FS_EmptySet, FS_Singleton
<1>3. T = {} <=> ~ Has(s, M)
  BY DEF Has
<1>4. T = {} \/ (\E i : T = {i}) <=> OneOf(s, M)
  <2>1. ASSUME OneOf(s, M), NEW i \in T PROVE T = {i}
    BY <2>1 DEF OneOf
  <2>2. ASSUME NEW i, T = {i} PROVE OneOf(s, M)
    BY <2>2 DEF OneOf
  <2>3. T = {} => OneOf(s, M)
    BY DEF OneOf
  <2> QED BY <2>1, <2>2, <2>3
<1> HIDE DEF T
<1>5. Cardinality(T) <= 1 <=> T = {} \/ (\E i : T = {i})
  <2>1. Cardinality(T) <= 1 <=> Cardinality(T) = 0 \/ Cardinality(T) = 1
    BY <1>2
  <2> QED BY <1>2, <2>1
<1>6. Cardinality(T) \in Nat /\ (Cardinality(T) = 0 <=> ~ Has(s, M)) /\ (Cardinality(T) <= 1 <=> OneOf(s, M))
  BY <1>2, <1>3, <1>4, <1>5
<1> QED BY <1>6 DEF T


-----------------------------------------------------------------------------
(* The rings of windows, and lists in which nothing is twice.              *)
LEMMA MembersOf ==
  ASSUME NEW S, NEW s \in Seq(S)
  PROVE  /\ ToSet(s) = { s[i] : i \in 1 .. Len(s) } /\ ToSet(s) \subseteq S
         /\ \A w : w \in ToSet(s) <=> Has(s, {w})
         /\ s = <<>> <=> ToSet(s) = {}
         /\ IsInjective(s) <=> \A i, j \in 1 .. Len(s) : s[i] = s[j] => i = j
<1>1. DOMAIN s = 1 .. Len(s) /\ Len(s) \in Nat /\ \A i \in 1 .. Len(s) : s[i] \in S
  OBVIOUS
<1>2. ToSet(s) = { s[i] : i \in 1 .. Len(s) }
  BY <1>1 DEF ToSet
<1>3. s # <<>> => 1 \in 1 .. Len(s)
  OBVIOUS
<1>4. IsInjective(s) <=> \A i, j \in 1 .. Len(s) : s[i] = s[j] => i = j
  BY <1>1 DEF IsInjective
<1>5. s = <<>> <=> ToSet(s) = {}
  BY <1>2, <1>3
<1>6. \A w : w \in ToSet(s) <=> Has(s, {w})
  BY <1>2 DEF Has
<1> QED BY <1>1, <1>2, <1>4, <1>5, <1>6

LEMMA PlaceOf ==
  ASSUME NEW S, NEW s \in Seq(S), NEW w \in ToSet(s)
  PROVE  At(s, w) \in 1 .. Len(s) /\ s[At(s, w)] = w
<1>1. \E i \in 1 .. Len(s) : s[i] = w
  BY MembersOf DEF Has
<1> QED BY <1>1 DEF At

LEMMA RingPush ==
  ASSUME NEW S, NEW s \in Seq(S), NEW w \in S
  PROVE  LET t == <<w>> \o s IN
         /\ t \in Seq(S) /\ t # <<>> /\ Head(t) = w
         /\ ToSet(t) = ToSet(s) \cup {w}
         /\ IsInjective(s) /\ w \notin ToSet(s) => IsInjective(t)
<1> DEFINE t == <<w>> \o s
<1>1. /\ t \in Seq(S) /\ Len(s) \in Nat /\ Len(t) = Len(s) + 1 /\ t[1] = w
      /\ \A i \in 2 .. Len(t) : t[i] = s[i - 1]
  OBVIOUS
<1>2. t # <<>> /\ Head(t) = w
  BY <1>1
<1> HIDE DEF t
<1>3. /\ 1 \in 1 .. Len(t)
      /\ \A i \in 1 .. Len(t) : i # 1 => i - 1 \in 1 .. Len(s) /\ t[i] = s[i - 1]
      /\ \A i \in 1 .. Len(s) : i + 1 \in 1 .. Len(t) /\ t[i + 1] = s[i]
  <2>1. ASSUME NEW i \in 1 .. Len(s) PROVE i + 1 \in 1 .. Len(t) /\ t[i + 1] = s[i]
    <3>1. i + 1 \in 2 .. Len(t) /\ (i + 1) - 1 = i
      BY <1>1
    <3> QED BY <1>1, <3>1
  <2> QED BY <1>1, <2>1
<1>4. ToSet(t) = { t[i] : i \in 1 .. Len(t) } /\ ToSet(s) = { s[i] : i \in 1 .. Len(s) }
  BY <1>1, MembersOf
<1>5. ToSet(t) = ToSet(s) \cup {w}
  <2>1. w \in ToSet(t)
    BY <1>1, <1>3, <1>4
  <2>2. ToSet(s) \subseteq ToSet(t)
    BY <1>3, <1>4
  <2>3. ASSUME NEW i \in 1 .. Len(t)
        PROVE  t[i] \in ToSet(s) \cup {w}
    <3>1. CASE i = 1
      BY <1>1, <3>1
    <3>2. CASE i # 1
      BY <1>3, <1>4, <3>2
    <3> QED BY <3>1, <3>2
  <2> QED BY <1>4, <2>1, <2>2, <2>3
<1>6. ASSUME IsInjective(s), w \notin ToSet(s) PROVE IsInjective(t)
  <2>1. \A i, j \in 1 .. Len(s) : s[i] = s[j] => i = j
    BY <1>6, MembersOf
  <2>2. ASSUME NEW i \in 1 .. Len(t), NEW j \in 1 .. Len(t), t[i] = t[j] PROVE i = j
    <3>1. CASE i # 1 /\ j # 1
      <4>1. i - 1 \in 1 .. Len(s) /\ j - 1 \in 1 .. Len(s) /\ s[i - 1] = s[j - 1]
        BY <1>3, <2>2, <3>1
      <4>2. i - 1 = j - 1
        BY <2>1, <4>1
      <4> QED BY <4>2
    <3>2. CASE ~ (i = 1 <=> j = 1)
      BY <1>1, <1>3, <1>4, <1>6, <2>2, <3>2
    <3> QED BY <3>1, <3>2
  <2> QED BY <1>1, <2>2, MembersOf
<1> QED BY <1>1, <1>2, <1>5, <1>6 DEF t

LEMMA RingAdd ==
  ASSUME NEW S, NEW s \in Seq(S), NEW w \in S
  PROVE  LET t == Append(s, w) IN
         /\ t \in Seq(S) /\ t # <<>> /\ (s # <<>> => Head(t) = Head(s))
         /\ ToSet(t) = ToSet(s) \cup {w}
         /\ IsInjective(s) /\ w \notin ToSet(s) => IsInjective(t)
<1> DEFINE t == Append(s, w)
<1>1. /\ t \in Seq(S) /\ Len(s) \in Nat /\ Len(t) = Len(s) + 1 /\ t[Len(s) + 1] = w
      /\ \A i \in 1 .. Len(s) : t[i] = s[i]
  OBVIOUS
<1>2. t # <<>> /\ (s # <<>> => Head(t) = Head(s))
  <2>1. t # <<>> /\ Head(t) = t[1] /\ Head(s) = s[1]
    OBVIOUS
  <2>2. s # <<>> => 1 \in 1 .. Len(s)
    OBVIOUS
  <2> QED BY <1>1, <2>1, <2>2
<1> HIDE DEF t
<1>3. /\ Len(s) + 1 \in 1 .. Len(t)
      /\ \A i \in 1 .. Len(t) : i # Len(s) + 1 => i \in 1 .. Len(s)
      /\ \A i \in 1 .. Len(s) : i \in 1 .. Len(t)
  BY <1>1
<1>4. ToSet(t) = { t[i] : i \in 1 .. Len(t) } /\ ToSet(s) = { s[i] : i \in 1 .. Len(s) }
  BY <1>1, MembersOf
<1>5. ToSet(t) = ToSet(s) \cup {w}
  BY <1>1, <1>3, <1>4
<1>6. ASSUME IsInjective(s), w \notin ToSet(s) PROVE IsInjective(t)
  <2>1. \A i, j \in 1 .. Len(s) : s[i] = s[j] => i = j
    BY <1>6, MembersOf
  <2>2. ASSUME NEW i \in 1 .. Len(t), NEW j \in 1 .. Len(t), t[i] = t[j] PROVE i = j
    BY <1>1, <1>3, <1>4, <1>6, <2>1, <2>2
  <2> QED BY <1>1, <2>2, MembersOf
<1> QED BY <1>1, <1>2, <1>5, <1>6 DEF t

LEMMA RingRest ==
  ASSUME NEW S, NEW s \in Seq(S), s # <<>>
  PROVE  /\ Tail(s) \in Seq(S) /\ Head(s) \in S /\ Head(s) \in ToSet(s)
         /\ ToSet(s) = ToSet(Tail(s)) \cup {Head(s)}
         /\ IsInjective(s) => IsInjective(Tail(s)) /\ Head(s) \notin ToSet(Tail(s))
<1> DEFINE t == Tail(s)
<1>1. /\ t \in Seq(S) /\ Len(s) \in Nat /\ Len(s) > 0 /\ Len(t) = Len(s) - 1 /\ Head(s) = s[1]
      /\ \A i \in 1 .. Len(t) : t[i] = s[i + 1]
  OBVIOUS
<1> HIDE DEF t
<1>2. /\ 1 \in 1 .. Len(s)
      /\ \A i \in 1 .. Len(s) : i # 1 => i - 1 \in 1 .. Len(t) /\ s[i] = t[i - 1]
      /\ \A i \in 1 .. Len(t) : i + 1 \in 1 .. Len(s) /\ i + 1 # 1 /\ t[i] = s[i + 1]
  <2>1. ASSUME NEW i \in 1 .. Len(s), i # 1 PROVE i - 1 \in 1 .. Len(t) /\ s[i] = t[i - 1]
    <3>1. i - 1 \in 1 .. Len(t) /\ (i - 1) + 1 = i
      BY <1>1, <2>1
    <3> QED BY <1>1, <3>1
  <2> QED BY <1>1, <2>1
<1>3. ToSet(t) = { t[i] : i \in 1 .. Len(t) } /\ ToSet(s) = { s[i] : i \in 1 .. Len(s) }
  BY <1>1, MembersOf
<1>4. ToSet(s) = ToSet(t) \cup {Head(s)}
  <2>1. Head(s) \in ToSet(s)
    BY <1>1, <1>2, <1>3
  <2>2. ToSet(t) \subseteq ToSet(s)
    BY <1>2, <1>3
  <2>3. ToSet(s) \subseteq ToSet(t) \cup {Head(s)}
    BY <1>1, <1>2, <1>3
  <2> QED BY <2>1, <2>2, <2>3
<1>5. ASSUME IsInjective(s) PROVE IsInjective(t) /\ Head(s) \notin ToSet(t)
  <2>1. \A i, j \in 1 .. Len(s) : s[i] = s[j] => i = j
    BY <1>5, MembersOf
  <2>2. ASSUME NEW i \in 1 .. Len(t), NEW j \in 1 .. Len(t), t[i] = t[j] PROVE i = j
    <3>1. i + 1 = j + 1
      BY <1>2, <2>1, <2>2
    <3> QED BY <3>1
  <2>3. Head(s) \notin ToSet(t)
    BY <1>1, <1>2, <1>3, <2>1
  <2> QED BY <1>1, <2>2, <2>3, MembersOf
<1> QED BY <1>1, <1>4, <1>5 DEF t

LEMMA RemoveAtPlace ==
  ASSUME NEW S, NEW s \in Seq(S), NEW k \in 1 .. Len(s)
  PROVE  LET r == RemoveAt(s, k) IN
         /\ r \in Seq(S)
         /\ Len(r) = Len(s) - 1
         /\ \A i \in 1 .. Len(s) - 1 : r[i] = IF i < k THEN s[i] ELSE s[i + 1]
<1> DEFINE a == SubSeq(s, 1, k - 1)
           b == SubSeq(s, k + 1, Len(s))
<1>1. /\ a \in Seq(S) /\ Len(a) = k - 1
      /\ \A i \in 1 .. k - 1 : a[i] = s[i]
  BY SubSeqProperties
<1>2. /\ b \in Seq(S) /\ Len(b) = Len(s) - k
      /\ \A i \in 1 .. Len(s) - k : b[i] = s[k + i]
  BY SubSeqProperties
<1>3. RemoveAt(s, k) = a \o b
  BY DEF RemoveAt
<1> DEFINE r == a \o b
<1> HIDE DEF a, b
<1>4. /\ r \in Seq(S) /\ Len(r) = Len(s) - 1
      /\ \A i \in 1 .. Len(s) - 1 : r[i] = IF i <= k - 1 THEN a[i] ELSE b[i - (k - 1)]
  BY <1>1, <1>2, ConcatProperties
<1> HIDE DEF r
<1>5. ASSUME NEW i \in 1 .. Len(s) - 1
      PROVE  r[i] = IF i < k THEN s[i] ELSE s[i + 1]
  <2>1. CASE i < k
    <3>1. i <= k - 1 /\ i \in 1 .. k - 1
      BY <2>1
    <3> QED BY <1>1, <1>4, <2>1, <3>1
  <2>2. CASE i >= k
    <3>1. i - (k - 1) \in 1 .. Len(s) - k /\ k + (i - (k - 1)) = i + 1 /\ ~(i <= k - 1)
      BY <2>2
    <3>2. r[i] = b[i - (k - 1)]
      BY <1>4, <3>1
    <3> QED BY <1>2, <2>2, <3>1, <3>2
  <2> QED BY <2>1, <2>2
<1>6. RemoveAt(s, k) = r
  BY <1>3 DEF r
<1> QED BY <1>4, <1>5, <1>6

LEMMA RingWithout ==
  ASSUME NEW S, NEW s \in Seq(S), IsInjective(s), NEW w \in ToSet(s)
  PROVE  LET t == RemoveAt(s, At(s, w)) IN
         /\ t \in Seq(S) /\ IsInjective(t)
         /\ ToSet(t) = ToSet(s) \ {w}
         /\ Head(s) # w => t # <<>> /\ Head(t) = Head(s)
<1> DEFINE k == At(s, w)
           t == RemoveAt(s, k)
<1>1. k \in 1 .. Len(s) /\ s[k] = w
  BY PlaceOf
<1> HIDE DEF k
<1>2. /\ t \in Seq(S) /\ Len(s) \in Nat /\ Len(t) = Len(s) - 1
      /\ \A i \in 1 .. Len(s) - 1 : t[i] = IF i < k THEN s[i] ELSE s[i + 1]
  BY <1>1, RemoveAtPlace
<1> HIDE DEF t
<1>3. \A i, j \in 1 .. Len(s) : s[i] = s[j] => i = j
  BY MembersOf
<1>4. ToSet(t) = { t[i] : i \in 1 .. Len(t) } /\ ToSet(s) = { s[i] : i \in 1 .. Len(s) }
  BY <1>2, MembersOf
<1>5. \A i \in 1 .. Len(t) : t[i] # w /\ t[i] \in ToSet(s)
  BY <1>1, <1>2, <1>3, <1>4
<1>6. ASSUME NEW i \in 1 .. Len(s), i # k PROVE s[i] \in ToSet(t)
  <2>1. CASE i < k
    BY <1>1, <1>2, <1>4, <2>1
  <2>2. CASE i > k
    <3>1. i - 1 \in 1 .. Len(t) /\ ~ (i - 1 < k) /\ (i - 1) + 1 = i
      BY <1>1, <1>2, <2>2
    <3> QED BY <1>2, <1>4, <3>1
  <2> QED BY <1>1, <1>6, <2>1, <2>2
<1>7. ToSet(t) = ToSet(s) \ {w}
  BY <1>1, <1>4, <1>5, <1>6
<1>8. ASSUME NEW i \in 1 .. Len(t), NEW j \in 1 .. Len(t), t[i] = t[j] PROVE i = j
  <2> DEFINE o(m) == IF m < k THEN m ELSE m + 1
  <2>1. ASSUME NEW m \in 1 .. Len(t) PROVE o(m) \in 1 .. Len(s) /\ t[m] = s[o(m)]
    <3>1. m \in 1 .. Len(s) - 1
      BY <1>2
    <3>2. t[m] = s[o(m)]
      BY <1>2, <3>1
    <3> QED BY <1>1, <1>2, <3>1, <3>2
  <2>2. o(i) = o(j)
    <3> HIDE DEF o
    <3> QED BY <1>3, <1>8, <2>1
  <2> QED BY <1>1, <1>2, <2>2
<1>9. ASSUME Head(s) # w PROVE t # <<>> /\ Head(t) = Head(s)
  <2>1. k # 1 /\ Head(s) = s[1]
    BY <1>1, <1>9
  <2>2. Len(t) > 0 /\ t[1] = s[1]
    BY <1>1, <1>2, <2>1
  <2> QED BY <1>2, <2>1, <2>2
<1>10. IsInjective(t)
  BY <1>2, <1>8, MembersOf
<1> QED BY <1>2, <1>7, <1>9, <1>10 DEF t, k

LEMMA RingsApart ==
  ASSUME NEW S, NEW s \in Seq(S), NEW r \in Seq(S)
  PROVE  IsInjective(s \o r) <=>
           IsInjective(s) /\ IsInjective(r) /\ ToSet(s) \cap ToSet(r) = {}
<1> DEFINE t == s \o r
<1>1. /\ t \in Seq(S) /\ Len(s) \in Nat /\ Len(r) \in Nat /\ Len(t) = Len(s) + Len(r)
      /\ \A i \in 1 .. Len(s) : t[i] = s[i]
      /\ \A i \in 1 .. Len(r) : t[i + Len(s)] = r[i]
  OBVIOUS
<1> HIDE DEF t
<1>2. /\ \A i \in 1 .. Len(s) : t[i] = s[i] /\ i \in 1 .. Len(t)
      /\ \A i \in 1 .. Len(r) : t[i + Len(s)] = r[i] /\ i + Len(s) \in 1 .. Len(t)
                                  /\ i + Len(s) \notin 1 .. Len(s)
      /\ \A i \in 1 .. Len(t) : i \notin 1 .. Len(s) => i - Len(s) \in 1 .. Len(r)
                                  /\ t[i] = r[i - Len(s)]
  <2>1. \A i \in 1 .. Len(t) : i \notin 1 .. Len(s) => i - Len(s) \in 1 .. Len(r)
    BY <1>1
  <2>2. ASSUME NEW i \in 1 .. Len(t), i \notin 1 .. Len(s) PROVE t[i] = r[i - Len(s)]
    <3>1. i - Len(s) \in 1 .. Len(r) /\ (i - Len(s)) + Len(s) = i
      BY <1>1, <2>1, <2>2
    <3> QED BY <3>1, <1>1
  <2> QED BY <1>1, <2>1, <2>2
<1>3. /\ ToSet(s) = { s[i] : i \in 1 .. Len(s) } /\ ToSet(r) = { r[i] : i \in 1 .. Len(r) }
      /\ IsInjective(s) <=> \A i, j \in 1 .. Len(s) : s[i] = s[j] => i = j
      /\ IsInjective(r) <=> \A i, j \in 1 .. Len(r) : r[i] = r[j] => i = j
      /\ IsInjective(t) <=> \A i, j \in 1 .. Len(t) : t[i] = t[j] => i = j
  BY <1>1, MembersOf
<1>4. ASSUME IsInjective(t)
      PROVE  IsInjective(s) /\ IsInjective(r) /\ ToSet(s) \cap ToSet(r) = {}
  <2>1. IsInjective(s)
    BY <1>2, <1>3, <1>4
  <2>2. ASSUME NEW i \in 1 .. Len(r), NEW j \in 1 .. Len(r), r[i] = r[j] PROVE i = j
    <3>1. /\ i + Len(s) \in 1 .. Len(t) /\ j + Len(s) \in 1 .. Len(t)
          /\ t[i + Len(s)] = t[j + Len(s)]
      BY <1>2, <2>2
    <3>2. i + Len(s) = j + Len(s)
      BY <1>3, <1>4, <3>1
    <3> QED BY <1>1, <3>2
  <2>3. ASSUME NEW i \in 1 .. Len(s), NEW j \in 1 .. Len(r), s[i] = r[j] PROVE FALSE
    <3>1. i = j + Len(s)
      BY <1>2, <1>3, <1>4, <2>3
    <3> QED BY <1>2, <3>1
  <2> QED BY <1>3, <2>1, <2>2, <2>3
<1>5. ASSUME IsInjective(s), IsInjective(r), ToSet(s) \cap ToSet(r) = {} PROVE IsInjective(t)
  <2>1. ASSUME NEW i \in 1 .. Len(t), NEW j \in 1 .. Len(t), t[i] = t[j] PROVE i = j
    <3>1. CASE i \in 1 .. Len(s) /\ j \in 1 .. Len(s)
      BY <1>2, <1>3, <1>5, <2>1, <3>1
    <3>2. CASE i \notin 1 .. Len(s) /\ j \notin 1 .. Len(s)
      <4>1. /\ i - Len(s) \in 1 .. Len(r) /\ j - Len(s) \in 1 .. Len(r)
            /\ r[i - Len(s)] = r[j - Len(s)]
        BY <1>2, <2>1, <3>2
      <4>2. i - Len(s) = j - Len(s)
        BY <1>3, <1>5, <4>1
      <4> QED BY <1>1, <4>2
    <3>3. CASE i \in 1 .. Len(s) /\ j \notin 1 .. Len(s)
      <4>1. t[i] \in ToSet(s) /\ t[j] \in ToSet(r)
        <5>1. j - Len(s) \in 1 .. Len(r) /\ t[j] = r[j - Len(s)] /\ t[i] = s[i]
          BY <1>2, <3>3
        <5> QED BY <1>3, <3>3, <5>1
      <4> QED BY <1>5, <2>1, <4>1
    <3>4. CASE j \in 1 .. Len(s) /\ i \notin 1 .. Len(s)
      <4>1. t[j] \in ToSet(s) /\ t[i] \in ToSet(r)
        <5>1. i - Len(s) \in 1 .. Len(r) /\ t[i] = r[i - Len(s)] /\ t[j] = s[j]
          BY <1>2, <3>4
        <5> QED BY <1>3, <3>4, <5>1
      <4> QED BY <1>5, <2>1, <4>1
    <3> QED BY <3>1, <3>2, <3>3, <3>4
  <2> QED BY <1>3, <2>1
<1> QED BY <1>4, <1>5 DEF t

-----------------------------------------------------------------------------
(* The signal box of winman0.                                              *)
Messages == Requests \cup Keys
Msg(sig, w) == [sig |-> sig, win |-> w]
Waiting(b, sig, w) == Has(b, {Msg(sig, w)})

OpenMessages == [sig : {"open"}, win : Win]
PlainMessages == [sig : {"open", "close"}, win : Win]
KeyMessages == [sig : FunctionKeys, win : {None}]

(* One request to open at a time, one to close each window, which comes    *)
(* after the one to open it; one key, and no request before a key that is  *)
(* about the top.                                                          *)
BoxOK(b) ==
  /\ OneOf(b, OpenMessages) /\ OneOf(b, Keys) /\ After(b, PlainMessages, KeyMessages)
  /\ \A w \in Win : OneOf(b, {Msg("close", w)}) /\ After(b, {Msg("close", w)}, {Msg("open", w)})

LEMMA MessageIs ==
  /\ \A e \in Messages : e = Msg(e.sig, e.win)
  /\ \A s1, w1, s2, w2 : Msg(s1, w1) = Msg(s2, w2) <=> s1 = s2 /\ w1 = w2
  /\ \A s1, w1 : Msg(s1, w1).sig = s1 /\ Msg(s1, w1).win = w1
  /\ \A e \in Messages :
       /\ e \in Keys <=> e.win = None
       /\ e \in OpenMessages <=> e.sig = "open"
       /\ e \in PlainMessages <=> e.sig \in {"open", "close"}
       /\ e \in KeyMessages <=> e.sig \in FunctionKeys
       /\ e.win # None => e.win \in Win
<1>1. \A s1, w1 : Msg(s1, w1).sig = s1 /\ Msg(s1, w1).win = w1
  BY DEF Msg
<1>2. \A e \in Messages : e = Msg(e.sig, e.win)
  BY DEF Msg, Messages, Requests, Keys
<1>3. \A s1, w1, s2, w2 : Msg(s1, w1) = Msg(s2, w2) <=> s1 = s2 /\ w1 = w2
  BY <1>1
<1>4. \A e \in Messages :
        /\ e.win = None \/ e.win \in Win
        /\ e.win # None <=> e.sig \in {"open", "close", "stopped", "drawn"}
        /\ e.win = None <=> e.sig \in FunctionKeys \cup MoveKeys
  BY WinAssumption DEF Messages, Requests, Keys, FunctionKeys, MoveKeys
<1>5. \A s1, w1 : /\ Msg(s1, w1) \in Keys <=> s1 \in FunctionKeys \cup MoveKeys /\ w1 = None
                  /\ Msg(s1, w1) \in OpenMessages <=> s1 = "open" /\ w1 \in Win
                  /\ Msg(s1, w1) \in PlainMessages <=> s1 \in {"open", "close"} /\ w1 \in Win
                  /\ Msg(s1, w1) \in KeyMessages <=> s1 \in FunctionKeys /\ w1 = None
  BY DEF Msg, Keys, OpenMessages, PlainMessages, KeyMessages
<1>6. \A e \in Messages :
        /\ e \in Keys <=> e.sig \in FunctionKeys \cup MoveKeys /\ e.win = None
        /\ e \in OpenMessages <=> e.sig = "open" /\ e.win \in Win
        /\ e \in PlainMessages <=> e.sig \in {"open", "close"} /\ e.win \in Win
        /\ e \in KeyMessages <=> e.sig \in FunctionKeys /\ e.win = None
  BY <1>2, <1>5
<1>7. \A e \in Messages :
       /\ e \in Keys <=> e.win = None
       /\ e \in OpenMessages <=> e.sig = "open"
       /\ e \in PlainMessages <=> e.sig \in {"open", "close"}
       /\ e \in KeyMessages <=> e.sig \in FunctionKeys
       /\ e.win # None => e.win \in Win
  BY <1>4, <1>6 DEF FunctionKeys, MoveKeys
<1> QED BY <1>1, <1>2, <1>3, <1>7

(* What is in s, as members and as messages.                               *)
LEMMA HasWaiting ==
  ASSUME NEW b \in Seq(Messages)
  PROVE  /\ Has(b, Keys) <=> \E k : Waiting(b, k, None)
         /\ Has(b, OpenMessages) <=> \E w : Waiting(b, "open", w)
         /\ Has(b, PlainMessages) <=> \E w : Waiting(b, "open", w) \/ Waiting(b, "close", w)
         /\ Has(b, KeyMessages) <=> \E k \in FunctionKeys : Waiting(b, k, None)
         /\ \A s2, w2 : Waiting(b, s2, w2) => Msg(s2, w2) \in Messages
<1>1. \A i \in 1 .. Len(b) : b[i] \in Messages
  OBVIOUS
<1>2. \A s2, w2 : Waiting(b, s2, w2) <=> \E i \in 1 .. Len(b) : b[i].sig = s2 /\ b[i].win = w2
  BY <1>1, MessageIs DEF Waiting, Has
<1>3. \A s2, w2 : Waiting(b, s2, w2) => Msg(s2, w2) \in Messages
  BY <1>1 DEF Waiting, Has
<1>4. /\ Has(b, Keys) <=> \E i \in 1 .. Len(b) : b[i].win = None
      /\ Has(b, OpenMessages) <=> \E i \in 1 .. Len(b) : b[i].sig = "open"
      /\ Has(b, PlainMessages) <=> \E i \in 1 .. Len(b) : b[i].sig \in {"open", "close"}
      /\ Has(b, KeyMessages) <=> \E i \in 1 .. Len(b) : b[i].sig \in FunctionKeys
  BY <1>1, MessageIs DEF Has
<1>5. \A i \in 1 .. Len(b) : b[i].sig \in FunctionKeys => b[i].win = None
  BY <1>1, WinAssumption DEF Messages, Requests, Keys, FunctionKeys, MoveKeys
<1>6. Has(b, Keys) <=> \E k : Waiting(b, k, None)
  <2>1. ASSUME NEW i \in 1 .. Len(b), b[i].win = None PROVE Waiting(b, b[i].sig, None)
    BY <1>2, <2>1
  <2>2. ASSUME NEW k, Waiting(b, k, None) PROVE \E i \in 1 .. Len(b) : b[i].win = None
    BY <1>2, <2>2
  <2> QED BY <1>4, <2>1, <2>2
<1>7. Has(b, OpenMessages) <=> \E w : Waiting(b, "open", w)
  BY <1>2, <1>4
<1>8. Has(b, PlainMessages) <=> \E w : Waiting(b, "open", w) \/ Waiting(b, "close", w)
  <2>1. ASSUME NEW i \in 1 .. Len(b), b[i].sig \in {"open", "close"}
        PROVE  Waiting(b, "open", b[i].win) \/ Waiting(b, "close", b[i].win)
    BY <1>2, <2>1
  <2>2. ASSUME NEW w, Waiting(b, "open", w) \/ Waiting(b, "close", w)
        PROVE  \E i \in 1 .. Len(b) : b[i].sig \in {"open", "close"}
    BY <1>2, <2>2
  <2> QED BY <1>4, <2>1, <2>2
<1>9. Has(b, KeyMessages) <=> \E k \in FunctionKeys : Waiting(b, k, None)
  BY <1>2, <1>4, <1>5
<1> QED BY <1>3, <1>6, <1>7, <1>8, <1>9

LEMMA BoxTell ==
  ASSUME NEW b \in Seq(Messages), NEW sig, NEW w, Msg(sig, w) \in Messages
  PROVE  LET t == Append(b, Msg(sig, w)) IN
         /\ t \in Seq(Messages)
         /\ \A s2, w2 : Waiting(t, s2, w2) <=> Waiting(b, s2, w2) \/ (s2 = sig /\ w2 = w)
         /\ \A s2, w2 : OneOf(t, {Msg(s2, w2)}) <=>
              OneOf(b, {Msg(s2, w2)}) /\ ~ (s2 = sig /\ w2 = w /\ Waiting(b, sig, w))
         /\ /\ BoxOK(b)
            /\ sig = "open" => ~ Waiting(b, "close", w) /\ \A v : ~ Waiting(b, "open", v)
            /\ sig = "close" => ~ Waiting(b, "close", w)
            /\ w = None => \A k : ~ Waiting(b, k, None)
            /\ sig \in FunctionKeys => \A v : ~ Waiting(b, "open", v) /\ ~ Waiting(b, "close", v)
            => BoxOK(t)
<1> DEFINE e == Msg(sig, w)
           t == Append(b, e)
<1>1. /\ e \in Messages /\ e.sig = sig /\ e.win = w
      /\ \A s2, w2 : e \in {Msg(s2, w2)} <=> s2 = sig /\ w2 = w
  BY MessageIs
<1>2. t \in Seq(Messages)
  BY <1>1
<1>3. /\ \A M : Has(t, M) <=> Has(b, M) \/ e \in M
      /\ \A M : OneOf(t, M) <=> OneOf(b, M) /\ ~ (e \in M /\ Has(b, M))
      /\ \A M, N : After(t, M, N) <=> After(b, M, N) /\ ~ (e \in N /\ (e \in M \/ Has(b, M)))
  BY <1>1, HasAppend, AfterAppend
<1> HIDE DEF t
<1>4. \A s2, w2 : Waiting(t, s2, w2) <=> Waiting(b, s2, w2) \/ (s2 = sig /\ w2 = w)
  BY <1>1, <1>3 DEF Waiting
<1>5. \A s2, w2 : OneOf(t, {Msg(s2, w2)}) <=>
        OneOf(b, {Msg(s2, w2)}) /\ ~ (s2 = sig /\ w2 = w /\ Waiting(b, sig, w))
  BY <1>1, <1>3 DEF Waiting
<1> HIDE DEF e
<1>6. ASSUME /\ BoxOK(b)
             /\ sig = "open" => ~ Waiting(b, "close", w) /\ \A v : ~ Waiting(b, "open", v)
             /\ sig = "close" => ~ Waiting(b, "close", w)
             /\ w = None => \A k : ~ Waiting(b, k, None)
             /\ sig \in FunctionKeys => \A v : ~ Waiting(b, "open", v) /\ ~ Waiting(b, "close", v)
      PROVE  BoxOK(t)
  <2>1. /\ e \in Keys <=> w = None
        /\ e \in OpenMessages <=> sig = "open"
        /\ e \in PlainMessages <=> sig \in {"open", "close"}
        /\ e \in KeyMessages <=> sig \in FunctionKeys
    BY <1>1, MessageIs
  <2>2. OneOf(t, OpenMessages) /\ OneOf(t, Keys)
    BY <1>3, <1>6, <2>1, HasWaiting DEF BoxOK
  <2>3. After(t, PlainMessages, KeyMessages)
    BY <1>3, <1>6, <2>1, HasWaiting DEF BoxOK, FunctionKeys
  <2>4. ASSUME NEW v \in Win
        PROVE  OneOf(t, {Msg("close", v)}) /\ After(t, {Msg("close", v)}, {Msg("open", v)})
    <3>1. OneOf(t, {Msg("close", v)})
      BY <1>5, <1>6 DEF BoxOK
    <3>2. ~ (e \in {Msg("open", v)} /\ (e \in {Msg("close", v)} \/ Has(b, {Msg("close", v)})))
      <4>1. e \in {Msg("open", v)} => sig = "open" /\ w = v
        BY <1>1
      <4>2. e \in {Msg("close", v)} => sig = "close"
        BY <1>1
      <4>3. sig = "open" /\ w = v => ~ Has(b, {Msg("close", v)})
        BY <1>6 DEF Waiting
      <4> QED BY <4>1, <4>2, <4>3
    <3>3. After(b, {Msg("close", v)}, {Msg("open", v)})
      BY <1>6 DEF BoxOK
    <3> QED BY <1>3, <3>1, <3>2, <3>3
  <2> QED BY <2>2, <2>3, <2>4 DEF BoxOK
<1> QED BY <1>2, <1>4, <1>5, <1>6 DEF t, e

LEMMA BoxHeard ==
  ASSUME NEW b \in Seq(Messages), b # <<>>, BoxOK(b)
  PROVE  LET t == Tail(b)
             h == Head(b) IN
         /\ t \in Seq(Messages) /\ h \in Messages /\ h = Msg(h.sig, h.win)
         /\ Waiting(b, h.sig, h.win)
         /\ \A s2, w2 : Waiting(b, s2, w2) <=> Waiting(t, s2, w2) \/ (s2 = h.sig /\ w2 = h.win)
         /\ \A s2, w2 : OneOf(b, {Msg(s2, w2)}) =>
              OneOf(t, {Msg(s2, w2)}) /\ ~ (s2 = h.sig /\ w2 = h.win /\ Waiting(t, s2, w2))
         /\ BoxOK(t)
         /\ h.sig = "open" => \A v : ~ Waiting(t, "open", v)
         /\ h.sig = "close" => ~ Waiting(t, "close", h.win) /\ ~ Waiting(b, "open", h.win)
         /\ h.win = None => \A k : ~ Waiting(t, k, None)
         /\ h.sig \in {"open", "close"} => \A k \in FunctionKeys : ~ Waiting(b, k, None)
<1> DEFINE t == Tail(b)
           h == Head(b)
<1>1. t \in Seq(Messages) /\ h \in Messages
  OBVIOUS
<1>2. h = Msg(h.sig, h.win) /\ \A s2, w2 : h \in {Msg(s2, w2)} <=> s2 = h.sig /\ w2 = h.win
  BY <1>1, MessageIs
<1>3. /\ \A M : Has(b, M) <=> Has(t, M) \/ h \in M
      /\ \A M : OneOf(b, M) <=> OneOf(t, M) /\ ~ (h \in M /\ Has(t, M))
      /\ \A M, N : After(b, M, N) => After(t, M, N) /\ (h \in M => ~ Has(b, N))
  BY HasTail, AfterTail
<1> HIDE DEF t, h
<1>4. \A s2, w2 : Waiting(b, s2, w2) <=> Waiting(t, s2, w2) \/ (s2 = h.sig /\ w2 = h.win)
  BY <1>2, <1>3 DEF Waiting
<1>5. \A s2, w2 : OneOf(b, {Msg(s2, w2)}) =>
        OneOf(t, {Msg(s2, w2)}) /\ ~ (s2 = h.sig /\ w2 = h.win /\ Waiting(t, s2, w2))
  BY <1>2, <1>3 DEF Waiting
<1>6. /\ h \in Keys <=> h.win = None
      /\ h \in OpenMessages <=> h.sig = "open"
      /\ h \in PlainMessages <=> h.sig \in {"open", "close"}
      /\ h \in KeyMessages <=> h.sig \in FunctionKeys
      /\ h.win # None => h.win \in Win
  BY <1>1, MessageIs
<1>7. BoxOK(t)
  BY <1>3 DEF BoxOK
<1>8. h.sig = "open" => \A v : ~ Waiting(t, "open", v)
  BY <1>1, <1>3, <1>6, HasWaiting DEF BoxOK
<1>9. h.win = None => \A k : ~ Waiting(t, k, None)
  BY <1>1, <1>3, <1>6, HasWaiting DEF BoxOK
<1>10. h.sig \in {"open", "close"} => \A k \in FunctionKeys : ~ Waiting(b, k, None)
  BY <1>3, <1>6, HasWaiting DEF BoxOK
<1>11. ASSUME h.sig = "close" PROVE ~ Waiting(t, "close", h.win) /\ ~ Waiting(b, "open", h.win)
  <2>1. h.win \in Win
    BY <1>1, <1>11 DEF Messages, Requests, Keys, FunctionKeys, MoveKeys
  <2>2. ~ Waiting(t, "close", h.win)
    BY <1>5, <1>11, <2>1 DEF BoxOK
  <2>3. h \in {Msg("close", h.win)}
    BY <1>2, <1>11
  <2>4. ~ Waiting(b, "open", h.win)
    BY <1>3, <2>1, <2>3 DEF BoxOK, Waiting
  <2> QED BY <2>2, <2>4
<1> QED BY <1>1, <1>2, <1>4, <1>5, <1>7, <1>8, <1>9, <1>10, <1>11 DEF t, h

-----------------------------------------------------------------------------
(* The job list.                                                           *)
Job(cmd, w) == [cmd |-> cmd, win |-> w]
InJobs(l, cmd, w) == Has(l, {Job(cmd, w)})

(* No job waits twice; a window is closed after it is opened; what the     *)
(* keys and the mouse ask for is the next to be done.                      *)
ListOK(l) ==
  /\ IsInjective(l)
  /\ \A w \in Win : After(l, {Job("close", w)}, {Job("open", w)})
  /\ \A i \in 1 .. Len(l) : l[i].win \in Win /\ (l[i].cmd \in {"activate", "move"} => i = 1)

LEMMA JobIs ==
  /\ \A e \in Jobs : e = Job(e.cmd, e.win)
  /\ \A s1, w1, s2, w2 : Job(s1, w1) = Job(s2, w2) <=> s1 = s2 /\ w1 = w2
  /\ \A s1, w1 : Job(s1, w1).cmd = s1 /\ Job(s1, w1).win = w1
<1>1. \A s1, w1 : Job(s1, w1).cmd = s1 /\ Job(s1, w1).win = w1
  BY DEF Job
<1>2. \A e \in Jobs : e = Job(e.cmd, e.win)
  BY DEF Job, Jobs
<1> QED BY <1>1, <1>2

LEMMA ListAdd ==
  ASSUME NEW l \in Seq(Jobs), ListOK(l), NEW cmd, NEW w \in Win, Job(cmd, w) \in Jobs,
         ~ InJobs(l, cmd, w), cmd = "open" => ~ InJobs(l, "close", w),
         cmd \in {"activate", "move"} => l = <<>>
  PROVE  LET t == Append(l, Job(cmd, w)) IN
         /\ t \in Seq(Jobs) /\ ListOK(t)
         /\ \A c, v : InJobs(t, c, v) <=> InJobs(l, c, v) \/ (c = cmd /\ v = w)
<1> DEFINE e == Job(cmd, w)
           t == Append(l, e)
<1>1. /\ e.cmd = cmd /\ e.win = w
      /\ \A c, v : e \in {Job(c, v)} <=> c = cmd /\ v = w
  BY JobIs
<1>2. t \in Seq(Jobs) /\ Len(l) \in Nat /\ Len(t) = Len(l) + 1 /\ t[Len(l) + 1] = e
      /\ \A i \in 1 .. Len(l) : t[i] = l[i]
  OBVIOUS
<1>3. /\ \A M : Has(t, M) <=> Has(l, M) \/ e \in M
      /\ \A M, N : After(t, M, N) <=> After(l, M, N) /\ ~ (e \in N /\ (e \in M \/ Has(l, M)))
  BY HasAppend, AfterAppend
<1>4. e \notin ToSet(l)
  BY MembersOf DEF InJobs
<1>5. IsInjective(t)
  BY <1>4, RingAdd DEF ListOK
<1> HIDE DEF t
<1>6. \A c, v : InJobs(t, c, v) <=> InJobs(l, c, v) \/ (c = cmd /\ v = w)
  BY <1>1, <1>3 DEF InJobs
<1>7. ASSUME NEW v \in Win PROVE After(t, {Job("close", v)}, {Job("open", v)})
  <2>1. e \in {Job("open", v)} => cmd = "open" /\ v = w
    BY <1>1
  <2>2. e \in {Job("close", v)} => cmd = "close"
    BY <1>1
  <2>3. cmd = "open" /\ v = w => ~ Has(l, {Job("close", v)})
    BY DEF InJobs
  <2> QED BY <1>3, <2>1, <2>2, <2>3 DEF ListOK
<1>8. ASSUME NEW i \in 1 .. Len(t)
      PROVE  t[i].win \in Win /\ (t[i].cmd \in {"activate", "move"} => i = 1)
  <2>1. CASE i = Len(l) + 1
    <3>1. t[i].cmd = cmd /\ t[i].win = w
      BY <1>1, <1>2, <2>1
    <3>2. l = <<>> => i = 1
      BY <1>2, <2>1
    <3> QED BY <3>1, <3>2
  <2>2. CASE i # Len(l) + 1
    BY <1>2, <2>2 DEF ListOK
  <2> QED BY <2>1, <2>2
<1> QED BY <1>2, <1>5, <1>6, <1>7, <1>8 DEF t, ListOK

LEMMA ListRun ==
  ASSUME NEW l \in Seq(Jobs), l # <<>>, ListOK(l)
  PROVE  LET t == Tail(l)
             h == Head(l) IN
         /\ t \in Seq(Jobs) /\ ListOK(t) /\ h \in Jobs /\ h.win \in Win
         /\ InJobs(l, h.cmd, h.win)
         /\ \A c, v : InJobs(l, c, v) <=> InJobs(t, c, v) \/ (c = h.cmd /\ v = h.win)
         /\ ~ InJobs(t, h.cmd, h.win)
         /\ h.cmd = "close" => ~ InJobs(t, "open", h.win)
         /\ \A v : ~ InJobs(t, "activate", v) /\ ~ InJobs(t, "move", v)
<1> DEFINE t == Tail(l)
           h == Head(l)
<1>1. /\ t \in Seq(Jobs) /\ h \in Jobs /\ Len(l) \in Nat /\ Len(l) > 0 /\ Len(t) = Len(l) - 1
      /\ h = l[1] /\ \A i \in 1 .. Len(t) : t[i] = l[i + 1]
  OBVIOUS
<1>2. IsInjective(t) /\ h \notin ToSet(t)
  BY RingRest DEF ListOK
<1>3. /\ \A M : Has(l, M) <=> Has(t, M) \/ h \in M
      /\ \A M, N : After(l, M, N) => After(t, M, N) /\ (h \in M => ~ Has(l, N))
  BY HasTail, AfterTail
<1> HIDE DEF t, h
<1>4. h = Job(h.cmd, h.win) /\ \A c, v : h \in {Job(c, v)} <=> c = h.cmd /\ v = h.win
  BY <1>1, JobIs
<1>5. \A i \in 1 .. Len(t) : t[i].win \in Win /\ t[i].cmd \notin {"activate", "move"}
  <2> SUFFICES ASSUME NEW i \in 1 .. Len(t)
               PROVE  t[i].win \in Win /\ t[i].cmd \notin {"activate", "move"}
    OBVIOUS
  <2>1. i + 1 \in 1 .. Len(l) /\ i + 1 # 1 /\ t[i] = l[i + 1]
    BY <1>1
  <2> QED BY <2>1 DEF ListOK
<1>6. h.win \in Win
  <2>1. 1 \in 1 .. Len(l)
    BY <1>1
  <2> QED BY <1>1, <2>1 DEF ListOK
<1>7. \A c, v : InJobs(l, c, v) <=> InJobs(t, c, v) \/ (c = h.cmd /\ v = h.win)
  BY <1>3, <1>4 DEF InJobs
<1>8. ~ InJobs(t, h.cmd, h.win)
  BY <1>1, <1>2, <1>4, MembersOf DEF InJobs
<1>9. h.cmd = "close" => ~ InJobs(t, "open", h.win)
  BY <1>3, <1>4, <1>6 DEF ListOK, InJobs
<1>10. \A v : ~ InJobs(t, "activate", v) /\ ~ InJobs(t, "move", v)
  BY <1>5, JobIs DEF InJobs, Has
<1>11. ListOK(t)
  BY <1>2, <1>3, <1>5 DEF ListOK
<1> QED BY <1>1, <1>6, <1>7, <1>8, <1>9, <1>10, <1>11 DEF t, h

(* There is room for every job, since each window is opened and closed by  *)
(* one at most, and one more may come from the user.                       *)
LEMMA ListRoom ==
  ASSUME NEW l \in Seq(Jobs), ListOK(l), NEW cmd \in {"open", "close"}, NEW w \in Win,
         ~ InJobs(l, cmd, w), 2 * Cardinality(Win) < JobCap, JobCap \in Nat
  PROVE  Len(l) < JobCap
<1> DEFINE P == {"open", "close"} \X Win
           f == [i \in 1 .. Len(l) |-> IF l[i].cmd \in {"activate", "move"} THEN <<cmd, w>>
                                       ELSE <<l[i].cmd, l[i].win>>]
<1>1. /\ Len(l) \in Nat
      /\ \A i \in 1 .. Len(l) : /\ l[i] \in Jobs /\ l[i] # Job(cmd, w) /\ l[i].win \in Win
                                /\ l[i].cmd \in {"activate", "move"} => i = 1
  BY DEF ListOK, InJobs, Has
<1>2. \A i, j \in 1 .. Len(l) : l[i] = l[j] => i = j
  BY MembersOf DEF ListOK
<1>3. \A i \in 1 .. Len(l) : f[i] \in P
  BY <1>1 DEF Jobs
<1>4. ASSUME NEW i \in 1 .. Len(l), NEW j \in 1 .. Len(l), f[i] = f[j] PROVE i = j
  <2>1. CASE l[i].cmd \in {"activate", "move"} /\ l[j].cmd \in {"activate", "move"}
    BY <1>1, <2>1
  <2>2. CASE l[i].cmd \notin {"activate", "move"} /\ l[j].cmd \notin {"activate", "move"}
    <3>1. l[i].cmd = l[j].cmd /\ l[i].win = l[j].win
      BY <1>4, <2>2
    <3> QED BY <1>1, <1>2, <3>1, JobIs
  <2>3. ASSUME NEW k \in 1 .. Len(l), l[k].cmd \notin {"activate", "move"} PROVE f[k] # <<cmd, w>>
    <3>1. f[k] = <<l[k].cmd, l[k].win>> /\ l[k] = Job(l[k].cmd, l[k].win)
      BY <1>1, <2>3, JobIs
    <3>2. ~ (l[k].cmd = cmd /\ l[k].win = w)
      BY <1>1, <3>1
    <3> QED BY <3>1, <3>2
  <2>4. ASSUME NEW k \in 1 .. Len(l), l[k].cmd \in {"activate", "move"} PROVE f[k] = <<cmd, w>>
    BY <2>4
  <2> HIDE DEF f
  <2> QED BY <1>4, <2>1, <2>2, <2>3, <2>4
<1>5. IsFiniteSet(P) /\ Cardinality(P) = 2 * Cardinality(Win) /\ Cardinality(Win) \in Nat
  <2>1. IsFiniteSet({"open", "close"}) /\ Cardinality({"open", "close"}) = 2
    <3>1. {"open", "close"} = {"open"} \cup {"close"} /\ "close" \notin {"open"}
      OBVIOUS
    <3>2. IsFiniteSet({"open"}) /\ Cardinality({"open"}) = 1
      BY FS_Singleton
    <3>3. /\ IsFiniteSet({"open"} \cup {"close"})
          /\ Cardinality({"open"} \cup {"close"}) = 1 + 1
      BY <3>1, <3>2, FS_AddElement
    <3> QED BY <3>1, <3>3
  <2>2. IsFiniteSet(P) /\ Cardinality(P) = Cardinality({"open", "close"}) * Cardinality(Win)
    BY <2>1, FS_Product, WinAssumption
  <2>3. Cardinality(Win) \in Nat
    BY FS_CardinalityType, WinAssumption
  <2> QED BY <2>1, <2>2, <2>3
<1>6. f \in Injection(1 .. Len(l), P)
  <2>1. f \in [1 .. Len(l) -> P] /\ DOMAIN f = 1 .. Len(l)
    BY <1>3
  <2> HIDE DEF f, P
  <2>2. IsInjective(f)
    BY <1>4, <2>1 DEF IsInjective
  <2> QED BY <2>1, <2>2 DEF Injection
<1> HIDE DEF f, P
<1>7. Cardinality(1 .. Len(l)) <= Cardinality(P)
  BY <1>5, <1>6, FS_Injection
<1>8. Cardinality(1 .. Len(l)) = Len(l)
  <2>1. ASSUME NEW n \in Nat PROVE Cardinality(1 .. n) = n
    <3>1. Cardinality(1 .. n) = IF 1 > n THEN 0 ELSE n - 1 + 1
      BY FS_Interval
    <3> QED BY <3>1
  <2> QED BY <1>1, <2>1
<1> QED BY <1>1, <1>5, <1>7, <1>8

-----------------------------------------------------------------------------
(* The signal box of a task, and the answers its task owes.                *)
OrdersOf(sigs) == { o \in Orders : o.sig \in sigs }
Told(q, sig) == Has(q, OrdersOf({sig}))
Asked(q, kind) == Has(q, OrdersOf(Asking(kind)))
AskedOnce(q, kind) == OneOf(q, OrdersOf(Asking(kind)))
ToldOnce(q) == OneOf(q, OrdersOf({"close"}))
(* It is told once to close, and last that it is closed.                   *)
Orderly(q) == LastIn(q, OrdersOf({"closed"})) /\ ToldOnce(q)

Draws(d, kind) == kind = "drawn" /\ d # "no"
Due(q, d, b, w, kind) == Asked(q, kind) \/ Draws(d, kind) \/ Waiting(b, kind, w)
DueOnce(q, d, b, w, kind) ==
  /\ AskedOnce(q, kind) /\ OneOf(b, {Msg(kind, w)})
  /\ Asked(q, kind) => ~ Draws(d, kind) /\ ~ Waiting(b, kind, w)
  /\ Draws(d, kind) => ~ Waiting(b, kind, w)

LEMMA MailEmpty ==
  /\ \A sig : ~ Told(<<>>, sig)
  /\ \A k : ~ Asked(<<>>, k) /\ AskedOnce(<<>>, k)
  /\ ToldOnce(<<>>) /\ Orderly(<<>>)
BY HasNone DEF Told, Asked, AskedOnce, ToldOnce, Orderly

LEMMA MailAdd ==
  ASSUME NEW q \in Seq(Orders), NEW o \in Orders
  PROVE  LET t == Append(q, o) IN
         /\ t \in Seq(Orders) /\ t # <<>>
         /\ \A sig : Told(t, sig) <=> Told(q, sig) \/ sig = o.sig
         /\ \A k : Asked(t, k) <=> Asked(q, k) \/ o.sig \in Asking(k)
         /\ \A k : AskedOnce(t, k) <=> AskedOnce(q, k) /\ ~ (o.sig \in Asking(k) /\ Asked(q, k))
         /\ ToldOnce(t) <=> ToldOnce(q) /\ ~ (o.sig = "close" /\ Told(q, "close"))
         /\ Orderly(t) <=> ToldOnce(t) /\ ~ Told(q, "closed")
<1> DEFINE t == Append(q, o)
<1>1. t \in Seq(Orders) /\ t # <<>>
  <2>1. t \in Seq(Orders) /\ Len(t) = Len(q) + 1 /\ Len(q) \in Nat
    OBVIOUS
  <2> HIDE DEF t
  <2> QED BY <2>1
<1>2. /\ \A M : Has(t, M) <=> Has(q, M) \/ o \in M
      /\ \A M : OneOf(t, M) <=> OneOf(q, M) /\ ~ (o \in M /\ Has(q, M))
      /\ \A M : LastIn(t, M) <=> ~ Has(q, M)
  BY HasAppend, LastAppend
<1> HIDE DEF t
<1>3. \A sigs : o \in OrdersOf(sigs) <=> o.sig \in sigs
  BY DEF OrdersOf
<1>4. \A sig : Told(t, sig) <=> Told(q, sig) \/ sig = o.sig
  BY <1>2, <1>3 DEF Told
<1>5. \A k : Asked(t, k) <=> Asked(q, k) \/ o.sig \in Asking(k)
  BY <1>2, <1>3 DEF Asked
<1>6. \A k : AskedOnce(t, k) <=> AskedOnce(q, k) /\ ~ (o.sig \in Asking(k) /\ Asked(q, k))
  BY <1>2, <1>3 DEF Asked, AskedOnce
<1>7. ToldOnce(t) <=> ToldOnce(q) /\ ~ (o.sig = "close" /\ Told(q, "close"))
  BY <1>2, <1>3 DEF ToldOnce, Told
<1>8. Orderly(t) <=> ToldOnce(t) /\ ~ Told(q, "closed")
  BY <1>2 DEF Orderly, Told
<1> QED BY <1>1, <1>4, <1>5, <1>6, <1>7, <1>8 DEF t

LEMMA MailTaken ==
  ASSUME NEW q \in Seq(Orders), q # <<>>
  PROVE  LET t == Tail(q)
             o == Head(q) IN
         /\ t \in Seq(Orders) /\ o \in Orders
         /\ \A sig : Told(q, sig) <=> Told(t, sig) \/ sig = o.sig
         /\ \A k : Asked(q, k) <=> Asked(t, k) \/ o.sig \in Asking(k)
         /\ \A k : AskedOnce(q, k) <=> AskedOnce(t, k) /\ ~ (o.sig \in Asking(k) /\ Asked(t, k))
         /\ Orderly(q) => /\ Orderly(t) /\ (o.sig = "closed" => t = <<>>)
                          /\ o.sig = "close" => ~ Told(t, "close")
<1> DEFINE t == Tail(q)
           o == Head(q)
<1>1. t \in Seq(Orders) /\ o \in Orders
  OBVIOUS
<1>2. /\ \A M : Has(q, M) <=> Has(t, M) \/ o \in M
      /\ \A M : OneOf(q, M) <=> OneOf(t, M) /\ ~ (o \in M /\ Has(t, M))
      /\ \A M : LastIn(q, M) => LastIn(t, M) /\ (o \in M => t = <<>>)
  BY HasTail, LastTail
<1> HIDE DEF t, o
<1>3. \A sigs : o \in OrdersOf(sigs) <=> o.sig \in sigs
  BY <1>1 DEF OrdersOf
<1>4. \A sig : Told(q, sig) <=> Told(t, sig) \/ sig = o.sig
  BY <1>2, <1>3 DEF Told
<1>5. \A k : Asked(q, k) <=> Asked(t, k) \/ o.sig \in Asking(k)
  BY <1>2, <1>3 DEF Asked
<1>6. \A k : AskedOnce(q, k) <=> AskedOnce(t, k) /\ ~ (o.sig \in Asking(k) /\ Asked(t, k))
  BY <1>2, <1>3 DEF Asked, AskedOnce
<1>7. Orderly(q) => /\ Orderly(t) /\ (o.sig = "closed" => t = <<>>)
                    /\ o.sig = "close" => ~ Told(t, "close")
  BY <1>2, <1>3 DEF Orderly, ToldOnce, Told
<1> QED BY <1>1, <1>4, <1>5, <1>6, <1>7 DEF t, o

LEMMA MailConcat ==
  ASSUME NEW q \in Seq(Orders), NEW r \in Seq(Orders)
  PROVE  LET t == q \o r IN
         /\ t \in Seq(Orders)
         /\ \A sig : Told(t, sig) <=> Told(q, sig) \/ Told(r, sig)
         /\ \A k : Asked(t, k) <=> Asked(q, k) \/ Asked(r, k)
         /\ \A k : AskedOnce(t, k) <=>
              AskedOnce(q, k) /\ AskedOnce(r, k) /\ ~ (Asked(q, k) /\ Asked(r, k))
         /\ ToldOnce(t) <=>
              ToldOnce(q) /\ ToldOnce(r) /\ ~ (Told(q, "close") /\ Told(r, "close"))
<1> DEFINE t == q \o r
<1>1. t \in Seq(Orders)
  OBVIOUS
<1>2. /\ \A M : Has(t, M) <=> Has(q, M) \/ Has(r, M)
      /\ \A M : OneOf(t, M) <=> OneOf(q, M) /\ OneOf(r, M) /\ ~ (Has(q, M) /\ Has(r, M))
  BY HasConcat
<1> HIDE DEF t
<1>3. \A sig : Told(t, sig) <=> Told(q, sig) \/ Told(r, sig)
  BY <1>2 DEF Told
<1>4. \A k : Asked(t, k) <=> Asked(q, k) \/ Asked(r, k)
  BY <1>2 DEF Asked
<1>5. \A k : AskedOnce(t, k) <=>
        AskedOnce(q, k) /\ AskedOnce(r, k) /\ ~ (Asked(q, k) /\ Asked(r, k))
  BY <1>2 DEF Asked, AskedOnce
<1>6. ToldOnce(t) <=>
        ToldOnce(q) /\ ToldOnce(r) /\ ~ (Told(q, "close") /\ Told(r, "close"))
  BY <1>2 DEF Told, ToldOnce
<1> QED BY <1>1, <1>3, <1>4, <1>5, <1>6 DEF t

(* Nothing is told after what was not told is last.                        *)
LEMMA MailLast ==
  ASSUME NEW q
  PROVE  /\ ~ Told(q, "closed") /\ ToldOnce(q) => Orderly(q)
         /\ Orderly(q) => ToldOnce(q)
         /\ ~ Told(q, "close") => ToldOnce(q)
BY LastNone DEF Told, ToldOnce, Orderly, Has, OneOf

LEMMA MailOne ==
  ASSUME NEW o \in Orders
  PROVE  /\ <<o>> \in Seq(Orders)
         /\ \A sig : Told(<<o>>, sig) <=> sig = o.sig
         /\ \A k : Asked(<<o>>, k) <=> o.sig \in Asking(k)
         /\ \A k : AskedOnce(<<o>>, k)
         /\ ToldOnce(<<o>>)
<1>1. <<o>> = Append(<<>>, o) /\ <<>> \in Seq(Orders)
  OBVIOUS
<1> DEFINE t == Append(<<>>, o)
<1>2. /\ t \in Seq(Orders)
      /\ \A sig : Told(t, sig) <=> Told(<<>>, sig) \/ sig = o.sig
      /\ \A k : Asked(t, k) <=> Asked(<<>>, k) \/ o.sig \in Asking(k)
      /\ \A k : AskedOnce(t, k) <=> AskedOnce(<<>>, k) /\ ~ (o.sig \in Asking(k) /\ Asked(<<>>, k))
      /\ ToldOnce(t) <=> ToldOnce(<<>>) /\ ~ (o.sig = "close" /\ Told(<<>>, "close"))
  BY <1>1, MailAdd
<1> HIDE DEF t
<1>3. <<o>> = t
  BY <1>1 DEF t
<1> QED BY <1>2, <1>3, MailEmpty

(* What a window that is redrawn is told asks for an answer to the drawing, *)
(* for one to a stop if it has to stop, and for nothing else.               *)
LEMMA RedrawAsks ==
  ASSUME NEW f \in SUBSET Bits, NEW c \in SUBSET Condition
  PROVE  LET r == RedrawOrders(f, c) IN
         /\ r \in Seq(Orders)
         /\ \A sig \in {"close", "closed"} : ~ Told(r, sig)
         /\ Asked(r, "stopped") <=> f \cap {"override", "show"} = {}
         /\ Asked(r, "drawn")
         /\ \A k \in Kinds : AskedOnce(r, k)
<1> DEFINE e == Order("enable")
           s == Order("disable")
           m == Mode(f \cap Condition)
           d == Order(IF "must" \in f THEN "redraw" ELSE "redrawdif")
           a == IF {"override", "show"} \subseteq f THEN <<e>>
                ELSE IF f \cap {"override", "show"} = {} THEN <<s>> ELSE <<>>
           b == IF f \cap Condition = c THEN <<>> ELSE <<m>>
<1>1. /\ e \in Orders /\ s \in Orders /\ m \in Orders /\ d \in Orders
      /\ e.sig = "enable" /\ s.sig = "disable" /\ m.sig = "mode" /\ d.sig \in {"redraw", "redrawdif"}
  BY DEF Order, Mode, Orders, Condition
<1>2. RedrawOrders(f, c) = (a \o b) \o <<d>>
  BY DEF RedrawOrders
<1> HIDE DEF e, s, m, d
<1>3. <<>> \in Seq(Orders)
  OBVIOUS
<1>4. /\ a \in Seq(Orders)
      /\ \A sig \in {"close", "closed"} : ~ Told(a, sig)
      /\ Asked(a, "stopped") <=> f \cap {"override", "show"} = {}
      /\ ~ Asked(a, "drawn")
      /\ \A k \in Kinds : AskedOnce(a, k)
  <2>1. CASE {"override", "show"} \subseteq f
    <3>1. a = <<e>> /\ f \cap {"override", "show"} # {}
      BY <2>1
    <3> QED BY <1>1, <3>1, MailOne DEF Asking
  <2>2. CASE f \cap {"override", "show"} = {}
    <3>1. a = <<s>>
      BY <2>2
    <3> QED BY <1>1, <2>2, <3>1, MailOne DEF Asking
  <2>3. CASE ~ ({"override", "show"} \subseteq f) /\ f \cap {"override", "show"} # {}
    <3>1. a = <<>>
      BY <2>3
    <3> QED BY <1>3, <2>3, <3>1, MailEmpty
  <2> QED BY <2>1, <2>2, <2>3
<1>5. /\ b \in Seq(Orders)
      /\ \A sig \in {"close", "closed"} : ~ Told(b, sig)
      /\ \A k \in Kinds : ~ Asked(b, k) /\ AskedOnce(b, k)
  <2>1. CASE f \cap Condition = c
    <3>1. b = <<>>
      BY <2>1
    <3> QED BY <1>3, <3>1, MailEmpty
  <2>2. CASE f \cap Condition # c
    <3>1. b = <<m>>
      BY <2>2
    <3> QED BY <1>1, <3>1, MailOne DEF Asking, Kinds
  <2> QED BY <2>1, <2>2
<1>6. /\ <<d>> \in Seq(Orders)
      /\ \A sig \in {"close", "closed"} : ~ Told(<<d>>, sig)
      /\ ~ Asked(<<d>>, "stopped") /\ Asked(<<d>>, "drawn")
      /\ \A k \in Kinds : AskedOnce(<<d>>, k)
  BY <1>1, MailOne DEF Asking
<1> HIDE DEF a, b
<1>7. /\ a \o b \in Seq(Orders)
      /\ \A sig : Told(a \o b, sig) <=> Told(a, sig) \/ Told(b, sig)
      /\ \A k : Asked(a \o b, k) <=> Asked(a, k) \/ Asked(b, k)
      /\ \A k : AskedOnce(a \o b, k) <=>
           AskedOnce(a, k) /\ AskedOnce(b, k) /\ ~ (Asked(a, k) /\ Asked(b, k))
  BY <1>4, <1>5, MailConcat
<1> DEFINE ab == a \o b
           r == ab \o <<d>>
<1> HIDE DEF ab
<1>8. /\ r \in Seq(Orders)
      /\ \A sig : Told(r, sig) <=> Told(ab, sig) \/ Told(<<d>>, sig)
      /\ \A k : Asked(r, k) <=> Asked(ab, k) \/ Asked(<<d>>, k)
      /\ \A k : AskedOnce(r, k) <=>
           AskedOnce(ab, k) /\ AskedOnce(<<d>>, k) /\ ~ (Asked(ab, k) /\ Asked(<<d>>, k))
  BY <1>6, <1>7, MailConcat DEF ab
<1> HIDE DEF r
<1>9. /\ r \in Seq(Orders)
      /\ \A sig \in {"close", "closed"} : ~ Told(r, sig)
      /\ Asked(r, "stopped") <=> f \cap {"override", "show"} = {}
      /\ Asked(r, "drawn")
      /\ \A k \in Kinds : AskedOnce(r, k)
  BY <1>4, <1>5, <1>6, <1>7, <1>8 DEF ab, Kinds
<1> QED BY <1>2, <1>9 DEF r, ab

(* What is counted is what is due.                                         *)
LEMMA OwesIsDue ==
  ASSUME NEW w \in Win, NEW kind \in Kinds, toTask[w] \in Seq(Orders), toWinman \in Seq(Messages)
  PROVE  /\ Owes(w, kind) # 0 <=> Due(toTask[w], client[w].drawing, toWinman, w, kind)
         /\ Owes(w, kind) <= 1 <=> DueOnce(toTask[w], client[w].drawing, toWinman, w, kind)
<1> DEFINE q == toTask[w]
           n == Cardinality({ i \in 1 .. Len(q) : q[i] \in OrdersOf(Asking(kind)) })
           m == Cardinality({ i \in 1 .. Len(toWinman) : toWinman[i] \in {Msg(kind, w)} })
           d == IF Draws(client[w].drawing, kind) THEN 1 ELSE 0
<1>1. n \in Nat /\ (n = 0 <=> ~ Asked(q, kind)) /\ (n <= 1 <=> AskedOnce(q, kind))
  BY Counted DEF Asked, AskedOnce
<1>2. m \in Nat /\ (m = 0 <=> ~ Waiting(toWinman, kind, w)) /\ (m <= 1 <=> OneOf(toWinman, {Msg(kind, w)}))
  BY Counted DEF Waiting
<1>3. Owes(w, kind) = n + d + m
  <2>1. { i \in 1 .. Len(q) : q[i] \in OrdersOf(Asking(kind)) } =
        { i \in 1 .. Len(toTask[w]) : toTask[w][i].sig \in Asking(kind) }
    BY DEF OrdersOf
  <2>2. { i \in 1 .. Len(toWinman) : toWinman[i] \in {Msg(kind, w)} } =
        { i \in 1 .. Len(toWinman) : toWinman[i] = [sig |-> kind, win |-> w] }
    BY DEF Msg
  <2>3. d = IF kind = "drawn" /\ Drawing(w) THEN 1 ELSE 0
    BY DEF Draws, Drawing
  <2> QED BY <2>1, <2>2, <2>3 DEF Owes
<1>4. d \in {0, 1} /\ (d = 1 <=> Draws(client[w].drawing, kind))
  OBVIOUS
<1>5. Due(q, client[w].drawing, toWinman, w, kind) <=> n # 0 \/ d = 1 \/ m # 0
  BY <1>1, <1>2, <1>4 DEF Due
<1>6. DueOnce(q, client[w].drawing, toWinman, w, kind) <=>
        n <= 1 /\ m <= 1 /\ (n # 0 => d = 0 /\ m = 0) /\ (d = 1 => m = 0)
  BY <1>1, <1>2, <1>4 DEF DueOnce
<1> HIDE DEF n, m, d
<1> QED BY <1>1, <1>2, <1>3, <1>4, <1>5, <1>6

-----------------------------------------------------------------------------
(* How the drawing of windows goes on.                                     *)
LEMMA Smallest ==
  ASSUME NEW S, S \subseteq Nat, S # {}
  PROVE  \E m \in S : \A k \in S : m <= k
<1> DEFINE R == OpToRel(<, Nat)
<1>1. \A x, y \in Nat : <<x, y>> \in R <=> x < y
  BY DEF OpToRel
<1>2. IsWellFoundedOn(R, Nat)
  BY NatLessThanWellFounded
<1> HIDE DEF R
<1>3. PICK m \in S : \A y \in S : ~(<<y, m>> \in R)
  BY <1>2, WFMin
<1>4. \A y \in S : ~(y < m)
  BY <1>1, <1>3
<1> QED BY <1>4

LEMMA MaxIsMember ==
  ASSUME NEW n \in Nat, NEW S, S \subseteq 1 .. n, S # {}
  PROVE  Max(S) \in S /\ \A k \in S : k <= Max(S)
<1> DEFINE T == { k \in 0 .. n : n - k \in S }
<1>1. T \subseteq Nat /\ T # {}
  <2>1. PICK x \in S : TRUE
    OBVIOUS
  <2>2. n - x \in 0 .. n /\ n - (n - x) = x
    BY <2>1
  <2>3. n - x \in T
    BY <2>2
  <2> HIDE DEF T
  <2>4. T # {}
    BY <2>3
  <2> QED BY <2>4 DEF T
<1>2. PICK m \in T : \A k \in T : m <= k
  BY <1>1, Smallest
<1>3. n - m \in S
  BY <1>2
<1>4. ASSUME NEW y \in S PROVE n - m >= y
  <2>1. y \in 1 .. n
    OBVIOUS
  <2>2. n - y \in 0 .. n /\ n - (n - y) = y
    BY <2>1
  <2>3. m <= n - y
    BY <1>2, <2>2
  <2> QED BY <1>2, <2>1, <2>3
<1>5. \E x \in S : \A y \in S : x >= y
  BY <1>3, <1>4
<1>6. Max(S) \in S /\ \A y \in S : Max(S) >= y
  BY <1>5 DEF Max
<1>7. \A y \in S : y \in Int
  OBVIOUS
<1> QED BY <1>6, <1>7

Waits == {"waitdisable", "waitredraw"}

(* The notes a job makes about the windows hold no wait, and only a window *)
(* that is not open is not shown.                                          *)
NoWaits(fl) == \A v \in Win : fl[v] \cap Waits = {}
Notes(new, fl, s) ==
  /\ new \in [Win -> SUBSET Bits] /\ NoWaits(new)
  /\ \A v \in Win : "nowindow" \in new[v] => "nowindow" \in fl[v]
  /\ \A v \in Win : v \notin ToSet(s) => new[v] = fl[v]

LEMMA NewFlagsAre ==
  ASSUME NEW s \in Seq(Win), s # <<>>, NEW pl, NEW cd \in [Win -> SUBSET Condition],
         NEW fl \in [Win -> SUBSET Bits], NoWaits(fl)
  PROVE  Notes(NewFlags(s, pl, cd, fl), fl, s)
<1> DEFINE own == [i \in 1 .. Len(s) |-> Own(s, pl, cd, fl, s[i])]
           new == NewFlags(s, pl, cd, fl)
           Good(f, v) == /\ f \subseteq Bits /\ f \cap Waits = {}
                         /\ "nowindow" \in f => "nowindow" \in fl[v]
<1>1. ASSUME NEW v \in Win PROVE Good(Own(s, pl, cd, fl, v), v)
  <2>1. NewCondition(s, pl, v) \subseteq Condition
    BY DEF NewCondition, Condition
  <2>2. Good(Noted(s, pl, cd, fl, v), v)
    BY <2>1 DEF NoWaits, Noted, Condition, Bits, Waits
  <2> DEFINE f == Noted(s, pl, cd, fl, v)
  <2>3. Own(s, pl, cd, fl, v) = f \/ Own(s, pl, cd, fl, v) = f \cup {"dif"}
          \/ Own(s, pl, cd, fl, v) = f \cup {"must"}
    BY DEF Own
  <2> HIDE DEF f
  <2> QED BY <2>2, <2>3 DEF f, Bits, Waits
<1>2. ASSUME NEW v \in Win, v \in ToSet(s) PROVE Good(new[v], v)
  <2>1. At(s, v) \in 1 .. Len(s) /\ s[At(s, v)] = v
    BY <1>2, PlaceOf
  <2>2. own[At(s, v)] = Own(s, pl, cd, fl, v)
    BY <2>1
  <2>3. Good(own[At(s, v)], v)
    BY <1>1, <2>2
  <2>4. new[v] = own[At(s, v)] \cup (IF Spread(s, own, pl, At(s, v)) THEN {"must"} ELSE {})
    BY <1>2 DEF NewFlags
  <2> HIDE DEF own
  <2>5. new[v] = own[At(s, v)] \/ new[v] = own[At(s, v)] \cup {"must"}
    BY <2>4
  <2> HIDE DEF new
  <2> QED BY <2>3, <2>5 DEF Bits, Waits
<1>3. \A v \in Win : v \notin ToSet(s) => new[v] = fl[v]
  BY DEF NewFlags
<1>4. new = [v \in Win |-> new[v]]
  BY DEF NewFlags
<1> HIDE DEF new
<1>5. ASSUME NEW v \in Win PROVE Good(new[v], v)
  <2>1. CASE v \in ToSet(s)
    BY <1>2, <2>1
  <2>2. CASE v \notin ToSet(s)
    BY <1>3, <2>2 DEF NoWaits
  <2> QED BY <2>1, <2>2
<1>6. new \in [Win -> SUBSET Bits]
  BY <1>4, <1>5
<1> QED BY <1>3, <1>5, <1>6 DEF new, Notes, NoWaits

(* What the loop of job_general2 does when no answer is owed: it ends the  *)
(* job, or has one window redrawn and notes the answers it owes.           *)
Redraws(fl, box, j) ==
  /\ condition' \in [Win -> SUBSET Condition]
  /\ job_flag0' \in [Win -> SUBSET Bits]
  /\ toTask' \in [Win -> Seq(Orders)]
  /\ job' \in Progress /\ job'.ready = j.ready /\ job'.func = "general2"
  /\ \A v \in Win :
       /\ \A sig \in {"close", "closed"} : Told(toTask'[v], sig) <=> Told(box[v], sig)
       /\ ToldOnce(box[v]) => ToldOnce(toTask'[v])
       /\ v \notin ToSet(stack') => toTask'[v] = box[v]
       /\ "nowindow" \in job_flag0'[v] => "nowindow" \in fl[v]
       /\ v \notin ToSet(stack') => job_flag0'[v] = fl[v]
       /\ \A k \in Kinds : AskedOnce(toTask'[v], k)
  /\ \/ /\ job'.now = "none" /\ job'.count = 0
        /\ \A v \in Win : /\ \A k \in Kinds : ~ Asked(toTask'[v], k)
                          /\ job_flag0'[v] \cap Waits = {}
     \/ /\ job'.now = j.now /\ job'.win \in ToSet(stack')
        /\ job_flag0'[job'.win] \subseteq Waits /\ "waitredraw" \in job_flag0'[job'.win]
        /\ job'.count = IF "waitdisable" \in job_flag0'[job'.win] THEN 2 ELSE 1
        /\ \A v \in Win :
             /\ Asked(toTask'[v], "drawn") <=> v = job'.win
             /\ Asked(toTask'[v], "stopped") <=>
                  v = job'.win /\ "waitdisable" \in job_flag0'[job'.win]
             /\ v # job'.win => job_flag0'[v] \cap Waits = {}

LEMMA RedrawFromRedraws ==
  ASSUME stack' \in Seq(Win), NEW from \in 0 .. Len(stack'),
         NEW cd \in [Win -> SUBSET Condition], NEW fl \in [Win -> SUBSET Bits],
         NEW box \in [Win -> Seq(Orders)], NEW j \in Progress,
         j.func = "general2", j.count = 0,
         \A v \in Win : fl[v] \cap Waits = {} /\ \A k \in Kinds : ~ Asked(box[v], k) /\ AskedOnce(box[v], k),
         RedrawFrom(from, cd, fl, box, j)
  PROVE  Redraws(fl, box, j)
<1> DEFINE s == stack'
           due == { k \in 1 .. from : fl[s[k]] \cap {"must", "dif"} # {} }
           at == IF due = {} THEN 0 ELSE Max(due)
           passed == { s[k] : k \in at + 1 .. from }
           e == Order("enable")
           freed == [v \in Win |-> IF v \in passed /\ {"override", "show"} \subseteq fl[v]
                                   THEN Append(box[v], e) ELSE box[v]]
           cleared == [v \in Win |-> IF v \in passed THEN {} ELSE fl[v]]
           w == s[at]
           freeze == fl[w] \cap {"override", "show"} = {}
<1>1. from \in Nat /\ Len(s) \in Nat /\ \A k \in 1 .. from : s[k] \in ToSet(s) /\ s[k] \in Win
  BY MembersOf
<1>2. at \in 0 .. from /\ (due # {} => at \in due)
  <2>1. due \subseteq 1 .. from
    OBVIOUS
  <2> HIDE DEF due
  <2>2. due # {} => Max(due) \in due
    BY <1>1, <2>1, MaxIsMember
  <2>3. CASE due = {}
    BY <1>1, <2>3
  <2>4. CASE due # {}
    <3>1. at = Max(due) /\ at \in due
      BY <2>2, <2>4
    <3> HIDE DEF at
    <3>2. at \in 1 .. from
      BY <2>1, <3>1
    <3> QED BY <1>1, <2>4, <3>1, <3>2
  <2> QED BY <2>3, <2>4
<1>3. \A v \in passed : v \in ToSet(s)
  <2>1. \A k \in at + 1 .. from : k \in 1 .. from
    BY <1>1, <1>2
  <2> HIDE DEF at
  <2> QED BY <1>1, <2>1
<1>4. IF due = {}
      THEN /\ job' = [j EXCEPT !.now = "none"] /\ job_flag0' = cleared /\ condition' = cd
           /\ toTask' = freed
      ELSE /\ job' = [j EXCEPT !.win = w, !.count = (IF freeze THEN 1 ELSE @) + 1]
           /\ job_flag0' = [cleared EXCEPT ![w] = {"waitredraw"} \cup
                                               (IF freeze THEN {"waitdisable"} ELSE {})]
           /\ condition' = [cd EXCEPT ![w] = fl[w] \cap Condition]
           /\ toTask' = [freed EXCEPT ![w] = @ \o RedrawOrders(fl[w], cd[w])]
  BY DEF RedrawFrom
<1>5. due # {} => w \in ToSet(s) /\ w \in Win
  BY <1>1, <1>2
<1>6. e \in Orders /\ e.sig = "enable"
  BY DEF e, Order, Orders, Condition
<1> HIDE DEF e, passed, w, due, at
<1>7. ASSUME NEW v \in Win
      PROVE  /\ freed[v] \in Seq(Orders)
             /\ \A sig \in {"close", "closed"} : Told(freed[v], sig) <=> Told(box[v], sig)
             /\ ToldOnce(box[v]) => ToldOnce(freed[v])
             /\ v \notin ToSet(s) => freed[v] = box[v]
             /\ \A k \in Kinds : ~ Asked(freed[v], k) /\ AskedOnce(freed[v], k)
  <2>1. CASE freed[v] = box[v]
    BY <2>1
  <2>2. CASE freed[v] # box[v]
    <3>1. freed[v] = Append(box[v], e) /\ v \in ToSet(s)
      BY <1>3, <2>2
    <3>2. \A k \in Kinds : e.sig \notin Asking(k)
      BY <1>6 DEF Asking, Kinds
    <3>3. box[v] \in Seq(Orders)
      OBVIOUS
    <3> QED BY <1>6, <3>1, <3>2, <3>3, MailAdd
  <2> QED BY <2>1, <2>2
<1>8. freed \in [Win -> Seq(Orders)]
  BY <1>7
<1>9. /\ cleared \in [Win -> SUBSET Bits]
      /\ \A v \in Win : /\ cleared[v] \subseteq fl[v] /\ cleared[v] \cap Waits = {}
                        /\ v \notin ToSet(s) => cleared[v] = fl[v]
  BY <1>3
<1> HIDE DEF freed, cleared
<1>10. CASE due = {}
  <2>1. /\ job' = [j EXCEPT !.now = "none"] /\ job_flag0' = cleared /\ condition' = cd
        /\ toTask' = freed
    BY <1>4, <1>10
  <2>2. job' \in Progress /\ job'.ready = j.ready /\ job'.func = "general2" /\ job'.now = "none" /\ job'.count = 0
    BY <2>1 DEF Progress
  <2> QED BY <1>7, <1>8, <1>9, <2>1, <2>2 DEF Redraws
<1>11. CASE due # {}
  <2> DEFINE r == RedrawOrders(fl[w], cd[w])
             fz == IF freeze THEN {"waitdisable"} ELSE {}
  <2>1. /\ job' = [j EXCEPT !.win = w, !.count = (IF freeze THEN 1 ELSE @) + 1]
        /\ job_flag0' = [cleared EXCEPT ![w] = {"waitredraw"} \cup fz]
        /\ condition' = [cd EXCEPT ![w] = fl[w] \cap Condition]
        /\ toTask' = [freed EXCEPT ![w] = @ \o r]
    BY <1>4, <1>11
  <2>2. w \in ToSet(s) /\ w \in Win
    BY <1>5, <1>11
  <2>3. /\ r \in Seq(Orders)
        /\ \A sig \in {"close", "closed"} : ~ Told(r, sig)
        /\ Asked(r, "stopped") <=> freeze
        /\ Asked(r, "drawn")
        /\ \A k \in Kinds : AskedOnce(r, k)
    BY <2>2, RedrawAsks
  <2> HIDE DEF r
  <2>4. /\ job' \in Progress /\ job'.ready = j.ready /\ job'.func = "general2"
        /\ job'.now = j.now /\ job'.win = w /\ job'.count = IF freeze THEN 2 ELSE 1
    <3> DEFINE n == IF freeze THEN 2 ELSE 1
               a == [j EXCEPT !.win = w]
    <3> HIDE DEF freeze
    <3>1. job' = [a EXCEPT !.count = n]
      BY <2>1 DEF Progress
    <3>2. n \in Int
      OBVIOUS
    <3> HIDE DEF n
    <3>3. /\ a \in Progress /\ a.win = w /\ a.now = j.now /\ a.ready = j.ready
          /\ a.func = "general2"
      BY <2>2 DEF Progress
    <3> HIDE DEF a
    <3>4. /\ job' \in Progress /\ job'.ready = a.ready /\ job'.func = a.func
          /\ job'.now = a.now /\ job'.win = a.win /\ job'.count = n
      BY <3>1, <3>2, <3>3 DEF Progress
    <3> QED BY <3>3, <3>4 DEF n
  <2>5. condition' \in [Win -> SUBSET Condition]
    BY <2>1, <2>2
  <2>6. /\ job_flag0' \in [Win -> SUBSET Bits]
        /\ job_flag0'[w] = {"waitredraw"} \cup fz
        /\ \A v \in Win : v # w => job_flag0'[v] = cleared[v]
    BY <1>9, <2>1, <2>2 DEF Bits
  <2>7. job_flag0'[w] \subseteq Waits /\ "waitredraw" \in job_flag0'[w]
        /\ ("waitdisable" \in job_flag0'[w] <=> freeze) /\ "nowindow" \notin job_flag0'[w]
    BY <2>6 DEF Waits
  <2> HIDE DEF freeze, fz
  <2>8. \A v \in Win : toTask'[v] = IF v = w THEN freed[v] \o r ELSE freed[v]
    BY <1>8, <2>1
  <2>9. /\ freed[w] \o r \in Seq(Orders)
        /\ \A sig \in {"close", "closed"} : Told(freed[w] \o r, sig) <=> Told(box[w], sig)
        /\ ToldOnce(box[w]) => ToldOnce(freed[w] \o r)
        /\ Asked(freed[w] \o r, "drawn") /\ (Asked(freed[w] \o r, "stopped") <=> freeze)
        /\ \A k \in Kinds : AskedOnce(freed[w] \o r, k)
    BY <1>7, <1>8, <2>2, <2>3, MailConcat, MailLast DEF Kinds
  <2>10. toTask' \in [Win -> Seq(Orders)]
    <3>1. \A v \in Win : toTask'[v] \in Seq(Orders)
      BY <1>7, <2>8, <2>9
    <3>2. toTask' = [v \in Win |-> toTask'[v]]
      BY <1>8, <2>1
    <3> QED BY <3>1, <3>2
  <2>11. ASSUME NEW v \in Win
         PROVE  /\ \A sig \in {"close", "closed"} : Told(toTask'[v], sig) <=> Told(box[v], sig)
                /\ ToldOnce(box[v]) => ToldOnce(toTask'[v])
                /\ v \notin ToSet(s) => toTask'[v] = box[v]
                /\ "nowindow" \in job_flag0'[v] => "nowindow" \in fl[v]
                /\ v \notin ToSet(s) => job_flag0'[v] = fl[v]
                /\ \A k \in Kinds : AskedOnce(toTask'[v], k)
                /\ Asked(toTask'[v], "drawn") <=> v = w
                /\ Asked(toTask'[v], "stopped") <=> v = w /\ freeze
                /\ v # w => job_flag0'[v] \cap Waits = {}
    <3>1. CASE v = w
      BY <2>2, <2>7, <2>8, <2>9, <3>1
    <3>2. CASE v # w
      BY <1>7, <1>9, <2>6, <2>8, <3>2 DEF Kinds
    <3> QED BY <3>1, <3>2
  <2> QED BY <2>2, <2>4, <2>5, <2>6, <2>7, <2>10, <2>11 DEF Redraws
<1> QED BY <1>10, <1>11

LEMMA General1Redraws ==
  ASSUME stack' \in Seq(Win), stack' # <<>>,
         NEW cd \in [Win -> SUBSET Condition], NEW fl \in [Win -> SUBSET Bits],
         NEW box \in [Win -> Seq(Orders)], NEW j \in Progress,
         \A v \in Win : fl[v] \cap Waits = {} /\ \A k \in Kinds : ~ Asked(box[v], k) /\ AskedOnce(box[v], k),
         General1(cd, fl, box, j)
  PROVE  Redraws(fl, box, j)
<1> DEFINE i == [j EXCEPT !.func = "general2", !.count = 0, !.win = None]
           new == NewFlags(stack', place', cd, fl)
<1>1. RedrawFrom(Len(stack'), cd, new, box, i)
  BY DEF General1
<1>2. i \in Progress /\ i.func = "general2" /\ i.count = 0 /\ i.now = j.now /\ i.ready = j.ready
  <2> DEFINE a == [j EXCEPT !.func = "general2"]
             b == [a EXCEPT !.count = 0]
  <2>1. a \in Progress /\ a.func = "general2" /\ a.now = j.now /\ a.ready = j.ready
    BY DEF Progress
  <2>2. i = [b EXCEPT !.win = None]
    OBVIOUS
  <2> HIDE DEF a, i
  <2>3. b \in Progress /\ b.func = a.func /\ b.count = 0 /\ b.now = a.now /\ b.ready = a.ready
    <3>1. a \in Progress /\ 0 \in Int
      BY <2>1
    <3>2. b \in Progress
      BY <3>1 DEF Progress
    <3> QED BY <3>1 DEF Progress
  <2> HIDE DEF b
  <2>4. i \in Progress /\ i.func = b.func /\ i.count = b.count /\ i.now = b.now /\ i.ready = b.ready
    BY <2>2, <2>3 DEF Progress
  <2> QED BY <2>1, <2>3, <2>4
<1> HIDE DEF i
<1>3. /\ new \in [Win -> SUBSET Bits]
      /\ \A v \in Win : new[v] \cap Waits = {} /\ ("nowindow" \in new[v] => "nowindow" \in fl[v])
      /\ \A v \in Win : v \notin ToSet(stack') => new[v] = fl[v]
  <2> DEFINE pl == place'
             s == stack'
             m == NewFlags(s, pl, cd, fl)
  <2>1. s \in Seq(Win) /\ s # <<>> /\ NoWaits(fl)
    BY DEF NoWaits
  <2> HIDE DEF pl, s
  <2>2. Notes(m, fl, s)
    BY <2>1, NewFlagsAre
  <2> QED BY <2>2 DEF pl, s, Notes, NoWaits
<1> HIDE DEF new
<1>4. Len(stack') \in 0 .. Len(stack')
  OBVIOUS
<1>5. Redraws(new, box, i)
  BY <1>1, <1>2, <1>3, <1>4, RedrawFromRedraws
<1> QED BY <1>2, <1>3, <1>5 DEF Redraws
=============================================================================
