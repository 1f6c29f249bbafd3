-------------------------- MODULE TimerDaily_proofs --------------------------
(***************************************************************************)
(* The timer driver as it is used from day to day (DailySpec), with timers *)
(* set for less than a sixteenth of what a word counts: the chain is exact *)
(* in every state, and so GetNowTime tells the time and every timer rings  *)
(* at its tick, for any timers, periods, width of a word and number of     *)
(* ticks.                                                                  *)
(*                                                                         *)
(* The chain is looked at as two rows of numbers, with head in place 0:    *)
(* the times, and the interval behind each.                                *)
(***************************************************************************)
EXTENDS TimerDriver_proofs

Row(x, s, f) == [i \in 0 .. Len(s) - 1 |-> IF i = 0 THEN x ELSE f[s[i]]]

(* T: the times of head and m timers behind it, G: their intervals.        *)
Exact(T, G, m) ==
  /\ \A i, j \in 0 .. m : i <= j => T[i] <= T[j]
  /\ \A i \in 0 .. m - 1 : G[i] = T[i + 1] - T[i]
  /\ G[m] = Invalid

(* A timer for t is put behind place k.                                    *)
Inserted(T, G, m, k, t, U, H) ==
  /\ \A i \in 0 .. m + 1 :
       U[i] = IF i <= k THEN T[i] ELSE IF i = k + 1 THEN t ELSE T[i - 1]
  /\ \A i \in 0 .. m + 1 :
       H[i] = IF i < k THEN G[i]
              ELSE IF i = k THEN t - T[k]
              ELSE IF i = k + 1 THEN IF k = m THEN Invalid ELSE T[k + 1] - t
              ELSE G[i - 1]

LEMMA InsertKeepsExact ==
  ASSUME NEW m \in Nat, NEW T, \A i \in 0 .. m : T[i] \in Int, NEW G, Exact(T, G, m),
         NEW k \in 0 .. m, NEW t \in Int, T[k] <= t, k < m => t <= T[k + 1],
         NEW U, NEW H, Inserted(T, G, m, k, t, U, H)
  PROVE  Exact(U, H, m + 1)
<1> USE DEF Inserted
<1>0. /\ \A i, j \in 0 .. m : i <= j => T[i] <= T[j]
      /\ \A i \in 0 .. m - 1 : G[i] = T[i + 1] - T[i]
      /\ G[m] = Invalid
  BY DEF Exact
<1>1. ASSUME NEW i \in 0 .. m + 1, NEW j \in 0 .. m + 1, i <= j PROVE U[i] <= U[j]
  <2>1. CASE j <= k
    <3>1. U[i] = T[i] /\ U[j] = T[j] /\ i \in 0 .. m /\ j \in 0 .. m
      BY <1>1, <2>1
    <3> QED BY <1>0, <1>1, <3>1
  <2>2. CASE j = k + 1 /\ i <= k
    <3>1. U[i] = T[i] /\ U[j] = t /\ i \in 0 .. m /\ T[i] \in Int /\ T[k] \in Int
      BY <1>1, <2>2
    <3>2. T[i] <= T[k]
      BY <1>0, <2>2, <3>1
    <3> QED BY <3>1, <3>2
  <2>3. CASE j = k + 1 /\ i = k + 1
    <3>1. U[i] = t /\ U[j] = t
      BY <1>1, <2>3
    <3> QED BY <3>1
  <2>4. CASE j > k + 1 /\ i <= k
    <3>1. U[i] = T[i] /\ U[j] = T[j - 1] /\ i \in 0 .. m /\ j - 1 \in 0 .. m /\ i <= j - 1
      BY <1>1, <2>4
    <3> QED BY <1>0, <3>1
  <2>5. CASE j > k + 1 /\ i = k + 1
    <3>1. U[i] = t /\ U[j] = T[j - 1] /\ j - 1 \in 0 .. m /\ k + 1 \in 0 .. m /\ k + 1 <= j - 1
      BY <1>1, <2>5
    <3>2. T[k + 1] <= T[j - 1] /\ T[k + 1] \in Int /\ T[j - 1] \in Int
      BY <1>0, <3>1
    <3> QED BY <2>5, <3>1, <3>2
  <2>6. CASE j > k + 1 /\ i > k + 1
    <3>1. U[i] = T[i - 1] /\ U[j] = T[j - 1] /\ i - 1 \in 0 .. m /\ j - 1 \in 0 .. m /\ i - 1 <= j - 1
      BY <1>1, <2>6
    <3> QED BY <1>0, <3>1
  <2> QED BY <1>1, <2>1, <2>2, <2>3, <2>4, <2>5, <2>6
<1>2. ASSUME NEW i \in 0 .. (m + 1) - 1 PROVE H[i] = U[i + 1] - U[i]
  <2>0. i \in 0 .. m /\ i \in 0 .. m + 1 /\ i + 1 \in 0 .. m + 1
    OBVIOUS
  <2>1. CASE i < k
    <3>1. H[i] = G[i] /\ U[i] = T[i] /\ U[i + 1] = T[i + 1] /\ i \in 0 .. m - 1
      BY <2>0, <2>1
    <3> QED BY <1>0, <3>1
  <2>2. CASE i = k
    BY <2>0, <2>2
  <2>3. CASE i = k + 1
    <3>1. H[i] = T[k + 1] - t /\ U[i] = t /\ U[i + 1] = T[(i + 1) - 1] /\ (i + 1) - 1 = k + 1
      BY <2>0, <2>3
    <3> QED BY <3>1
  <2>4. CASE i > k + 1
    <3>1. H[i] = G[i - 1] /\ U[i] = T[i - 1] /\ U[i + 1] = T[(i + 1) - 1]
          /\ (i + 1) - 1 = (i - 1) + 1 /\ i - 1 \in 0 .. m - 1
      BY <2>0, <2>4
    <3> QED BY <1>0, <3>1
  <2> QED BY <2>0, <2>1, <2>2, <2>3, <2>4
<1>3. H[m + 1] = Invalid
  <2>1. CASE k = m
    BY <2>1
  <2>2. CASE k < m
    <3>1. H[m + 1] = G[(m + 1) - 1] /\ (m + 1) - 1 = m
      BY <2>2
    <3> QED BY <1>0, <3>1
  <2> QED BY <2>1, <2>2
<1> QED BY <1>1, <1>2, <1>3 DEF Exact

(* The timer in place k is taken out.                                      *)
Removed(T, G, m, k, U, H) ==
  /\ \A i \in 0 .. m - 1 : U[i] = IF i < k THEN T[i] ELSE T[i + 1]
  /\ \A i \in 0 .. m - 1 :
       H[i] = IF i < k - 1 THEN G[i]
              ELSE IF i = k - 1 THEN IF k = m THEN Invalid ELSE T[k + 1] - T[k - 1]
              ELSE G[i + 1]

LEMMA RemoveKeepsExact ==
  ASSUME NEW m \in Nat, NEW T, \A i \in 0 .. m : T[i] \in Int, NEW G, Exact(T, G, m),
         NEW k \in 1 .. m, NEW U, NEW H, Removed(T, G, m, k, U, H)
  PROVE  Exact(U, H, m - 1)
<1> USE DEF Removed
<1>0. /\ \A i, j \in 0 .. m : i <= j => T[i] <= T[j]
      /\ \A i \in 0 .. m - 1 : G[i] = T[i + 1] - T[i]
      /\ G[m] = Invalid
  BY DEF Exact
<1>1. ASSUME NEW i \in 0 .. m - 1, NEW j \in 0 .. m - 1, i <= j PROVE U[i] <= U[j]
  <2>1. i \in 0 .. m /\ j \in 0 .. m /\ i + 1 \in 0 .. m /\ j + 1 \in 0 .. m
    OBVIOUS
  <2>2. CASE i < k /\ j < k
    <3>1. U[i] = T[i] /\ U[j] = T[j]
      BY <2>2
    <3> QED BY <1>0, <1>1, <2>1, <3>1
  <2>3. CASE i < k /\ j >= k
    <3>1. U[i] = T[i] /\ U[j] = T[j + 1] /\ i <= j + 1
      BY <1>1, <2>3
    <3> QED BY <1>0, <2>1, <3>1
  <2>4. CASE i >= k
    <3>1. U[i] = T[i + 1] /\ U[j] = T[j + 1] /\ i + 1 <= j + 1
      BY <1>1, <2>4
    <3> QED BY <1>0, <2>1, <3>1
  <2> QED BY <1>1, <2>2, <2>3, <2>4
<1>2. ASSUME NEW i \in 0 .. (m - 1) - 1 PROVE H[i] = U[i + 1] - U[i]
  <2>0. i \in 0 .. m - 1 /\ i + 1 \in 0 .. m - 1
    OBVIOUS
  <2>1. CASE i < k - 1
    <3>1. H[i] = G[i] /\ U[i] = T[i] /\ U[i + 1] = T[i + 1]
      BY <2>0, <2>1
    <3> QED BY <1>0, <2>0, <3>1
  <2>2. CASE i = k - 1
    <3>1. H[i] = T[k + 1] - T[k - 1] /\ U[i] = T[i] /\ U[i + 1] = T[(i + 1) + 1]
          /\ (i + 1) + 1 = k + 1
      BY <2>0, <2>2
    <3> QED BY <2>2, <3>1
  <2>3. CASE i > k - 1
    <3>1. H[i] = G[i + 1] /\ U[i] = T[i + 1] /\ U[i + 1] = T[(i + 1) + 1]
      BY <2>0, <2>3
    <3> QED BY <1>0, <2>0, <3>1
  <2> QED BY <2>0, <2>1, <2>2, <2>3
<1>3. H[m - 1] = Invalid
  <2>1. CASE k = m
    BY <2>1
  <2>2. CASE k < m
    <3>1. m - 1 \in 0 .. m - 1 /\ ~(m - 1 < k - 1) /\ m - 1 # k - 1 /\ (m - 1) + 1 = m
      BY <2>2
    <3>2. H[m - 1] = G[(m - 1) + 1]
      BY <3>1
    <3> QED BY <1>0, <3>1, <3>2
  <2> QED BY <2>1, <2>2
<1> QED BY <1>1, <1>2, <1>3 DEF Exact

(* The clock is set to count up to t, not behind the first timer.          *)
Counts(T, G, m, t, U, H) ==
  /\ \A i \in 0 .. m : U[i] = IF i = 0 THEN t ELSE T[i]
  /\ \A i \in 0 .. m : H[i] = IF i > 0 THEN G[i] ELSE IF m = 0 THEN Invalid ELSE T[1] - t

LEMMA NewHeadKeepsExact ==
  ASSUME NEW m \in Nat, NEW T, \A i \in 0 .. m : T[i] \in Int, NEW G, Exact(T, G, m),
         NEW t \in Int, m > 0 => t <= T[1], NEW U, NEW H, Counts(T, G, m, t, U, H)
  PROVE  Exact(U, H, m)
<1> USE DEF Counts
<1>0. /\ \A i, j \in 0 .. m : i <= j => T[i] <= T[j]
      /\ \A i \in 0 .. m - 1 : G[i] = T[i + 1] - T[i]
      /\ G[m] = Invalid
  BY DEF Exact
<1>1. ASSUME NEW i \in 0 .. m, NEW j \in 0 .. m, i <= j PROVE U[i] <= U[j]
  <2>1. CASE i = 0 /\ j > 0
    <3>1. T[1] <= T[j] /\ T[1] \in Int /\ T[j] \in Int /\ t <= T[1]
      BY <1>0, <2>1
    <3> QED BY <2>1, <3>1
  <2>2. CASE i = 0 /\ j = 0
    BY <2>2
  <2>3. CASE i > 0
    BY <1>0, <1>1, <2>3
  <2> QED BY <1>1, <2>1, <2>2, <2>3
<1>2. ASSUME NEW i \in 0 .. m - 1 PROVE H[i] = U[i + 1] - U[i]
  BY <1>0
<1>3. H[m] = Invalid
  BY <1>0
<1> QED BY <1>1, <1>2, <1>3 DEF Exact

-----------------------------------------------------------------------------
(* The chain with head's time x and interval fr: the numbers in its places *)
(* are exact.                                                              *)
ChainExact(x, fr, ch, iv, tm) == Exact(Row(x, ch, tm), Row(fr, ch, iv), Len(ch) - 1)

(* What the rows of a chain hold.                                          *)
IsTimes(tm)     == tm \in [Node \cup {last} -> Int]
IsIntervals(iv) == iv \in [Node \cup {last} -> Words]
IsNodes(ch) ==
  /\ ch \in Seq(Node \cup {last}) /\ Len(ch) > 0 /\ ch[Len(ch)] = last /\ Distinct(ch)

LEMMA RowOfChain ==
  ASSUME NEW x, NEW ch, NEW f, ch \in Seq(Node \cup {last}), Len(ch) > 0
  PROVE  /\ Len(ch) - 1 \in Nat
         /\ Row(x, ch, f)[0] = x
         /\ \A i \in 1 .. Len(ch) - 1 : Row(x, ch, f)[i] = f[ch[i]]
         /\ \A i \in 1 .. Len(ch) - 1 : ch[i] \in Node \cup {last}
<1>1. Len(ch) \in Nat
  OBVIOUS
<1>2. 0 \in 0 .. Len(ch) - 1
  BY <1>1
<1>3. \A i \in 0 .. Len(ch) - 1 : Row(x, ch, f)[i] = IF i = 0 THEN x ELSE f[ch[i]]
  BY DEF Row
<1> QED BY <1>1, <1>2, <1>3

LEMMA RowIsInt ==
  ASSUME NEW x \in Int, NEW ch, NEW tm, IsTimes(tm), ch \in Seq(Node \cup {last}), Len(ch) > 0
  PROVE  \A i \in 0 .. Len(ch) - 1 : Row(x, ch, tm)[i] \in Int
<1>1. ASSUME NEW i \in 0 .. Len(ch) - 1 PROVE Row(x, ch, tm)[i] \in Int
  <2>1. CASE i = 0
    BY <2>1, RowOfChain
  <2>2. CASE i # 0
    <3>1. i \in 1 .. Len(ch) - 1
      BY <2>2
    <3>2. Row(x, ch, tm)[i] = tm[ch[i]] /\ ch[i] \in Node \cup {last}
      BY <3>1, RowOfChain
    <3> QED BY <3>2 DEF IsTimes
  <2> QED BY <2>1, <2>2
<1> QED BY <1>1

(* The node n is put into place k + 1 of a chain, for t: that is its time, *)
(* its place is right, and two intervals change.                           *)
IsTimed(tm2, tm, n, t) ==
  tm2[n] = t /\ \A m \in Node \cup {last} : m # n => tm2[m] = tm[m]

IsBetween(x, ch, tm, k, t, before, after) ==
  /\ Row(x, ch, tm)[k] <= t
  /\ k < Len(ch) - 1 => t <= tm[ch[k + 1]]
  /\ before = t - Row(x, ch, tm)[k]
  /\ after = IF k = Len(ch) - 1 THEN Invalid ELSE tm[ch[k + 1]] - t

IsLinked(iv2, iv, ch, n, k, before, after) ==
  \A m \in Node \cup {last} :
    iv2[m] = IF m = n THEN after ELSE IF k > 0 /\ m = ch[k] THEN before ELSE iv[m]

LEMMA InsertedIsExact ==
  ASSUME NEW x \in Int, NEW fr, NEW ch, IsNodes(ch), NEW iv, NEW tm, IsTimes(tm),
         ChainExact(x, fr, ch, iv, tm),
         NEW n \in Node, ~In(ch, n), NEW k \in 0 .. Len(ch) - 1, NEW t \in Int,
         NEW tm2, IsTimed(tm2, tm, n, t),
         NEW before, NEW after, IsBetween(x, ch, tm, k, t, before, after),
         NEW iv2, IsLinked(iv2, iv, ch, n, k, before, after)
  PROVE  ChainExact(x, IF k = 0 THEN before ELSE fr, InsertAt(ch, k + 1, n), iv2, tm2)
<1> USE DEF IsTimed, IsBetween, IsLinked
<1> DEFINE m  == Len(ch) - 1
           r  == InsertAt(ch, k + 1, n)
           f2 == IF k = 0 THEN before ELSE fr
           T  == Row(x, ch, tm)
           G  == Row(fr, ch, iv)
           U  == Row(x, r, tm2)
           H  == Row(f2, r, iv2)
<1>1. /\ ch \in Seq(Node \cup {last}) /\ Len(ch) > 0 /\ Distinct(ch) /\ m \in Nat
      /\ k \in 0 .. Len(ch) /\ n \in Node \cup {last} /\ ~In(ch, n) /\ k \in 0 .. m
  BY DEF IsNodes
<1> HIDE DEF r
<1>2. /\ r \in Seq(Node \cup {last}) /\ Len(r) = Len(ch) + 1
      /\ \A i \in 1 .. Len(ch) + 1 :
           r[i] = IF i <= k THEN ch[i] ELSE IF i = k + 1 THEN n ELSE ch[i - 1]
      /\ Distinct(r)
      /\ \A e : In(r, e) <=> In(ch, e) \/ e = n
  BY <1>1, InsertedList DEF r
<1>3. Len(r) - 1 = m + 1 /\ Len(r) > 0 /\ m + 1 \in Nat
  BY <1>1, <1>2
<1>4. /\ T[0] = x
      /\ \A i \in 1 .. m : T[i] = tm[ch[i]] /\ ch[i] \in Node \cup {last}
      /\ G[0] = fr
      /\ \A i \in 1 .. m : G[i] = iv[ch[i]]
      /\ \A i \in 0 .. m : T[i] \in Int
  <2>1. T[0] = x /\ \A i \in 1 .. m : T[i] = tm[ch[i]] /\ ch[i] \in Node \cup {last}
    BY <1>1, RowOfChain
  <2>2. G[0] = fr /\ \A i \in 1 .. m : G[i] = iv[ch[i]]
    BY <1>1, RowOfChain
  <2>3. \A i \in 0 .. m : T[i] \in Int
    BY <1>1, RowIsInt
  <2> QED BY <2>1, <2>2, <2>3
<1>5. /\ U[0] = x
      /\ \A i \in 1 .. m + 1 : U[i] = tm2[r[i]]
      /\ H[0] = f2
      /\ \A i \in 1 .. m + 1 : H[i] = iv2[r[i]]
  <2>1. r \in Seq(Node \cup {last}) /\ Len(r) > 0
    BY <1>2, <1>3
  <2> HIDE DEF f2, m
  <2>2. U[0] = x /\ \A i \in 1 .. Len(r) - 1 : U[i] = tm2[r[i]]
    BY <2>1, RowOfChain
  <2>3. H[0] = f2 /\ \A i \in 1 .. Len(r) - 1 : H[i] = iv2[r[i]]
    BY <2>1, RowOfChain
  <2> QED BY <1>3, <2>2, <2>3
<1>6. \A i \in 1 .. m : ch[i] # n
  BY <1>1 DEF In
<1>7. \A i, j \in 1 .. m : ch[i] = ch[j] => i = j
  <2>1. \A i, j \in 1 .. Len(ch) : ch[i] = ch[j] => i = j
    BY <1>1 DEF Distinct
  <2>2. \A i \in 1 .. m : i \in 1 .. Len(ch)
    BY <1>1
  <2> HIDE DEF m
  <2> QED BY <2>1, <2>2
<1>8. Exact(T, G, m)
  BY DEF ChainExact
<1>9. /\ T[k] <= t /\ before = t - T[k]
      /\ k < m => t <= T[k + 1]
      /\ after = IF k = m THEN Invalid ELSE T[k + 1] - t
  BY <1>1, <1>4
<1>10. \A i \in 1 .. m + 1 :
         r[i] = IF i <= k THEN ch[i] ELSE IF i = k + 1 THEN n ELSE ch[i - 1]
  BY <1>1, <1>2
<1>0. m \in Nat /\ k \in 0 .. m
  BY <1>1
<1> HIDE DEF T, G, U, H, m
<1>11. ASSUME NEW i \in 0 .. m + 1
       PROVE  /\ U[i] = IF i <= k THEN T[i] ELSE IF i = k + 1 THEN t ELSE T[i - 1]
              /\ H[i] = IF i < k THEN G[i]
                        ELSE IF i = k THEN t - T[k]
                        ELSE IF i = k + 1 THEN IF k = m THEN Invalid ELSE T[k + 1] - t
                        ELSE G[i - 1]
  <2>1. CASE i = 0
    <3>1. U[i] = T[i] /\ i <= k
      BY <1>0, <1>4, <1>5, <2>1
    <3>2. i < k => H[i] = G[i]
      BY <1>4, <1>5, <2>1
    <3>3. i = k => H[i] = t - T[k]
      <4>1. i = k => H[i] = before
        BY <1>5, <2>1
      <4> QED BY <1>9, <4>1
    <3>4. U[i] = IF i <= k THEN T[i] ELSE IF i = k + 1 THEN t ELSE T[i - 1]
      BY <3>1
    <3> QED BY <1>0, <2>1, <3>1, <3>2, <3>3, <3>4
  <2>2. CASE i > 0 /\ i <= k
    <3>1. i \in 1 .. m /\ i \in 1 .. m + 1
      BY <1>0, <2>2
    <3>2. r[i] = ch[i] /\ ch[i] # n /\ ch[i] \in Node \cup {last}
      BY <1>4, <1>6, <1>10, <2>2, <3>1
    <3>3. U[i] = T[i]
      BY <1>4, <1>5, <3>1, <3>2
    <3>4. i < k => H[i] = G[i]
      <4> SUFFICES ASSUME i < k PROVE H[i] = G[i]
        OBVIOUS
      <4>1. k \in 1 .. m /\ k # i
        BY <1>0, <2>2
      <4>2. ch[i] # ch[k]
        BY <1>7, <3>1, <4>1
      <4>3. iv2[ch[i]] = iv[ch[i]]
        BY <3>2, <4>2
      <4> QED BY <1>4, <1>5, <3>1, <3>2, <4>3
    <3>5. i = k => H[i] = t - T[k]
      <4> SUFFICES ASSUME i = k PROVE H[i] = t - T[k]
        OBVIOUS
      <4>1. iv2[ch[i]] = before
        BY <1>0, <2>2, <3>2
      <4>2. H[i] = before
        BY <1>5, <3>1, <3>2, <4>1
      <4> QED BY <1>9, <4>2
    <3> QED BY <1>0, <2>2, <3>3, <3>4, <3>5
  <2>3. CASE i = k + 1
    <3>1. i \in 1 .. m + 1 /\ ~(i <= k)
      BY <1>0, <2>3
    <3>2. r[i] = n
      BY <1>10, <2>3, <3>1
    <3>3. U[i] = t /\ H[i] = after
      BY <1>5, <3>1, <3>2
    <3> QED BY <1>0, <1>9, <2>3, <3>1, <3>3
  <2>4. CASE i > k + 1
    <3>1. i \in 1 .. m + 1 /\ i - 1 \in 1 .. m /\ ~(i <= k) /\ i # k + 1 /\ i - 1 # k
      BY <1>0, <2>4
    <3>2. r[i] = ch[i - 1] /\ ch[i - 1] # n /\ ch[i - 1] \in Node \cup {last}
      BY <1>4, <1>6, <1>10, <3>1
    <3>3. U[i] = T[i - 1]
      BY <1>4, <1>5, <3>1, <3>2
    <3>4. k > 0 => ch[i - 1] # ch[k]
      BY <1>0, <1>7, <3>1
    <3>5. iv2[ch[i - 1]] = iv[ch[i - 1]]
      BY <3>2, <3>4
    <3>6. H[i] = G[i - 1]
      BY <1>4, <1>5, <3>1, <3>2, <3>5
    <3> QED BY <1>0, <2>4, <3>1, <3>3, <3>6
  <2> QED BY <1>0, <2>1, <2>2, <2>3, <2>4
<1>12. Inserted(T, G, m, k, t, U, H)
  BY <1>11 DEF Inserted
<1>13. Exact(U, H, m + 1)
  <2>1. \A i \in 0 .. m : T[i] \in Int
    BY <1>4
  <2>2. T[k] <= t
    BY <1>9
  <2>3. k < m => t <= T[k + 1]
    BY <1>9
  <2> HIDE DEF f2
  <2> QED BY <1>0, <1>8, <1>12, <2>1, <2>2, <2>3, InsertKeepsExact
<1> QED BY <1>3, <1>13 DEF ChainExact, U, H, r

(* The node in place k is taken out, and the interval before it joined     *)
(* with its own.                                                           *)
IsJoin(x, ch, tm, k, join) ==
  join = IF k = Len(ch) - 1 THEN Invalid ELSE tm[ch[k + 1]] - Row(x, ch, tm)[k - 1]

IsJoined(iv2, iv, ch, k, join) ==
  \A m \in Node \cup {last} : iv2[m] = IF k > 1 /\ m = ch[k - 1] THEN join ELSE iv[m]

LEMMA RemovedIsExact ==
  ASSUME NEW x \in Int, NEW fr, NEW ch, IsNodes(ch), NEW iv, NEW tm, IsTimes(tm),
         ChainExact(x, fr, ch, iv, tm), NEW k \in 1 .. Len(ch) - 1,
         NEW join, IsJoin(x, ch, tm, k, join),
         NEW iv2, IsJoined(iv2, iv, ch, k, join)
  PROVE  ChainExact(x, IF k = 1 THEN join ELSE fr, RemoveAt(ch, k), iv2, tm)
<1> USE DEF IsJoin, IsJoined
<1> DEFINE m  == Len(ch) - 1
           r  == RemoveAt(ch, k)
           f2 == IF k = 1 THEN join ELSE fr
           T  == Row(x, ch, tm)
           G  == Row(fr, ch, iv)
           U  == Row(x, r, tm)
           H  == Row(f2, r, iv2)
<1>1. /\ ch \in Seq(Node \cup {last}) /\ Len(ch) > 0 /\ Distinct(ch) /\ m \in Nat
      /\ k \in 1 .. Len(ch) /\ k \in 1 .. m
  BY DEF IsNodes
<1> HIDE DEF r
<1>2. /\ r \in Seq(Node \cup {last}) /\ Len(r) = Len(ch) - 1
      /\ \A i \in 1 .. Len(ch) - 1 : r[i] = IF i < k THEN ch[i] ELSE ch[i + 1]
  <2>1. LET q == RemoveAt(ch, k) IN
        /\ q \in Seq(Node \cup {last}) /\ Len(q) = Len(ch) - 1
        /\ \A i \in 1 .. Len(ch) - 1 : q[i] = IF i < k THEN ch[i] ELSE ch[i + 1]
    BY <1>1, RemoveAtPlace
  <2> QED BY <2>1 DEF r
<1>3. Len(r) - 1 = m - 1 /\ Len(r) > 0 /\ m - 1 \in Nat
  BY <1>1, <1>2
<1>4. /\ T[0] = x
      /\ \A i \in 1 .. m : T[i] = tm[ch[i]] /\ ch[i] \in Node \cup {last}
      /\ G[0] = fr
      /\ \A i \in 1 .. m : G[i] = iv[ch[i]]
      /\ \A i \in 0 .. m : T[i] \in Int
  <2>1. T[0] = x /\ \A i \in 1 .. m : T[i] = tm[ch[i]] /\ ch[i] \in Node \cup {last}
    BY <1>1, RowOfChain
  <2>2. G[0] = fr /\ \A i \in 1 .. m : G[i] = iv[ch[i]]
    BY <1>1, RowOfChain
  <2>3. \A i \in 0 .. m : T[i] \in Int
    BY <1>1, RowIsInt
  <2> QED BY <2>1, <2>2, <2>3
<1>5. /\ U[0] = x
      /\ \A i \in 1 .. m - 1 : U[i] = tm[r[i]]
      /\ H[0] = f2
      /\ \A i \in 1 .. m - 1 : H[i] = iv2[r[i]]
  <2>1. r \in Seq(Node \cup {last}) /\ Len(r) > 0
    BY <1>2, <1>3
  <2> HIDE DEF f2, m
  <2>2. U[0] = x /\ \A i \in 1 .. Len(r) - 1 : U[i] = tm[r[i]]
    BY <2>1, RowOfChain
  <2>3. H[0] = f2 /\ \A i \in 1 .. Len(r) - 1 : H[i] = iv2[r[i]]
    BY <2>1, RowOfChain
  <2> QED BY <1>3, <2>2, <2>3
<1>6. \A i, j \in 1 .. m : ch[i] = ch[j] => i = j
  BY <1>1 DEF Distinct
<1>7. Exact(T, G, m)
  BY DEF ChainExact
<1>8. join = IF k = m THEN Invalid ELSE T[k + 1] - T[k - 1]
  BY <1>1, <1>4
<1>9. \A i \in 1 .. m : r[i] = IF i < k THEN ch[i] ELSE ch[i + 1]
  BY <1>1, <1>2
<1>0. m \in Nat /\ k \in 1 .. m
  BY <1>1
<1> HIDE DEF T, G, U, H, m
<1>10. ASSUME NEW i \in 0 .. m - 1
       PROVE  /\ U[i] = IF i < k THEN T[i] ELSE T[i + 1]
              /\ H[i] = IF i < k - 1 THEN G[i]
                        ELSE IF i = k - 1 THEN IF k = m THEN Invalid ELSE T[k + 1] - T[k - 1]
                        ELSE G[i + 1]
  <2>1. CASE i = 0
    <3>1. U[i] = T[i] /\ i < k
      BY <1>0, <1>4, <1>5, <2>1
    <3>2. i < k - 1 => H[i] = G[i]
      BY <1>0, <1>4, <1>5, <2>1
    <3>3. i = k - 1 => H[i] = join
      BY <1>0, <1>5, <2>1
    <3> QED BY <1>0, <1>8, <2>1, <3>1, <3>2, <3>3
  <2>2. CASE i > 0 /\ i < k
    <3>1. i \in 1 .. m /\ i \in 1 .. m - 1 /\ k - 1 \in 1 .. m /\ k > 1
      BY <1>0, <2>2
    <3>2. r[i] = ch[i] /\ ch[i] \in Node \cup {last}
      BY <1>4, <1>9, <2>2, <3>1
    <3>3. U[i] = T[i]
      BY <1>4, <1>5, <3>1, <3>2
    <3>4. i < k - 1 => H[i] = G[i]
      <4> SUFFICES ASSUME i < k - 1 PROVE H[i] = G[i]
        OBVIOUS
      <4>1. i # k - 1
        BY <1>0, <3>1
      <4>2. ch[i] # ch[k - 1]
        BY <1>6, <3>1, <4>1
      <4>3. iv2[ch[i]] = iv[ch[i]]
        BY <3>2, <4>2
      <4> QED BY <1>4, <1>5, <3>1, <3>2, <4>3
    <3>5. i = k - 1 => H[i] = join
      <4> SUFFICES ASSUME i = k - 1 PROVE H[i] = join
        OBVIOUS
      <4>1. iv2[ch[i]] = join
        BY <3>1, <3>2
      <4> QED BY <1>5, <3>1, <3>2, <4>1
    <3> QED BY <1>0, <1>8, <2>2, <3>3, <3>4, <3>5
  <2>3. CASE i >= k
    <3>1. /\ i \in 1 .. m /\ i \in 1 .. m - 1 /\ i + 1 \in 1 .. m /\ ~(i < k)
          /\ k > 1 => k - 1 \in 1 .. m /\ i + 1 # k - 1
      BY <1>0, <2>3
    <3>2. r[i] = ch[i + 1] /\ ch[i + 1] \in Node \cup {last}
      BY <1>4, <1>9, <3>1
    <3>3. U[i] = T[i + 1]
      BY <1>4, <1>5, <3>1, <3>2
    <3>4. k > 1 => ch[i + 1] # ch[k - 1]
      BY <1>6, <3>1
    <3>5. iv2[ch[i + 1]] = iv[ch[i + 1]]
      BY <3>2, <3>4
    <3>6. H[i] = G[i + 1]
      BY <1>4, <1>5, <3>1, <3>2, <3>5
    <3> QED BY <1>0, <2>3, <3>1, <3>3, <3>6
  <2> QED BY <1>0, <2>1, <2>2, <2>3
<1>11. Removed(T, G, m, k, U, H)
  BY <1>10 DEF Removed
<1>12. Exact(U, H, m - 1)
  <2>1. \A i \in 0 .. m : T[i] \in Int
    BY <1>4
  <2> HIDE DEF f2
  <2> QED BY <1>0, <1>7, <1>11, <2>1, RemoveKeepsExact
<1> QED BY <1>3, <1>12 DEF ChainExact, U, H, r

(* The clock counts up to y, and the first interval from there.            *)
LEMMA CountedIsExact ==
  ASSUME NEW x \in Int, NEW fr, NEW ch, IsNodes(ch), NEW iv, NEW tm, IsTimes(tm),
         ChainExact(x, fr, ch, iv, tm), NEW y \in Int, Len(ch) > 1 => y <= tm[ch[1]]
  PROVE  ChainExact(y, IF Len(ch) = 1 THEN Invalid ELSE tm[ch[1]] - y, ch, iv, tm)
<1> DEFINE m  == Len(ch) - 1
           f2 == IF Len(ch) = 1 THEN Invalid ELSE tm[ch[1]] - y
           T  == Row(x, ch, tm)
           G  == Row(fr, ch, iv)
           U  == Row(y, ch, tm)
           H  == Row(f2, ch, iv)
<1>1. ch \in Seq(Node \cup {last}) /\ Len(ch) > 0 /\ m \in Nat /\ Len(ch) \in Nat
  BY DEF IsNodes
<1> HIDE DEF f2
<1>2. T[0] = x /\ \A i \in 1 .. m : T[i] = tm[ch[i]]
  BY <1>1, RowOfChain
<1>3. G[0] = fr /\ \A i \in 1 .. m : G[i] = iv[ch[i]]
  BY <1>1, RowOfChain
<1>4. U[0] = y /\ \A i \in 1 .. m : U[i] = tm[ch[i]]
  BY <1>1, RowOfChain
<1>5. H[0] = f2 /\ \A i \in 1 .. m : H[i] = iv[ch[i]]
  BY <1>1, RowOfChain
<1>6. \A i \in 0 .. m : T[i] \in Int
  BY <1>1, RowIsInt
<1>7. Exact(T, G, m)
  BY DEF ChainExact
<1>0. m = Len(ch) - 1
  OBVIOUS
<1> HIDE DEF T, G, U, H, m
<1>8. f2 = (IF m = 0 THEN Invalid ELSE T[1] - y) /\ (m > 0 => y <= T[1])
  <2>1. CASE m = 0
    <3>1. Len(ch) = 1
      BY <1>1, <1>0, <2>1
    <3> QED BY <2>1, <3>1 DEF f2
  <2>2. CASE m # 0
    <3>1. T[1] = tm[ch[1]] /\ Len(ch) > 1 /\ Len(ch) # 1
      BY <1>1, <1>2, <1>0, <2>2
    <3>2. f2 = T[1] - y
      BY <3>1 DEF f2
    <3> QED BY <2>2, <3>1, <3>2
  <2> QED BY <2>1, <2>2
<1>9. Counts(T, G, m, y, U, H)
  BY <1>2, <1>3, <1>4, <1>5, <1>8 DEF Counts
<1>10. Exact(U, H, m)
  BY <1>1, <1>6, <1>7, <1>8, <1>9, NewHeadKeepsExact
<1> QED BY <1>10 DEF ChainExact, U, H, m, f2

-----------------------------------------------------------------------------
(* Subtracting intervals finds the same place as comparing times.          *)
Sums(B, G, m) == B[0] = 0 /\ \A i \in 1 .. m - 1 : B[i] = B[i - 1] + Unsigned(G[i])

Spans(T, m)   == \A i \in 1 .. m : T[i] < T[0] + Unit

Measures(B, T, m) == \A i \in 0 .. m - 1 : B[i] = T[i + 1] - T[1]

LEMMA SumOfIntervals ==
  ASSUME NEW m \in Nat, NEW T, \A i \in 0 .. m : T[i] \in Int, NEW G, Exact(T, G, m),
         Spans(T, m), NEW B, Sums(B, G, m)
  PROVE  Measures(B, T, m)
<1> USE DEF Sums, Spans, Measures
<1> DEFINE Bad == {i \in 0 .. m - 1 : B[i] # T[i + 1] - T[1]}
<1>1. SUFFICES ASSUME Bad # {} PROVE FALSE
  OBVIOUS
<1>2. PICK l \in Bad : \A i \in Bad : l <= i
  <2>1. Bad \subseteq Nat
    OBVIOUS
  <2> HIDE DEF Bad
  <2> QED BY <1>1, <2>1, Smallest
<1>3. l \in 0 .. m - 1 /\ B[l] # T[l + 1] - T[1]
  OBVIOUS
<1>4. l # 0
  <2>1. l = 0 => T[l + 1] = T[1] /\ T[1] \in Int
    BY <1>3
  <2> QED BY <1>3, <2>1
<1>5. l \in 1 .. m - 1 /\ l - 1 \in 0 .. m - 1 /\ l - 1 \notin Bad
  BY <1>2, <1>3, <1>4
<1>6. B[l - 1] = T[(l - 1) + 1] - T[1] /\ (l - 1) + 1 = l
  BY <1>5
<1>7. G[l] = T[l + 1] - T[l] /\ T[l] <= T[l + 1] /\ T[0] <= T[l] /\ T[l + 1] < T[0] + Unit
      /\ T[l] \in Int /\ T[l + 1] \in Int /\ T[0] \in Int /\ T[1] \in Int
  BY <1>5 DEF Exact
<1> HIDE DEF Bad
<1>8. G[l] \in 0 .. Longest
  BY <1>7, WordAssumption, WordFacts DEF Word
<1>9. Unsigned(G[l]) = G[l]
  BY <1>8, UnsignedOfWord
<1>10. B[l] = B[l - 1] + G[l]
  BY <1>5, <1>9
<1> QED BY <1>3, <1>6, <1>7, <1>10

LEMMA FirstOnes ==
  ASSUME NEW m \in Nat, NEW S, S \subseteq 0 .. m - 1,
         \A i \in S, j \in 0 .. m - 1 : j <= i => j \in S
  PROVE  Cardinality(S) \in 0 .. m /\ S = 0 .. Cardinality(S) - 1
<1> DEFINE Out == {i \in Nat : i \notin S}
<1>1. PICK l \in Out : \A i \in Out : l <= i
  <2>1. m \in Out
    OBVIOUS
  <2>2. Out \subseteq Nat
    OBVIOUS
  <2> HIDE DEF Out
  <2> QED BY <2>1, <2>2, Smallest
<1>2. l \in Nat /\ l \notin S /\ m \in Out
  OBVIOUS
<1>3. l <= m
  BY <1>1, <1>2
<1>4. S = 0 .. l - 1
  <2>1. ASSUME NEW i \in 0 .. l - 1 PROVE i \in S
    <3>1. i \in Nat /\ ~(l <= i)
      BY <1>2
    <3> QED BY <1>1, <3>1
  <2>2. ASSUME NEW i \in S PROVE i \in 0 .. l - 1
    <3>1. i \in 0 .. m - 1
      OBVIOUS
    <3>2. ~(l <= i)
      <4> SUFFICES ASSUME l <= i PROVE FALSE
        OBVIOUS
      <4>1. l \in 0 .. m - 1
        BY <1>2, <3>1
      <4> QED BY <1>2, <4>1
    <3> QED BY <1>2, <3>1, <3>2
  <2> QED BY <2>1, <2>2
<1> HIDE DEF Out
<1>5. Cardinality(0 .. l - 1) = l
  <2>1. 0 \in Int /\ l - 1 \in Int
    BY <1>2
  <2>2. Cardinality(0 .. l - 1) = IF 0 > l - 1 THEN 0 ELSE (l - 1) - 0 + 1
    BY <2>1, FS_Interval
  <2> QED BY <1>2, <2>2
<1> QED BY <1>2, <1>3, <1>4, <1>5

(* The place that insert finds for t.                                      *)
Found(x, first, B, m) ==
  IF x < 0 \/ first < Calculated THEN 0 ELSE Cardinality({i \in 0 .. m - 1 : B[i] <= x})

LEMMA FoundIsRight ==
  ASSUME NEW m \in Nat, NEW T, \A i \in 0 .. m : T[i] \in Int, NEW G, Exact(T, G, m),
         NEW B, Measures(B, T, m),
         NEW t \in Int, T[0] <= t, t < T[0] + Unit
  PROVE  LET x == t - T[0] - G[0]
             k == Found(x, G[0], B, m) IN
         /\ k \in 0 .. m
         /\ T[k] <= t
         /\ k < m => t <= T[k + 1]
         /\ k > 0 => Signed(x - B[k - 1]) = t - T[k]
<1> DEFINE x == t - T[0] - G[0]
           passed == {i \in 0 .. m - 1 : B[i] <= x}
           k == Found(x, G[0], B, m)
<1> USE DEF Measures
<1>1. CASE m = 0
  <2>1. G[0] = Invalid
    BY <1>1 DEF Exact
  <2>2. G[0] < Calculated
    BY <2>1, InvalidIsWord, WordAssumption
  <2>3. k = 0
    BY <2>2 DEF Found
  <2> QED BY <1>1, <2>3
<1>2. CASE m > 0
  <2>1. G[0] = T[1] - T[0] /\ T[0] <= T[1] /\ T[0] \in Int /\ T[1] \in Int
    BY <1>2 DEF Exact
  <2>2. x = t - T[1] /\ x \in Int /\ ~(G[0] < Calculated)
    BY <2>1, InvalidIsWord, WordAssumption
  <2>3. CASE x < 0
    <3>1. k = 0
      BY <2>3 DEF Found
    <3>2. t <= T[1]
      BY <2>1, <2>2, <2>3
    <3> QED BY <1>2, <3>1, <3>2
  <2>4. CASE x >= 0
    <3>1. k = Cardinality(passed)
      BY <2>2, <2>4 DEF Found
    <3>2. \A i \in 0 .. m - 1 : T[i + 1] \in Int /\ (i \in passed <=> T[i + 1] <= t)
      BY <2>1, <2>2
    <3>3. ASSUME NEW i \in passed, NEW j \in 0 .. m - 1, j <= i PROVE j \in passed
      <4>1. T[j + 1] <= T[i + 1]
        BY <3>3 DEF Exact
      <4> QED BY <3>2, <4>1
    <3>4. 0 \in passed /\ passed \subseteq 0 .. m - 1
      BY <1>2, <2>1, <2>2, <2>4, <3>2
    <3> HIDE DEF passed, k, x
    <3>5. k \in 0 .. m /\ passed = 0 .. k - 1
      BY <3>1, <3>3, <3>4, FirstOnes
    <3>6. k > 0
      BY <3>4, <3>5
    <3>7. k - 1 \in 0 .. m - 1 /\ k - 1 \in passed /\ (k - 1) + 1 = k
      BY <3>5, <3>6
    <3>8. T[k] <= t /\ T[k] \in Int
      BY <3>2, <3>7
    <3>9. k < m => t <= T[k + 1]
      <4> SUFFICES ASSUME k < m PROVE t <= T[k + 1]
        OBVIOUS
      <4>1. k \in 0 .. m - 1 /\ k \notin passed
        BY <3>5
      <4> QED BY <3>2, <4>1
    <3>10. Signed(x - B[k - 1]) = t - T[k]
      <4>1. B[k - 1] = T[k] - T[1]
        BY <3>7
      <4>2. x - B[k - 1] = t - T[k]
        BY <2>1, <2>2, <3>8, <4>1
      <4>3. T[0] <= T[k]
        BY <3>5 DEF Exact
      <4>4. t - T[k] \in Words
        BY <2>1, <3>8, <4>3, WordAssumption DEF Words, Half
      <4> QED BY <4>2, <4>4, SignedOfWord
    <3> QED BY <3>5, <3>8, <3>9, <3>10 DEF k, x
  <2> QED BY <2>2, <2>3, <2>4
<1> QED BY <1>1, <1>2

-----------------------------------------------------------------------------
(* TimerRegister.  No timer is set for more than a sixteenth of a word     *)
(* behind the time x that head has.                                        *)
Close(x, ch) == \A i \in 1 .. Len(ch) - 1 : time[ch[i]] < x + Unit

(* The chain c with its node n put in for t, in its place.                 *)
ExactlyIn(c, n, t, r) ==
  \E k \in 0 .. Len(c.chain) - 1, before, after \in Words :
    /\ r = Link(c, n, k, before, after)
    /\ IsBetween(c.head.time, c.chain, time, k, t, before, after)

IsExactChain(c) ==
  /\ IsChain(c) /\ IsNodes(c.chain)
  /\ ChainExact(c.head.time, c.head.interval, c.chain, c.interval, time)
  /\ Close(c.head.time, c.chain)

LEMMA LinkByIntervalIsRight ==
  ASSUME Typed, NEW c, IsExactChain(c), NEW n, NEW t \in Int,
         c.head.time <= t, t < c.head.time + Unit,
         time[last] - t >= Word
  PROVE  ExactlyIn(c, n, t, LinkByInterval(c, n, t))
<1> DEFINE m == Len(c.chain) - 1
           T == Row(c.head.time, c.chain, time)
           G == Row(c.head.interval, c.chain, c.interval)
           B == Behind(c)
           x == t - c.head.time - c.head.interval
           passed == {i \in 0 .. Len(c.chain) - 2 : B[i] <= x}
           k == IF x < 0 \/ c.head.interval < Calculated THEN 0 ELSE Cardinality(passed)
           before == IF k = 0 THEN t - c.head.time ELSE Signed(x - B[k - 1])
           old    == IF k = 0 THEN c.head.interval ELSE c.interval[c.chain[k]]
           next   == time[c.chain[k + 1]]
           after  == IF old < 0 THEN Interval(t, next) ELSE Signed(next - t)
<1>1. /\ c.chain \in Seq(Node \cup {last}) /\ Len(c.chain) > 0 /\ Len(c.chain) \in Nat
      /\ c.chain[Len(c.chain)] = last
      /\ m \in Nat /\ Len(c.chain) - 2 = m - 1 /\ Len(c.chain) = m + 1
      /\ c.head.time \in Int /\ IsTimes(time)
  <2>1. IsChain(c) /\ IsNodes(c.chain)
    BY DEF IsExactChain
  <2>2. /\ c.chain \in Seq(Node \cup {last}) /\ Len(c.chain) > 0
        /\ c.chain[Len(c.chain)] = last
    BY <2>1 DEF IsNodes
  <2>3. c.head.time \in Int /\ IsTimes(time)
    BY <2>1 DEF IsChain, IsHead, Typed, IsTimes
  <2> QED BY <2>2, <2>3
<1>2. T[0] = c.head.time /\ \A i \in 1 .. m : T[i] = time[c.chain[i]]
  BY <1>1, RowOfChain
<1>3. G[0] = c.head.interval /\ \A i \in 1 .. m : G[i] = c.interval[c.chain[i]]
  BY <1>1, RowOfChain
<1>4. \A i \in 0 .. m : T[i] \in Int
  BY <1>1, RowIsInt
<1>5. Exact(T, G, m)
  BY DEF IsExactChain, ChainExact
<1>6. \A i \in 1 .. m : T[i] < T[0] + Unit
  BY <1>2 DEF IsExactChain, Close
<1>7. B[0] = 0 /\ \A i \in 1 .. m - 1 : B[i] = B[i - 1] + Unsigned(G[i])
  <2>1. IsChain(c)
    BY DEF IsExactChain
  <2>2. \A i \in 1 .. m - 1 : i \in 1 .. Len(c.chain) /\ i \in 1 .. m
    BY <1>1
  <2> QED BY <1>3, <2>1, <2>2, BehindIsNat
<1> HIDE DEF T, G, B
<1>8. Measures(B, T, m)
  <2>1. m \in Nat
    BY <1>1
  <2>2. Sums(B, G, m)
    BY <1>7 DEF Sums
  <2>3. Spans(T, m)
    BY <1>6 DEF Spans
  <2> HIDE DEF m
  <2> QED BY <1>4, <1>5, <2>1, <2>2, <2>3, SumOfIntervals
<1>9. x = t - T[0] - G[0]
  BY <1>2, <1>3
<1>10. k = Found(x, G[0], B, m)
  BY <1>1, <1>3 DEF Found
<1> HIDE DEF k, x, passed
<1>11. /\ k \in 0 .. m
       /\ T[k] <= t
       /\ k < m => t <= T[k + 1]
       /\ k > 0 => Signed(x - B[k - 1]) = t - T[k]
  <2>1. T[0] <= t /\ t < T[0] + Unit
    BY <1>2
  <2>2. m \in Nat
    BY <1>1
  <2> DEFINE y == t - T[0] - G[0]
             l == Found(y, G[0], B, m)
  <2> HIDE DEF m
  <2>3. /\ l \in 0 .. m
        /\ T[l] <= t
        /\ l < m => t <= T[l + 1]
        /\ l > 0 => Signed(y - B[l - 1]) = t - T[l]
    BY <1>4, <1>5, <1>8, <2>1, <2>2, FoundIsRight
  <2>4. y = x /\ l = k
    BY <1>9, <1>10
  <2> HIDE DEF l, y
  <2> QED BY <2>3, <2>4
<1>12. T[k] \in Int /\ T[0] <= T[k] /\ T[0] \in Int
  BY <1>1, <1>4, <1>5, <1>11 DEF Exact
<1>13. before = t - T[k]
  BY <1>2, <1>11
<1>14. before \in Words
  BY <1>2, <1>11, <1>12, <1>13, WordAssumption DEF Words, Half
<1>15. old = G[k]
  <2>1. CASE k = 0
    BY <1>3, <2>1
  <2>2. CASE k # 0
    <3>1. k \in 1 .. m
      BY <1>11, <2>2
    <3> QED BY <1>3, <2>2, <3>1
  <2> QED BY <2>1, <2>2
<1>16. after = IF k = m THEN Invalid ELSE time[c.chain[k + 1]] - t
  <2>1. CASE k = m
    <3>1. next = time[last]
      BY <1>1, <2>1
    <3>2. old < 0
      BY <1>5, <1>15, <2>1, InvalidIsWord, WordAssumption DEF Exact
    <3>3. ~(time[last] - t < Word)
      BY <1>1, WordFacts DEF IsTimes
    <3>4. Interval(t, next) = Invalid
      BY <3>1, <3>3 DEF Interval
    <3> QED BY <2>1, <3>2, <3>4
  <2>2. CASE k < m
    <3>1. k \in 0 .. m - 1 /\ k + 1 \in 1 .. m
      BY <1>1, <1>11, <2>2
    <3>2. next = T[k + 1] /\ T[k + 1] \in Int
      BY <1>2, <1>4, <3>1
    <3>3. G[k] = T[k + 1] - T[k] /\ T[k] <= T[k + 1]
      BY <1>5, <3>1 DEF Exact
    <3>4. ~(old < 0)
      BY <1>12, <1>15, <3>2, <3>3
    <3>5. next - t \in Words
      <4>1. T[k + 1] < T[0] + Unit /\ t <= T[k + 1]
        BY <1>6, <1>11, <2>2, <3>1
      <4> HIDE DEF next
      <4>2. 0 <= next - t /\ next - t < Unit /\ next - t \in Int
        BY <1>11, <1>12, <3>2, <4>1, WordAssumption
      <4> QED BY <4>2, WordAssumption DEF Words, Half
    <3>6. Signed(next - t) = next - t
      BY <3>5, SignedOfWord
    <3> QED BY <2>2, <3>1, <3>4, <3>6
  <2> QED BY <1>1, <1>11, <2>1, <2>2
<1>17. after \in Words
  <2>1. time[c.chain[k + 1]] \in Int
    <3>1. k + 1 \in 1 .. Len(c.chain)
      BY <1>1, <1>11
    <3>2. c.chain[k + 1] \in Node \cup {last}
      BY <1>1, <3>1
    <3> QED BY <1>1, <3>2 DEF IsTimes
  <2>2. next - t \in Int /\ next \in Int
    BY <2>1
  <2> HIDE DEF next
  <2> QED BY <2>2, IntervalIsWord, SignedIsWord
<1>18. LinkByInterval(c, n, t) = Link(c, n, k, before, after)
  BY DEF LinkByInterval, k, passed, x, B
<1>19. k < m => t <= time[c.chain[k + 1]]
  <2> SUFFICES ASSUME k < m PROVE t <= time[c.chain[k + 1]]
    OBVIOUS
  <2>1. k + 1 \in 1 .. m
    BY <1>1, <1>11
  <2> QED BY <1>2, <1>11, <2>1
<1> HIDE DEF before, after
<1> QED BY <1>11, <1>13, <1>14, <1>16, <1>17, <1>18, <1>19 DEF ExactlyIn, IsBetween, T

(* Every timer is set for less than Horizon ahead, and last for never.     *)
Timely ==
  /\ now <= MaxTime
  /\ \A n \in Node : time[n] \in 0 .. now + Horizon - 1
  /\ time[last] = Never

LEMMA ChainIsClose ==
  ASSUME Horizon <= Unit, Typed, Timely, NEW ch, IsNodes(ch), NEW x \in Int, now <= x
  PROVE  Close(x, ch)
<1> SUFFICES ASSUME NEW i \in 1 .. Len(ch) - 1 PROVE time[ch[i]] < x + Unit
  BY DEF Close
<1>1. i \in 1 .. Len(ch) /\ Len(ch) \in 1 .. Len(ch) /\ i # Len(ch)
  BY DEF IsNodes
<1>2. ch[i] \in Node \cup {last} /\ ch[i] # last
  BY <1>1 DEF IsNodes, Distinct
<1>3. time[ch[i]] \in 0 .. now + Horizon - 1 /\ now \in Nat
  BY <1>2 DEF Timely, Typed
<1> QED BY <1>3, HorizonAssumption, WordAssumption, WordFacts

LEMMA LinkedNodes ==
  ASSUME Lists(chain, timeout, linked)
  PROVE  IsNodes(chain)
BY DEF Lists, IsNodes

(* The state is one in which the chain of TimerRegister is exact.          *)
LEMMA StateIsExactChain ==
  ASSUME Horizon <= Unit, Typed, Lists(chain, timeout, linked), Timely, now <= head.time,
         ChainExact(head.time, head.interval, chain, interval, time)
  PROVE  IsExactChain(Chain)
<1>1. IsNodes(chain) /\ head.time \in Int
  BY LinkedNodes DEF Typed, IsHead
<1>2. Close(head.time, chain)
  BY <1>1, ChainIsClose
<1> QED BY <1>1, <1>2, ChainIsChain DEF IsExactChain

(* GetTimeAndFixZero keeps it exact.                                       *)
LEMMA FixedIsExact ==
  ASSUME Horizon <= Unit, Typed, Lists(chain, timeout, linked), Timely,
         ChainExact(head.time, head.interval, chain, interval, time),
         head.time = now + longcounter, longcounter >= 1, ~IdleTooLong
  PROVE  IsExactChain(FixZero(Chain)) /\ FixZero(Chain).head.time = now + 1
<1> DEFINE r == FixZero(Chain)
           more == longcounter - 1
           sum == head.interval + Signed(more)
           m == Len(chain) - 1
           T == Row(head.time, chain, time)
           G == Row(head.interval, chain, interval)
           f2 == IF Len(chain) = 1 THEN Invalid ELSE time[chain[1]] - (now + 1)
<1>1. /\ IsNodes(chain) /\ head.time \in Int /\ head.interval \in Int /\ now \in Nat
      /\ longcounter \in 0 .. Longest /\ IsTimes(time)
  BY LinkedNodes, WordFacts DEF Typed, IsHead, IsTimes, Words
<1>2. /\ chain \in Seq(Node \cup {last}) /\ Len(chain) > 0 /\ Len(chain) \in Nat
  BY <1>1 DEF IsNodes
<1>3. Exact(T, G, m)
  BY DEF ChainExact
<1>4. /\ IsChain(r)
      /\ r.chain = chain /\ r.timeout = timeout /\ r.interval = interval
      /\ r.longcounter = 1
      /\ r.head.time = head.time - more
      /\ r.head.interval = IF Signed(more) < 0 \/ sum < 0 THEN Invalid ELSE Signed(sum)
  <2>1. IsChain(Chain) /\ Chain.head = head /\ Chain.longcounter = longcounter
        /\ Chain.chain = chain /\ Chain.timeout = timeout /\ Chain.interval = interval
    BY ChainIsChain
  <2> QED BY <2>1, FixZeroKeepsTime
<1> HIDE DEF r
<1>5. r.head.time = now + 1
  BY <1>1, <1>4, WordFacts
<1>6. Len(chain) > 1 =>
        /\ head.interval = time[chain[1]] - head.time
        /\ head.time <= time[chain[1]] /\ time[chain[1]] < now + Unit
        /\ time[chain[1]] \in Int
  <2> SUFFICES ASSUME Len(chain) > 1
               PROVE  /\ head.interval = time[chain[1]] - head.time
                      /\ head.time <= time[chain[1]] /\ time[chain[1]] < now + Unit
                      /\ time[chain[1]] \in Int
    OBVIOUS
  <2>1. 1 \in 1 .. m /\ 0 \in 0 .. m - 1 /\ 0 \in 0 .. m /\ 1 \in 0 .. m /\ m \in Nat
    BY <1>2
  <2>2. T[0] = head.time /\ T[1] = time[chain[1]] /\ chain[1] \in Node \cup {last}
    BY <1>2, <2>1, RowOfChain
  <2>3. G[0] = head.interval
    BY <1>2, RowOfChain
  <2> HIDE DEF T, G
  <2>4. G[0] = T[0 + 1] - T[0] /\ T[0] <= T[1]
    BY <1>3, <2>1 DEF Exact
  <2>5. Close(now, chain)
    BY <1>1, ChainIsClose
  <2>6. time[chain[1]] < now + Unit
    BY <2>1, <2>5 DEF Close
  <2>7. time[chain[1]] \in Int
    BY <1>1, <2>2 DEF IsTimes
  <2> QED BY <2>2, <2>3, <2>4, <2>6, <2>7
<1>7. r.head.interval = f2
  <2>1. CASE Len(chain) = 1
    <3>1. head.interval = Invalid
      <4>1. G[0] = Invalid
        BY <1>3, <2>1 DEF Exact
      <4>2. G[0] = head.interval
        BY <1>2, RowOfChain
      <4> QED BY <4>1, <4>2
    <3>2. head.interval < 0
      BY <3>1, InvalidIsWord, WordAssumption
    <3>3. sum < 0
      <4>1. Signed(more) \in Int
        BY <1>1, SignedIsWord, WordFacts DEF Words
      <4>2. ~(Signed(more) + head.interval >= 0)
        BY <3>2 DEF IdleTooLong
      <4> HIDE DEF more
      <4> QED BY <1>1, <4>1, <4>2
    <3> QED BY <1>4, <2>1, <3>3
  <2>2. CASE Len(chain) # 1
    <3>1. Len(chain) > 1
      <4> DEFINE l == Len(chain)
      <4>1. l \in Nat /\ l > 0 /\ l # 1
        BY <1>2, <2>2
      <4> HIDE DEF l
      <4>2. l > 1
        BY <4>1
      <4> QED BY <4>2 DEF l
    <3>2. more \in 0 .. Unit - 1
      <4>1. longcounter \in Int /\ now + longcounter < now + Unit
        <5>1. longcounter \in Int
          BY <1>1, WordFacts
        <5>2. head.time <= time[chain[1]] /\ time[chain[1]] < now + Unit
              /\ time[chain[1]] \in Int
          BY <1>6, <3>1
        <5> QED BY <1>1, <5>1, <5>2, WordAssumption
      <4> QED BY <1>1, <4>1, WordAssumption
    <3>3. more \in Words
      BY <3>2, WordAssumption DEF Words, Half
    <3>4. Signed(more) = more
      BY <3>3, SignedOfWord
    <3>5. sum = time[chain[1]] - (now + 1)
      BY <1>1, <1>6, <3>1, <3>4, WordFacts
    <3>6. sum \in 0 .. Unit - 1
      BY <1>1, <1>6, <3>1, <3>5, WordAssumption, WordFacts
    <3> HIDE DEF sum
    <3>7. sum \in Words
      BY <3>6, WordAssumption DEF Words, Half
    <3>8. Signed(sum) = sum
      BY <3>7, SignedOfWord
    <3>9. ~(Signed(more) < 0 \/ sum < 0)
      BY <3>2, <3>4, <3>6
    <3> QED BY <1>4, <2>2, <3>5, <3>8, <3>9
  <2> QED BY <2>1, <2>2
<1>8. ChainExact(now + 1, f2, chain, interval, time)
  <2>1. now + 1 \in Int
    BY <1>1
  <2>2. Len(chain) > 1 => now + 1 <= time[chain[1]]
    <3>1. longcounter \in Int /\ now + 1 <= head.time
      BY <1>1, WordFacts
    <3> QED BY <1>1, <1>6, <3>1
  <2> QED BY <1>1, <2>1, <2>2, CountedIsExact
<1>9. Close(now + 1, chain)
  BY <1>1, ChainIsClose
<1> HIDE DEF f2
<1> QED BY <1>1, <1>4, <1>5, <1>7, <1>8, <1>9 DEF IsExactChain, r

(* A node that is put in exactly: the chain is exact once it has its time. *)
LinkedExactly(r, n, t) ==
  \A tm : IsTimed(tm, time, n, t) => ChainExact(r.head.time, r.head.interval, r.chain, r.interval, tm)

LEMMA ExactlyInIsExact ==
  ASSUME Typed, NEW c, IsExactChain(c), NEW n \in Node, ~In(c.chain, n), NEW t \in Int,
         NEW r, ExactlyIn(c, n, t, r)
  PROVE  /\ r.timeout = c.timeout /\ r.head.time = c.head.time
         /\ r.longcounter = c.longcounter
         /\ LinkedExactly(r, n, t)
<1>1. /\ IsChain(c) /\ IsNodes(c.chain)
      /\ ChainExact(c.head.time, c.head.interval, c.chain, c.interval, time)
  BY DEF IsExactChain
<1>2. c.head.time \in Int /\ IsTimes(time)
  BY <1>1 DEF IsChain, IsHead, Typed, IsTimes
<1>3. PICK k \in 0 .. Len(c.chain) - 1, before \in Words, after \in Words :
        /\ r = Link(c, n, k, before, after)
        /\ IsBetween(c.head.time, c.chain, time, k, t, before, after)
  BY DEF ExactlyIn
<1>4. /\ r.head.time = c.head.time
      /\ r.head.interval = IF k = 0 THEN before ELSE c.head.interval
      /\ r.chain = InsertAt(c.chain, k + 1, n)
      /\ r.timeout = c.timeout
      /\ IsLinked(r.interval, c.interval, c.chain, n, k, before, after)
      /\ r.longcounter = c.longcounter
  <2>1. LET q == Link(c, n, k, before, after) IN
        /\ q.head.time = c.head.time
        /\ q.head.interval = IF k = 0 THEN before ELSE c.head.interval
        /\ q.chain = InsertAt(c.chain, k + 1, n)
        /\ q.timeout = c.timeout
        /\ \A m \in Node \cup {last} :
             q.interval[m] = IF m = n THEN after
                             ELSE IF k > 0 /\ m = c.chain[k] THEN before ELSE c.interval[m]
        /\ q.longcounter = c.longcounter
    BY <1>1, LinkIsInsert
  <2> QED BY <1>3, <2>1 DEF IsLinked
<1>5. ASSUME NEW tm, IsTimed(tm, time, n, t)
      PROVE  ChainExact(r.head.time, r.head.interval, r.chain, r.interval, tm)
  <2>1. ChainExact(c.head.time, IF k = 0 THEN before ELSE c.head.interval,
                   InsertAt(c.chain, k + 1, n), r.interval, tm)
    BY <1>1, <1>2, <1>3, <1>4, <1>5, InsertedIsExact
  <2> QED BY <1>4, <2>1
<1> QED BY <1>4, <1>5 DEF LinkedExactly

(* The interval of head is the mark, or small.                             *)
LEMMA HeadIntervalIsSmall ==
  ASSUME Typed, NEW c, IsExactChain(c)
  PROVE  c.head.interval = Invalid \/ c.head.interval \in 0 .. Unit - 1
<1> DEFINE m == Len(c.chain) - 1
           T == Row(c.head.time, c.chain, time)
           G == Row(c.head.interval, c.chain, c.interval)
<1>1. c.chain \in Seq(Node \cup {last}) /\ Len(c.chain) > 0 /\ m \in Nat
      /\ c.head.time \in Int /\ IsTimes(time)
  BY DEF IsExactChain, IsNodes, IsChain, IsHead, Typed, IsTimes
<1>2. G[0] = c.head.interval /\ T[0] = c.head.time
  BY <1>1, RowOfChain
<1>3. Exact(T, G, m)
  BY DEF IsExactChain, ChainExact
<1>4. \A i \in 0 .. m : T[i] \in Int
  BY <1>1, RowIsInt
<1>5. m > 0 => T[1] < T[0] + Unit
  <2>1. \A i \in 1 .. m : T[i] = time[c.chain[i]]
    BY <1>1, RowOfChain
  <2>2. \A i \in 1 .. m : time[c.chain[i]] < c.head.time + Unit
    BY DEF IsExactChain, Close
  <2> HIDE DEF T, m
  <2> QED BY <1>1, <1>2, <2>1, <2>2
<1>6. m \in Nat
  BY <1>1
<1> HIDE DEF T, G, m
<1>7. CASE m = 0
  BY <1>2, <1>3, <1>7 DEF Exact
<1>8. CASE m > 0
  <2>1. G[0] = T[1] - T[0] /\ T[0] <= T[1] /\ T[0] \in Int /\ T[1] \in Int
    BY <1>3, <1>4, <1>6, <1>8 DEF Exact
  <2> QED BY <1>2, <1>5, <1>8, <2>1, WordAssumption
<1> QED BY <1>6, <1>7, <1>8

(* What is true when a timer is registered: from a client, while the clock *)
(* counts, or while timers are called.                                     *)
Registers(n, t, handling) ==
  /\ Horizon <= Unit /\ Typed /\ Lists(chain, timeout, linked) /\ Timely
  /\ ChainExact(head.time, head.interval, chain, interval, time)
  /\ ~In(chain, n)
  /\ t \in 0 .. now + Horizon - 1
  /\ \/ handling = 1 /\ head.time = now
     \/ handling = 0 /\ head.time = now + longcounter /\ longcounter >= 1 /\ ~IdleTooLong

Registered(r, n, t, handling) ==
  /\ \/ /\ r.chain = chain /\ r.timeout = Append(timeout, n)
        /\ t < r.head.time
        /\ ChainExact(r.head.time, r.head.interval, r.chain, r.interval, time)
     \/ /\ r.timeout = timeout
        /\ r.head.time <= t
        /\ LinkedExactly(r, n, t)
  /\ \/ handling = 0 /\ r.head.time = now + 1 /\ r.longcounter = 1
     \/ /\ handling = 0 => head.time <= t
        /\ r.head.time = head.time /\ r.longcounter = longcounter

LEMMA RegisterIsExact ==
  ASSUME NEW n \in Node, NEW t, NEW handling, Registers(n, t, handling)
  PROVE  Registered(Register(n, t, handling), n, t, handling)
<1> DEFINE fixes == t < head.time /\ handling = 0
           c == IF fixes THEN FixZero(Chain) ELSE Chain
           d == t - c.head.time
           r == Register(n, t, handling)
<1> USE DEF Registers
<1>1. /\ Typed /\ t \in Int /\ now \in Nat /\ head.time \in Int /\ longcounter \in Int
      /\ Horizon \in Int /\ Horizon <= Unit /\ Unit \in Nat /\ Unit > 0
      /\ handling = 1 \/ handling = 0
  <2>1. now \in Nat /\ head.time \in Int
    BY DEF Typed, IsHead
  <2>2. longcounter \in Int
    BY WordFacts DEF Typed
  <2>3. Horizon \in Int /\ Unit \in Nat /\ Unit > 0
    BY HorizonAssumption, WordAssumption, WordFacts
  <2> QED BY <2>1, <2>2, <2>3
<1>2. /\ IsExactChain(c) /\ c.chain = chain /\ c.timeout = timeout
      /\ now <= c.head.time
      /\ \/ handling = 0 /\ c.head.time = now + 1 /\ c.longcounter = 1
         \/ /\ handling = 0 => head.time <= t
            /\ c.head.time = head.time /\ c.longcounter = longcounter
  <2>1. IsChain(Chain) /\ Chain.head = head /\ Chain.longcounter = longcounter
        /\ Chain.chain = chain /\ Chain.timeout = timeout
    BY ChainIsChain
  <2>2. CASE fixes
    <3>1. handling = 0 /\ head.time = now + longcounter /\ longcounter >= 1 /\ ~IdleTooLong
      BY <2>2
    <3>2. IsExactChain(FixZero(Chain)) /\ FixZero(Chain).head.time = now + 1
      BY <3>1, FixedIsExact
    <3>3. FixZero(Chain).chain = chain /\ FixZero(Chain).timeout = timeout
          /\ FixZero(Chain).longcounter = 1
      BY <2>1, FixZeroKeepsTime
    <3>4. c = FixZero(Chain)
      BY <2>2
    <3> HIDE DEF c, fixes
    <3> QED BY <1>1, <3>1, <3>2, <3>3, <3>4
  <2>3. CASE ~fixes
    <3>1. now <= head.time
      BY <1>1
    <3>2. IsExactChain(Chain)
      BY <3>1, StateIsExactChain
    <3>3. handling = 0 => head.time <= t
      BY <1>1, <2>3
    <3>4. c = Chain
      BY <2>3
    <3> HIDE DEF c, fixes
    <3> QED BY <2>1, <3>1, <3>2, <3>3, <3>4
  <2> QED BY <2>2, <2>3
<1>3. r = IF d < 0 THEN [c EXCEPT !.timeout = Append(@, n)]
          ELSE IF d >= Half \/ ~Fits(d - c.head.interval) THEN LinkByTime(c, n, t)
          ELSE LinkByInterval(c, n, t)
  BY DEF Register
<1> HIDE DEF c, r, fixes
<1>4. c.head.time \in Int /\ d \in Int
  <2>1. c.head.time \in Int
    BY <1>2 DEF IsExactChain, IsChain, IsHead
  <2> QED BY <1>1, <2>1
<1>5. CASE d < 0
  <2>1. r = [head |-> c.head, chain |-> c.chain, timeout |-> Append(c.timeout, n),
             interval |-> c.interval, longcounter |-> c.longcounter]
    BY <1>2, <1>3, <1>5 DEF IsExactChain, IsChain
  <2>2. ChainExact(c.head.time, c.head.interval, c.chain, c.interval, time)
    BY <1>2 DEF IsExactChain
  <2>3. t < c.head.time
    BY <1>1, <1>4, <1>5
  <2> QED BY <1>2, <2>1, <2>2, <2>3 DEF Registered, r
<1>6. CASE d >= 0
  <2>1. d < Unit /\ t < c.head.time + Unit /\ c.head.time <= t
    BY <1>1, <1>2, <1>4, <1>6
  <2>2. c.head.interval = Invalid \/ c.head.interval \in 0 .. Unit - 1
    BY <1>1, <1>2, HeadIntervalIsSmall
  <2>3. Fits(d - c.head.interval) /\ d < Half
    BY <1>1, <1>4, <1>6, <2>1, <2>2, InvalidIsWord DEF Fits, Half
  <2>4. r = LinkByInterval(c, n, t)
    <3>1. Half \in Int
      BY WordFacts
    <3> HIDE DEF d
    <3>2. ~(d < 0) /\ ~(d >= Half)
      BY <1>4, <1>6, <2>3, <3>1
    <3> QED BY <1>3, <2>3, <3>2
  <2>5. time[last] - t >= Word
    <3>1. time[last] = Never /\ now <= MaxTime /\ MaxTime \in Nat
      BY DelayAssumption DEF Timely
    <3> QED BY <1>1, <3>1, WordFacts DEF Word
  <2>6. ExactlyIn(c, n, t, r)
    BY <1>1, <1>2, <2>1, <2>4, <2>5, LinkByIntervalIsRight
  <2>7. ~In(c.chain, n)
    BY <1>2
  <2>8. /\ r.timeout = c.timeout /\ r.head.time = c.head.time
        /\ r.longcounter = c.longcounter
        /\ LinkedExactly(r, n, t)
    BY <1>1, <1>2, <2>6, <2>7, ExactlyInIsExact
  <2> QED BY <1>2, <2>1, <2>8 DEF Registered, r
<1> QED BY <1>4, <1>5, <1>6

-----------------------------------------------------------------------------
(* The invariant of the driver from day to day.  What holds of head and    *)
(* the counter depends on where the handler is: while the clock counts,    *)
(* head is as far ahead as the counter says; while the handler runs, it is *)
(* the current tick, and the interval up to the first timer is in the      *)
(* register EAX at first.                                                  *)
FirstInterval == IF pc = "check" THEN left ELSE head.interval

Counting ==
  /\ pc = "idle" => status = 0 /\ head.time = now + longcounter /\ longcounter >= 1
  /\ pc = "idle" /\ timeout # <<>> => longcounter = 1
  /\ pc # "idle" => head.time = now
  /\ pc = "check" => late = 0
  /\ pc \in {"call", "wait"} /\ Len(chain) > 1 => head.interval > 0
  /\ pc = "wait" => timeout = <<>>
  /\ \A n \in Node : In(timeout, n) => time[n] <= now

EInv ==
  /\ IInv
  /\ Timely
  /\ Counting
  /\ ChainExact(head.time, FirstInterval, chain, interval, time)

LEMMA EInvFacts ==
  ASSUME EInv
  PROVE  /\ Typed /\ Lists(chain, timeout, linked) /\ Timely /\ Counting
         /\ IsNodes(chain) /\ IsTimes(time)
         /\ chain \in Seq(Node \cup {last}) /\ Len(chain) \in Nat /\ Len(chain) > 0
         /\ timeout \in Seq(Node) /\ Distinct(timeout)
         /\ head.time \in Int /\ head.interval \in Int /\ longcounter \in Int
         /\ now \in Nat /\ left \in Int
<1>1. Typed /\ Lists(chain, timeout, linked) /\ Timely /\ Counting
  BY DEF EInv, IInv
<1>2. IsNodes(chain) /\ IsTimes(time)
  BY <1>1, LinkedNodes DEF Typed, IsTimes
<1>3. /\ chain \in Seq(Node \cup {last}) /\ Len(chain) \in Nat /\ Len(chain) > 0
      /\ timeout \in Seq(Node) /\ Distinct(timeout)
  BY <1>1 DEF Lists
<1>4. head.time \in Int /\ now \in Nat
  BY <1>1 DEF Typed, IsHead
<1>5. longcounter \in Int
  BY <1>1, WordFacts DEF Typed
<1>6. head.interval \in Int /\ left \in Int
  <2>1. head.interval \in Words /\ left \in Words
    BY <1>1 DEF Typed, IsHead
  <2> QED BY <2>1, WordFacts DEF Words
<1> QED BY <1>1, <1>2, <1>3, <1>4, <1>5, <1>6

LEMMA InAppended ==
  ASSUME NEW S, NEW s \in Seq(S), NEW n \in S, NEW m, In(Append(s, n), m)
  PROVE  In(s, m) \/ m = n
<1>1. PICK i \in 1 .. Len(Append(s, n)) : Append(s, n)[i] = m
  BY DEF In
<1>2. Len(Append(s, n)) = Len(s) + 1 /\ Len(s) \in Nat
  OBVIOUS
<1>3. CASE i = Len(s) + 1
  BY <1>1, <1>3
<1>4. CASE i \in 1 .. Len(s)
  BY <1>1, <1>4 DEF In
<1> QED BY <1>1, <1>2, <1>3, <1>4

LEMMA TailIsRemove ==
  ASSUME NEW S, NEW s \in Seq(S), s # <<>>
  PROVE  Tail(s) = RemoveAt(s, 1) /\ Head(s) = s[1] /\ 1 \in 1 .. Len(s)
<1>1. SubSeq(s, 1, 0) = <<>> /\ SubSeq(s, 2, Len(s)) = Tail(s)
  OBVIOUS
<1>2. RemoveAt(s, 1) = Tail(s)
  BY <1>1 DEF RemoveAt
<1> QED BY <1>2

(* A time of a node that is not in the chain does not matter to it.        *)
LEMMA TimeElsewhere ==
  ASSUME NEW x, NEW fr, NEW ch, IsNodes(ch), NEW iv, NEW tm, NEW tm2, NEW n, NEW t,
         IsTimed(tm2, tm, n, t), ~In(ch, n), ChainExact(x, fr, ch, iv, tm)
  PROVE  ChainExact(x, fr, ch, iv, tm2)
<1>1. ch \in Seq(Node \cup {last}) /\ Len(ch) \in Nat
  BY DEF IsNodes
<1>2. ASSUME NEW i \in 1 .. Len(ch) PROVE tm2[ch[i]] = tm[ch[i]]
  <2>1. ch[i] \in Node \cup {last} /\ ch[i] # n
    BY <1>1 DEF In
  <2> QED BY <2>1 DEF IsTimed
<1>3. Row(x, ch, tm2) = Row(x, ch, tm)
  <2>1. ASSUME NEW i \in 0 .. Len(ch) - 1
        PROVE  (IF i = 0 THEN x ELSE tm2[ch[i]]) = (IF i = 0 THEN x ELSE tm[ch[i]])
    <3>1. CASE i = 0
      BY <3>1
    <3>2. CASE i # 0
      <4>1. i \in 1 .. Len(ch)
        BY <1>1, <3>2
      <4> QED BY <1>2, <4>1
    <3> QED BY <3>1, <3>2
  <2> QED BY <2>1 DEF Row
<1> QED BY <1>3 DEF ChainExact

LEMMA InitEInv ==
  ASSUME Init
  PROVE  EInv
<1>1. IInv
  BY InitIInv
<1>2. Timely
  <2>1. Horizon \in Nat /\ Horizon > 0 /\ MaxTime \in Nat
    BY HorizonAssumption, DelayAssumption, WordFacts
  <2>2. \A n \in Node : time[n] = 0
    BY NodeAssumption DEF Init
  <2> QED BY <2>1, <2>2, NodeAssumption DEF Init, Timely
<1>3. Counting
  <2>1. ~\E n \in Node : In(timeout, n)
    BY DEF Init, In
  <2> QED BY <2>1 DEF Init, Counting
<1>4. ChainExact(head.time, FirstInterval, chain, interval, time)
  <2> DEFINE T == Row(head.time, chain, time)
             G == Row(FirstInterval, chain, interval)
  <2>1. chain \in Seq(Node \cup {last}) /\ Len(chain) = 1
    BY DEF Init
  <2>2. T[0] = 1 /\ G[0] = Invalid
    <3>1. T[0] = head.time /\ G[0] = FirstInterval
      BY <2>1, RowOfChain
    <3>2. head.time = 1 /\ FirstInterval = Invalid
      BY DEF Init, FirstInterval
    <3> HIDE DEF T, G
    <3> QED BY <3>1, <3>2
  <2> HIDE DEF T, G
  <2>3. Exact(T, G, 0)
    BY <2>2 DEF Exact
  <2> QED BY <2>1, <2>3 DEF ChainExact, T, G
<1> QED BY <1>1, <1>2, <1>3, <1>4 DEF EInv

LEMMA ClientsKeepEInv ==
  ASSUME EInv, NEW n \in Node, SetNowTimeNode(n) \/ (AddTimeNode(n) /\ Near(n))
  PROVE  EInv'
<1>1. /\ pc = "idle" /\ n \notin linked
      /\ UNCHANGED <<head, chain, timeout, interval, linked, longcounter, status, pc, left,
                     late, now>>
  BY DEF SetNowTimeNode, AddTimeNode
<1>2. /\ Typed /\ Lists(chain, timeout, linked) /\ Timely /\ Counting /\ IsNodes(chain)
      /\ head.time \in Int /\ longcounter \in Int /\ now \in Nat
  BY EInvFacts
<1>3. ~In(chain, n) /\ ~In(timeout, n)
  BY <1>1, <1>2 DEF Lists
<1>4. IsTimed(time', time, n, time'[n]) /\ time'[last] = time[last]
  <2>1. \E t : time' = [time EXCEPT ![n] = t]
    BY DEF SetNowTimeNode, AddTimeNode
  <2>2. time \in [Node \cup {last} -> Int]
    BY <1>2 DEF Typed
  <2> QED BY <2>1, <2>2, NodeAssumption DEF IsTimed
<1>5. Horizon \in Nat /\ Horizon > 0
  BY HorizonAssumption, WordFacts
<1>6. time'[n] \in 0 .. now + Horizon - 1
  <2>1. CASE SetNowTimeNode(n)
    <3>1. NowTime = now
      BY <1>1, <1>2 DEF NowTime, Counting
    <3>2. time'[n] = now
      BY <1>2, <2>1, <3>1 DEF SetNowTimeNode, Typed
    <3> QED BY <1>2, <1>5, <3>2
  <2>2. CASE AddTimeNode(n) /\ Near(n)
    <3>1. PICK d \in Delays : time' = [time EXCEPT ![n] = @ + d]
      BY <2>2 DEF AddTimeNode
    <3>2. time'[n] = time[n] + d
      BY <1>2, <3>1 DEF Typed
    <3>3. time[n] \in Nat /\ d \in Nat
      BY <1>2, <1>5, DelayAssumption DEF Timely
    <3>4. time'[n] < now + Horizon
      BY <2>2 DEF Near
    <3> QED BY <1>2, <1>5, <3>2, <3>3, <3>4
  <2> QED BY <2>1, <2>2
<1>7. IInv'
  BY ClientsKeepIInv DEF EInv
<1>8. Timely'
  BY <1>1, <1>2, <1>4, <1>6 DEF Timely, IsTimed
<1>9. Counting'
  <2>1. ASSUME NEW m \in Node, In(timeout, m) PROVE time'[m] <= now
    BY <1>2, <1>3, <1>4, <2>1 DEF IsTimed, Counting
  <2> QED BY <1>1, <1>2, <2>1 DEF Counting
<1>10. ChainExact(head.time, FirstInterval, chain, interval, time')
  BY <1>2, <1>3, <1>4, TimeElsewhere DEF EInv
<1> QED BY <1>1, <1>7, <1>8, <1>9, <1>10 DEF EInv, FirstInterval

LEMMA SetTimerKeepsEInv ==
  ASSUME Horizon <= Unit, EInv, ~IdleTooLong, NEW n \in Node, SetTimer(n)
  PROVE  /\ EInv'
         /\ In(timeout', n) <=> time[n] <= now
         /\ \A m \in Node : m # n => (In(timeout', m) <=> In(timeout, m))
<1> DEFINE r == Register(n, time[n], 0)
<1>1. /\ Typed /\ Lists(chain, timeout, linked) /\ Timely /\ Counting
      /\ now \in Nat /\ head.time \in Int /\ longcounter \in Int /\ timeout \in Seq(Node)
  BY EInvFacts
<1>2. pc = "idle" /\ n \notin linked /\ status = 0
  BY <1>1 DEF SetTimer, Counting
<1>3. head.time = now + longcounter /\ longcounter >= 1
  BY <1>1, <1>2 DEF Counting
<1>4. ~In(chain, n) /\ ~In(timeout, n)
  BY <1>1, <1>2 DEF Lists
<1>5. ChainExact(head.time, head.interval, chain, interval, time)
  BY <1>2 DEF EInv, FirstInterval
<1>6. time[n] \in 0 .. now + Horizon - 1 /\ time[n] \in Int
  <2>1. Horizon \in Int
    BY HorizonAssumption, WordFacts
  <2> QED BY <1>1, <2>1 DEF Timely
<1>7. Registers(n, time[n], 0)
  BY <1>1, <1>3, <1>4, <1>5, <1>6 DEF Registers
<1>8. Registered(r, n, time[n], 0)
  BY <1>7, RegisterIsExact
<1>9. /\ head' = r.head /\ chain' = r.chain /\ timeout' = r.timeout
      /\ interval' = r.interval /\ longcounter' = r.longcounter
      /\ UNCHANGED <<time, pc, left, late, now>> /\ status' = 0
  BY <1>2 DEF SetTimer, SetChain
<1> HIDE DEF r
<1>10. \/ r.head.time = now + 1 /\ r.longcounter = 1
       \/ head.time <= time[n] /\ r.head.time = head.time /\ r.longcounter = longcounter
  BY <1>8 DEF Registered
<1>11. head'.time = now' + longcounter' /\ longcounter' >= 1
  BY <1>1, <1>3, <1>9, <1>10
<1>12. IsTimed(time, time, n, time[n])
  BY DEF IsTimed
<1>13. /\ ChainExact(head'.time, head'.interval, chain', interval', time')
       /\ \/ time[n] < r.head.time /\ timeout' = Append(timeout, n)
          \/ r.head.time <= time[n] /\ timeout' = timeout
  BY <1>8, <1>9, <1>12 DEF Registered, LinkedExactly
<1>14. /\ In(timeout', n) <=> time[n] <= now
       /\ \A m \in Node : m # n => (In(timeout', m) <=> In(timeout, m))
       /\ timeout' # <<>> => longcounter' = 1
  <2>1. CASE time[n] < r.head.time /\ timeout' = Append(timeout, n)
    <3>1. r.head.time = now + 1 /\ r.longcounter = 1
      BY <1>1, <1>6, <1>10, <2>1
    <3>2. time[n] <= now
      BY <1>1, <1>6, <2>1, <3>1
    <3>3. In(timeout', n)
      <4>1. Len(timeout) + 1 \in 1 .. Len(timeout')
            /\ timeout'[Len(timeout) + 1] = n
        BY <1>1, <2>1
      <4> QED BY <4>1 DEF In
    <3>4. ASSUME NEW m \in Node, m # n PROVE In(timeout', m) <=> In(timeout, m)
      <4>1. In(timeout', m) => In(timeout, m)
        BY <1>1, <2>1, <3>4, InAppended
      <4>2. ASSUME NEW i \in 1 .. Len(timeout) PROVE i \in 1 .. Len(timeout')
                                                   /\ timeout'[i] = timeout[i]
        BY <1>1, <2>1
      <4> QED BY <4>1, <4>2 DEF In
    <3> QED BY <1>9, <3>1, <3>2, <3>3, <3>4
  <2>2. CASE r.head.time <= time[n] /\ timeout' = timeout
    <3>1. ~(time[n] <= now)
      BY <1>1, <1>3, <1>6, <1>10, <2>2
    <3>2. timeout # <<>> => longcounter = 1
      BY <1>1, <1>2 DEF Counting
    <3> QED BY <1>4, <1>9, <1>10, <2>2, <3>1, <3>2
  <2> QED BY <1>13, <2>1, <2>2
<1>15. Counting'
  <2>1. ASSUME NEW m \in Node, In(timeout', m) PROVE time[m] <= now
    BY <1>1, <1>14, <2>1 DEF Counting
  <2> QED BY <1>2, <1>9, <1>11, <1>14, <2>1 DEF Counting
<1>16. Timely'
  BY <1>1, <1>9 DEF Timely
<1>17. IInv'
  BY SetTimerKeepsIInv DEF EInv
<1> QED BY <1>2, <1>9, <1>13, <1>14, <1>15, <1>16, <1>17 DEF EInv, FirstInterval

LEMMA CancelTimerKeepsEInv ==
  ASSUME Horizon <= Unit, EInv, NEW n \in Node, CancelTimer(n)
  PROVE  /\ EInv'
         /\ \A m \in Node : In(timeout', m) <=> In(timeout, m) /\ m # n
<1>1. /\ Typed /\ Lists(chain, timeout, linked) /\ Timely /\ Counting
      /\ IsNodes(chain) /\ IsTimes(time)
      /\ chain \in Seq(Node \cup {last}) /\ Len(chain) \in Nat /\ Len(chain) > 0
      /\ timeout \in Seq(Node) /\ Distinct(timeout)
      /\ now \in Nat /\ head.time \in Int /\ longcounter \in Int
  BY EInvFacts
<1>2. /\ pc = "idle" /\ n \in linked
      /\ UNCHANGED <<time, longcounter, status, pc, left, late, now>>
  BY DEF CancelTimer
<1>3. head.time = now + longcounter /\ longcounter >= 1 /\ status = 0
  BY <1>1, <1>2 DEF Counting
<1>4. ChainExact(head.time, head.interval, chain, interval, time)
  BY <1>2 DEF EInv, FirstInterval
<1>5. IInv'
  BY CancelTimerKeepsIInv DEF EInv
<1>6. Timely'
  BY <1>1, <1>2 DEF Timely
<1>7. CASE n \in Range(timeout)
  <2> DEFINE k == Place(timeout, n)
  <2>1. timeout' = RemoveAt(timeout, k) /\ UNCHANGED <<head, chain, interval>>
    BY <1>7 DEF CancelTimer
  <2>2. k \in 1 .. Len(timeout) /\ timeout[k] = n
    BY <1>1, <1>7, RangeIsIn, PlaceIsThere
  <2> HIDE DEF k
  <2>3. \A m : In(timeout', m) <=> In(timeout, m) /\ m # n
    BY <1>1, <2>1, <2>2, RemovedList
  <2>4. timeout # <<>>
    BY <1>1, <2>2
  <2>5. longcounter = 1
    BY <1>1, <1>2, <2>4 DEF Counting
  <2>6. Counting'
    BY <1>1, <1>2, <1>3, <2>1, <2>3, <2>5 DEF Counting
  <2>7. ChainExact(head'.time, FirstInterval', chain', interval', time')
    BY <1>2, <1>4, <2>1 DEF FirstInterval
  <2> QED BY <1>5, <1>6, <2>3, <2>6, <2>7 DEF EInv
<1>8. CASE n \notin Range(timeout)
  <2> DEFINE k == Place(chain, n)
             m == Len(chain) - 1
             T == Row(head.time, chain, time)
             G == Row(head.interval, chain, interval)
             join == Joined(interval[n], IF k = 1 THEN head.interval ELSE interval[chain[k - 1]])
  <2>1. /\ chain' = RemoveAt(chain, k) /\ timeout' = timeout
        /\ IF k = 1
           THEN /\ head' = [head EXCEPT !.interval = Joined(interval[n], @)]
                /\ UNCHANGED interval
           ELSE /\ interval' = [interval EXCEPT ![chain[k - 1]] = Joined(interval[n], @)]
                /\ UNCHANGED head
    BY <1>8 DEF CancelTimer
  <2>2. ~In(timeout, n) /\ In(chain, n)
    BY <1>1, <1>2, <1>8, RangeIsIn DEF Lists
  <2>3. k \in 1 .. Len(chain) /\ chain[k] = n
    BY <1>1, <2>2, PlaceIsThere
  <2> HIDE DEF k
  <2>4. k \in 1 .. m /\ m \in Nat
    <3>1. chain[Len(chain)] = last /\ n # last
      BY <1>1, NodeAssumption DEF Lists
    <3>2. k # Len(chain)
      BY <2>3, <3>1
    <3> QED BY <1>1, <2>3, <3>2
  <2>5. T[0] = head.time /\ \A i \in 1 .. m : T[i] = time[chain[i]]
    BY <1>1, RowOfChain
  <2>6. G[0] = head.interval /\ \A i \in 1 .. m : G[i] = interval[chain[i]]
    BY <1>1, RowOfChain
  <2>7. \A i \in 0 .. m : T[i] \in Int
    BY <1>1, RowIsInt
  <2>8. Exact(T, G, m)
    BY <1>4 DEF ChainExact
  <2>9. \A i \in 1 .. m : T[i] < now + Unit
    <3>1. Close(now, chain)
      BY <1>1, ChainIsClose
    <3> QED BY <2>5, <3>1 DEF Close
  <2> HIDE DEF T, G
  <2>10. join = Joined(G[k], G[k - 1])
    <3>1. G[k] = interval[n]
      BY <2>3, <2>4, <2>6
    <3>2. G[k - 1] = IF k = 1 THEN head.interval ELSE interval[chain[k - 1]]
      <4>1. CASE k = 1
        BY <2>6, <4>1
      <4>2. CASE k # 1
        <5>1. k - 1 \in 1 .. m
          BY <2>4, <4>2
        <5> QED BY <2>6, <4>2, <5>1
      <4> QED BY <4>1, <4>2
    <3> QED BY <3>1, <3>2
  <2> HIDE DEF m
  <2>11. join = IF k = m THEN Invalid ELSE T[k + 1] - T[k - 1]
    <3>1. CASE k = m
      <4>1. G[k] = Invalid /\ Invalid < 0
        BY <2>8, <3>1, InvalidIsWord, WordAssumption DEF Exact
      <4> QED BY <2>10, <3>1, <4>1 DEF Joined
    <3>2. CASE k < m
      <4>1. k \in 0 .. m - 1 /\ k - 1 \in 0 .. m - 1 /\ k + 1 \in 0 .. m
            /\ k - 1 \in 0 .. m /\ 0 \in 0 .. m /\ k \in 0 .. m /\ (k - 1) + 1 = k
            /\ k + 1 \in 1 .. m
        BY <2>4, <3>2
      <4>2. G[k] = T[k + 1] - T[k] /\ G[k - 1] = T[k] - T[k - 1]
        BY <2>8, <4>1 DEF Exact
      <4>3. T[k] <= T[k + 1] /\ T[k - 1] <= T[k] /\ T[0] <= T[k - 1]
        BY <2>4, <2>8, <4>1 DEF Exact
      <4>4. T[k] \in Int /\ T[k + 1] \in Int /\ T[k - 1] \in Int /\ T[0] \in Int
        BY <2>7, <4>1
      <4>5. T[k + 1] < now + Unit /\ now <= T[0]
        BY <1>1, <1>3, <2>5, <2>9, <4>1
      <4>6. G[k] >= 0 /\ G[k - 1] >= 0 /\ G[k] + G[k - 1] = T[k + 1] - T[k - 1]
            /\ T[k + 1] - T[k - 1] \in 0 .. Unit - 1
        <5>1. ASSUME NEW p \in Int, NEW q \in Int, NEW r \in Int, NEW s \in Int,
                     s <= p, p <= q, q <= r, r < now + Unit, now <= s
              PROVE  /\ r - q >= 0 /\ q - p >= 0 /\ (r - q) + (q - p) = r - p
                     /\ r - p \in 0 .. Unit - 1
          BY <1>1, <5>1, WordAssumption
        <5>2. /\ T[k + 1] - T[k] >= 0 /\ T[k] - T[k - 1] >= 0
              /\ (T[k + 1] - T[k]) + (T[k] - T[k - 1]) = T[k + 1] - T[k - 1]
              /\ T[k + 1] - T[k - 1] \in 0 .. Unit - 1
          BY <4>3, <4>4, <4>5, <5>1
        <5> QED BY <4>2, <5>2
      <4>7. T[k + 1] - T[k - 1] \in Words
        BY <4>6, WordAssumption DEF Words, Half
      <4>8. Signed(T[k + 1] - T[k - 1]) = T[k + 1] - T[k - 1]
        BY <4>7, SignedOfWord
      <4>9. join = Signed(G[k] + G[k - 1])
        BY <2>10, <4>2, <4>4, <4>6 DEF Joined
      <4>10. k # m
        BY <2>4, <3>2
      <4> QED BY <4>6, <4>8, <4>9, <4>10
    <3> QED BY <2>4, <3>1, <3>2
  <2>12. IsJoin(head.time, chain, time, k, join)
    <3>1. k < m => T[k + 1] = time[chain[k + 1]]
      <4> SUFFICES ASSUME k < m PROVE T[k + 1] = time[chain[k + 1]]
        OBVIOUS
      <4>1. k + 1 \in 1 .. m
        BY <2>4
      <4> QED BY <2>5, <4>1
    <3>2. CASE k = m
      BY <2>11, <3>2 DEF IsJoin, m
    <3>3. CASE k < m
      <4>1. join = time[chain[k + 1]] - T[k - 1] /\ k # m
        BY <2>4, <2>11, <3>1, <3>3
      <4> QED BY <4>1 DEF IsJoin, m, T
    <3> QED BY <2>4, <3>2, <3>3
  <2> HIDE DEF join
  <2>13. /\ IsJoined(interval', interval, chain, k, join)
         /\ head'.time = head.time
         /\ head'.interval = IF k = 1 THEN join ELSE head.interval
    <3>1. CASE k = 1
      <4>1. head' = [head EXCEPT !.interval = join] /\ interval' = interval
        BY <2>1, <3>1 DEF join
      <4>2. head'.time = head.time /\ head'.interval = join
        BY <1>1, <4>1 DEF Typed, IsHead
      <4> QED BY <3>1, <4>1, <4>2 DEF IsJoined
    <3>2. CASE k # 1
      <4>1. interval' = [interval EXCEPT ![chain[k - 1]] = join] /\ head' = head
        BY <2>1, <3>2 DEF join
      <4>2. k > 1
        BY <2>4, <3>2
      <4> QED BY <1>1, <3>2, <4>1, <4>2 DEF IsJoined, Typed
    <3> QED BY <3>1, <3>2
  <2>14. k \in 1 .. Len(chain) - 1
    BY <2>4 DEF m
  <2>15. ChainExact(head.time, IF k = 1 THEN join ELSE head.interval, RemoveAt(chain, k),
                    interval', time)
    BY <1>1, <1>4, <2>12, <2>13, <2>14, RemovedIsExact
  <2>16. ChainExact(head'.time, FirstInterval', chain', interval', time')
    BY <1>2, <2>1, <2>13, <2>15 DEF FirstInterval
  <2>17. Counting'
    BY <1>1, <1>2, <1>3, <2>1, <2>13 DEF Counting
  <2> QED BY <1>5, <1>6, <2>1, <2>2, <2>16, <2>17 DEF EInv
<1> QED BY <1>7, <1>8

LEMMA TickKeepsEInv ==
  ASSUME EInv, Tick
  PROVE  EInv'
<1>1. /\ Typed /\ Timely /\ Counting /\ head.time \in Int /\ longcounter \in Int /\ now \in Nat
  BY EInvFacts
<1>2. /\ pc = "idle" /\ now < MaxTime /\ now' = now + 1
      /\ longcounter' = Unsigned(longcounter - 1)
      /\ IF longcounter' = 0
         THEN pc' = "check" /\ left' = head.interval /\ late' = 0
         ELSE UNCHANGED <<pc, left, late>>
      /\ UNCHANGED <<head, chain, timeout, time, interval, linked, status>>
  BY DEF Tick, chainVars
<1>3. /\ status = 0 /\ head.time = now + longcounter /\ longcounter >= 1
      /\ timeout # <<>> => longcounter = 1
  BY <1>1, <1>2 DEF Counting
<1>4. longcounter' = longcounter - 1
  <2>1. longcounter - 1 \in 0 .. Longest
    BY <1>1, <1>3, WordFacts DEF Typed
  <2> QED BY <1>2, <2>1, UnsignedOfWord
<1>5. IInv'
  BY TickKeepsIInv DEF EInv
<1>6. Timely'
  <2>1. Horizon \in Int /\ MaxTime \in Int
    BY HorizonAssumption, DelayAssumption, WordFacts
  <2> QED BY <1>1, <1>2, <2>1 DEF Timely
<1>7. ASSUME NEW n \in Node, In(timeout', n) PROVE time'[n] <= now'
  <2>1. time[n] <= now /\ time[n] \in 0 .. now + Horizon - 1 /\ Horizon \in Int
    BY <1>1, <1>2, <1>7, HorizonAssumption, WordFacts DEF Counting, Timely
  <2> QED BY <1>1, <1>2, <2>1
<1>8. head'.time = now' + longcounter'
  BY <1>1, <1>2, <1>3, <1>4
<1>9. CASE longcounter' = 0
  <2>1. head'.time = now'
    BY <1>1, <1>2, <1>8, <1>9
  <2>2. Counting'
    BY <1>2, <1>7, <1>9, <2>1 DEF Counting
  <2>3. ChainExact(head'.time, FirstInterval', chain', interval', time')
    BY <1>2, <1>9 DEF EInv, FirstInterval
  <2> QED BY <1>5, <1>6, <2>2, <2>3 DEF EInv
<1>10. CASE longcounter' # 0
  <2>1. longcounter' >= 1 /\ timeout = <<>>
    BY <1>1, <1>3, <1>4, <1>10
  <2>2. Counting'
    BY <1>2, <1>3, <1>7, <1>8, <1>10, <2>1 DEF Counting
  <2>3. ChainExact(head'.time, FirstInterval', chain', interval', time')
    BY <1>2, <1>10 DEF EInv, FirstInterval
  <2> QED BY <1>5, <1>6, <2>2, <2>3 DEF EInv
<1> QED BY <1>9, <1>10

(* The first timer and its interval, while the handler looks at it.        *)
LEMMA FirstPlace ==
  ASSUME EInv
  PROVE  /\ First = chain[1] /\ First \in Node \cup {last} /\ 1 \in 1 .. Len(chain)
         /\ Len(chain) = 1 <=> First = last
         /\ Len(chain) = 1 => FirstInterval = Invalid
         /\ Len(chain) > 1 => /\ FirstInterval = time[First] - head.time
                              /\ FirstInterval >= 0 /\ time[First] \in Nat
                              /\ time[First] < now + Horizon
<1> DEFINE m == Len(chain) - 1
           T == Row(head.time, chain, time)
           G == Row(FirstInterval, chain, interval)
<1>1. /\ IInv /\ IsNodes(chain) /\ IsTimes(time) /\ head.time \in Int
      /\ chain \in Seq(Node \cup {last}) /\ Len(chain) \in Nat /\ Len(chain) > 0
      /\ Typed /\ Timely /\ now \in Nat
  BY EInvFacts DEF EInv
<1>2. First = chain[1] /\ First \in Node \cup {last} /\ 1 \in 1 .. Len(chain)
  BY <1>1, FirstIsThere
<1>3. Len(chain) = 1 <=> First = last
  <2>1. chain[Len(chain)] = last /\ \A i, j \in 1 .. Len(chain) : chain[i] = chain[j] => i = j
    BY <1>1 DEF IsNodes, Distinct
  <2> DEFINE l == Len(chain)
  <2>2. l \in Nat /\ l > 0 /\ 1 \in 1 .. l /\ l \in 1 .. l
    BY <1>1
  <2> HIDE DEF l
  <2>3. chain[l] = last /\ \A i, j \in 1 .. l : chain[i] = chain[j] => i = j
    BY <2>1 DEF l
  <2>4. l = 1 <=> First = last
    BY <1>2, <2>2, <2>3
  <2> QED BY <2>4 DEF l
<1>4. /\ T[0] = head.time /\ \A i \in 1 .. m : T[i] = time[chain[i]]
      /\ G[0] = FirstInterval
  <2>1. T[0] = head.time /\ \A i \in 1 .. m : T[i] = time[chain[i]]
    BY <1>1, RowOfChain
  <2>2. G[0] = FirstInterval
    BY <1>1, RowOfChain
  <2> QED BY <2>1, <2>2
<1>5. Exact(T, G, m)
  BY DEF EInv, ChainExact
<1> HIDE DEF T, G
<1>6. Len(chain) = 1 => FirstInterval = Invalid
  BY <1>1, <1>4, <1>5 DEF Exact
<1>7. ASSUME Len(chain) > 1
      PROVE  /\ FirstInterval = time[First] - head.time
             /\ FirstInterval >= 0 /\ time[First] \in Nat /\ time[First] < now + Horizon
  <2>1. m \in Nat /\ 0 \in 0 .. m - 1 /\ 0 \in 0 .. m /\ 1 \in 0 .. m /\ 1 \in 1 .. m /\ 0 + 1 = 1
    BY <1>1, <1>7
  <2> HIDE DEF m
  <2>2. G[0] = T[0 + 1] - T[0]
    BY <1>5, <2>1 DEF Exact
  <2>3. T[0] <= T[1]
    BY <1>5, <2>1 DEF Exact
  <2>4. T[1] = time[First] /\ time[First] \in 0 .. now + Horizon - 1 /\ Horizon \in Int
    <3>1. First \in Node
      <4>1. \A l \in Nat : l > 1 => l # 1
        OBVIOUS
      <4>2. Len(chain) # 1
        BY <1>1, <1>7, <4>1
      <4> QED BY <1>2, <1>3, <4>2
    <3>2. T[1] = time[First]
      BY <1>2, <1>4, <2>1
    <3>3. Horizon \in Int
      BY HorizonAssumption, WordFacts
    <3>4. time[First] \in 0 .. now + Horizon - 1
      BY <1>1, <3>1 DEF Timely
    <3> QED BY <3>2, <3>3, <3>4
  <2> QED BY <1>1, <1>4, <2>1, <2>2, <2>3, <2>4
<1> QED BY <1>2, <1>3, <1>6, <1>7

LEMMA TimesOutKeepsEInv ==
  ASSUME EInv, TimesOut
  PROVE  EInv'
<1> DEFINE m == Len(chain) - 1
           T == Row(head.time, chain, time)
           G == Row(FirstInterval, chain, interval)
<1>1. /\ Typed /\ Timely /\ Counting /\ IsNodes(chain) /\ IsTimes(time)
      /\ chain \in Seq(Node \cup {last}) /\ Len(chain) \in Nat /\ Len(chain) > 0
      /\ timeout \in Seq(Node) /\ head.time \in Int /\ now \in Nat /\ left \in Int
  BY EInvFacts
<1>2. /\ pc = "check" /\ left >= 0 /\ left - late <= 0 /\ First # last
      /\ timeout' = Append(timeout, First) /\ chain' = Tail(chain)
      /\ late' = late - left /\ left' = interval[First]
      /\ UNCHANGED <<head, time, interval, linked, longcounter, status, pc, now>>
  BY DEF TimesOut
<1>3. late = 0 /\ head.time = now /\ left = 0 /\ late' = 0 /\ FirstInterval = left
  <2>1. late = 0 /\ head.time = now /\ FirstInterval = left
    BY <1>1, <1>2 DEF Counting, FirstInterval
  <2>2. left <= 0
    BY <1>1, <1>2, <2>1
  <2> QED BY <1>1, <1>2, <2>1, <2>2
<1>4. /\ First = chain[1] /\ First \in Node /\ 1 \in 1 .. Len(chain) /\ Len(chain) # 1
  BY <1>2, FirstPlace
<1>5. m \in Nat /\ 1 \in 1 .. m /\ 1 \in 0 .. m /\ Len(chain) > 1
  <2>1. \A l \in Nat : l > 0 /\ l # 1 => /\ l - 1 \in Nat /\ 1 \in 1 .. l - 1
                                       /\ 1 \in 0 .. l - 1 /\ l > 1
    OBVIOUS
  <2> QED BY <1>1, <1>4, <2>1
<1>6. FirstInterval = time[First] - head.time /\ time[First] \in Nat
  BY <1>5, FirstPlace
<1>7. time[First] = now
  BY <1>1, <1>3, <1>6
<1>8. /\ \A i \in 1 .. m : T[i] = time[chain[i]]
      /\ \A i \in 1 .. m : G[i] = interval[chain[i]]
      /\ T[0] = head.time
  <2>1. T[0] = head.time /\ \A i \in 1 .. m : T[i] = time[chain[i]]
    BY <1>1, RowOfChain
  <2>2. \A i \in 1 .. m : G[i] = interval[chain[i]]
    BY <1>1, RowOfChain
  <2> QED BY <2>1, <2>2
<1>9. Exact(T, G, m)
  BY DEF EInv, ChainExact
<1>10. ChainExact(head.time, FirstInterval, chain, interval, time)
  BY DEF EInv
<1> HIDE DEF T, G, m
<1>11. interval[First] = IF m = 1 THEN Invalid ELSE time[chain[2]] - head.time
  <2>1. G[1] = interval[First] /\ T[1] = time[First]
    BY <1>4, <1>5, <1>8
  <2>2. CASE m = 1
    <3>1. G[1] = Invalid
      BY <1>9, <2>2 DEF Exact
    <3> QED BY <2>1, <2>2, <3>1
  <2>3. CASE m # 1
    <3>1. 1 \in 0 .. m - 1 /\ 2 \in 1 .. m /\ 1 + 1 = 2
      BY <1>5, <2>3
    <3>2. G[1] = T[1 + 1] - T[1]
      BY <1>9, <3>1 DEF Exact
    <3>3. T[2] = time[chain[2]]
      BY <1>8, <3>1
    <3> QED BY <1>3, <1>7, <2>1, <2>3, <3>1, <3>2, <3>3
  <2> QED BY <2>2, <2>3
<1>12. IsJoin(head.time, chain, time, 1, interval[First])
  <2>1. 1 + 1 = 2 /\ 1 - 1 = 0
    OBVIOUS
  <2>2. Row(head.time, chain, time)[0] = head.time
    BY <1>8 DEF T
  <2> QED BY <1>11, <2>1, <2>2 DEF IsJoin, m
<1>13. IsJoined(interval, interval, chain, 1, interval[First])
  BY DEF IsJoined
<1>14. chain' = RemoveAt(chain, 1)
  <2>1. chain # <<>>
    BY <1>1
  <2> QED BY <1>1, <1>2, <2>1, TailIsRemove
<1>15. ChainExact(head.time, interval[First], RemoveAt(chain, 1), interval, time)
  <2>1. 1 \in 1 .. Len(chain) - 1
    BY <1>5 DEF m
  <2>2. ChainExact(head.time, IF 1 = 1 THEN interval[First] ELSE FirstInterval,
                   RemoveAt(chain, 1), interval, time)
    BY <1>1, <1>10, <1>12, <1>13, <2>1, RemovedIsExact
  <2> QED BY <2>2
<1>16. ChainExact(head'.time, FirstInterval', chain', interval', time')
  BY <1>2, <1>14, <1>15 DEF FirstInterval
<1>17. ASSUME NEW n \in Node, In(timeout', n) PROVE time'[n] <= now'
  <2>1. In(timeout, n) \/ n = First
    BY <1>1, <1>2, <1>4, <1>17, InAppended
  <2> QED BY <1>1, <1>2, <1>7, <2>1 DEF Counting
<1>18. Counting'
  BY <1>1, <1>2, <1>3, <1>17 DEF Counting
<1>19. Timely' /\ IInv'
  BY <1>1, <1>2, TimesOutKeepsIInv DEF Timely, EInv
<1> QED BY <1>16, <1>18, <1>19 DEF EInv

LEMMA FindIntervalKeepsEInv ==
  ASSUME EInv, FindInterval
  PROVE  EInv'
<1> DEFINE d == time[First] - head.time
           calculated == IF 0 < d /\ d < Half THEN d ELSE Invalid
<1>1. /\ Typed /\ Timely /\ Counting /\ Len(chain) \in Nat /\ Len(chain) > 0
      /\ head.time \in Int /\ now \in Nat /\ left \in Int
  BY EInvFacts
<1>2. /\ pc = "check"
      /\ \/ left < 0 /\ head' = [head EXCEPT !.interval = calculated]
         \/ left >= 0 /\ left - late > 0 /\ head' = [head EXCEPT !.interval = left - late]
      /\ pc' = (IF timeout # <<>> THEN "call" ELSE "wait")
      /\ left' = 0 /\ late' = 0
      /\ UNCHANGED <<chain, timeout, time, interval, linked, longcounter, status, now>>
  BY DEF FindInterval
<1>3. late = 0 /\ head.time = now /\ FirstInterval = left
  BY <1>1, <1>2 DEF Counting, FirstInterval
<1>4. /\ Len(chain) = 1 <=> First = last
      /\ Len(chain) = 1 => left = Invalid
      /\ Len(chain) > 1 => left >= 0
  BY <1>3, FirstPlace
<1>5. left < 0 => calculated = left
  <2> SUFFICES ASSUME left < 0 PROVE calculated = left
    OBVIOUS
  <2>1. Len(chain) = 1
    <3>1. \A l \in Nat : l > 0 => l = 1 \/ l > 1
      OBVIOUS
    <3>2. ~(left >= 0)
      BY <1>1
    <3> QED BY <1>1, <1>4, <3>1, <3>2
  <2>2. time[First] = Never
    BY <1>1, <1>4, <2>1 DEF Timely
  <2>3. d > Half
    <3>1. now <= MaxTime /\ MaxTime \in Nat
      BY <1>1, DelayAssumption DEF Timely
    <3> QED BY <1>1, <1>3, <2>2, <3>1, WordFacts
  <2>4. ~(d < Half)
    <3>1. d \in Int /\ Half \in Int
      BY <1>1, <2>2, WordFacts
    <3> HIDE DEF d
    <3> QED BY <2>3, <3>1
  <2> HIDE DEF d
  <2> QED BY <1>4, <2>1, <2>4
<1> HIDE DEF calculated
<1>6. head' = [head EXCEPT !.interval = left]
  <2>1. left - late = left
    BY <1>1, <1>3
  <2> QED BY <1>2, <1>5, <2>1
<1>7. head'.time = head.time /\ head'.interval = left
  BY <1>1, <1>6 DEF Typed, IsHead
<1>8. Len(chain) > 1 => left > 0
  BY <1>1, <1>2, <1>3, <1>4
<1>9. pc' \in {"call", "wait"} /\ (pc' = "wait" => timeout = <<>>)
  BY <1>2
<1>10. Counting'
  BY <1>1, <1>2, <1>3, <1>7, <1>8, <1>9 DEF Counting
<1>11. ChainExact(head'.time, FirstInterval', chain', interval', time')
  <2>1. FirstInterval' = FirstInterval
    BY <1>3, <1>7, <1>9 DEF FirstInterval
  <2> QED BY <1>2, <1>7, <2>1 DEF EInv
<1>12. Timely' /\ IInv'
  BY <1>1, <1>2, FindIntervalKeepsIInv DEF Timely, EInv
<1> QED BY <1>10, <1>11, <1>12 DEF EInv

LEMMA CallKeepsEInv ==
  ASSUME Horizon <= Unit, EInv, Call
  PROVE  EInv'
<1> DEFINE n == Head(timeout)
           t == time[n] + Period[n]
           r == Register(n, t, 1)
           c == [r EXCEPT !.timeout = Tail(@)]
<1>1. /\ Typed /\ Timely /\ Counting /\ Lists(chain, timeout, linked) /\ IsNodes(chain)
      /\ timeout \in Seq(Node) /\ Distinct(timeout) /\ head.time \in Int /\ now \in Nat
  BY EInvFacts
<1>2. /\ pc = "call" /\ status' = 1 /\ pc' = "check" /\ late' = 0 /\ UNCHANGED now
      /\ IF Period[n] = 0
         THEN /\ timeout' = Tail(timeout)
              /\ linked' = linked \ {n}
              /\ UNCHANGED <<head, chain, interval, time, longcounter>>
              /\ left' = head.interval
         ELSE /\ time' = [time EXCEPT ![n] = t]
              /\ SetChain(c)
              /\ UNCHANGED linked
              /\ left' = c.head.interval
  BY DEF Call
<1>3. timeout # <<>>
  BY <1>2 DEF EInv, IInv
<1>4. n \in Node /\ In(timeout, n) /\ Tail(timeout) = RemoveAt(timeout, 1) /\ Tail(timeout) \in Seq(Node)
  <2>1. Tail(timeout) = RemoveAt(timeout, 1) /\ n = timeout[1] /\ 1 \in 1 .. Len(timeout)
    BY <1>1, <1>3, TailIsRemove
  <2>2. n \in Node /\ Tail(timeout) \in Seq(Node)
    BY <1>1, <1>3
  <2> HIDE DEF n
  <2> QED BY <2>1, <2>2 DEF In
<1>4a. ~In(Tail(timeout), n)
  <2>1. Tail(timeout) = RemoveAt(timeout, 1) /\ n = timeout[1] /\ 1 \in 1 .. Len(timeout)
    BY <1>1, <1>3, TailIsRemove
  <2>2. \A e : In(RemoveAt(timeout, 1), e) <=> In(timeout, e) /\ e # timeout[1]
    BY <1>1, <2>1, RemovedList
  <2> HIDE DEF n
  <2> QED BY <2>1, <2>2
<1> HIDE DEF n
<1>5. ~In(chain, n) /\ time[n] <= now /\ head.time = now
  <2>1. pc # "idle"
    BY <1>2
  <2> QED BY <1>1, <1>4, <2>1 DEF Lists, Counting
<1>6. t \in 0 .. now + Horizon - 1 /\ t \in Int /\ Horizon \in Int
  <2>1. time[n] \in 0 .. now + Horizon - 1 /\ Period[n] \in Nat /\ Period[n] < Horizon
    BY <1>1, <1>4, HorizonAssumption, DelayAssumption DEF Timely
  <2>2. Horizon \in Int
    BY HorizonAssumption, WordFacts
  <2> QED BY <1>1, <1>5, <2>1, <2>2
<1>7. ChainExact(head.time, head.interval, chain, interval, time)
  BY <1>2 DEF EInv, FirstInterval
<1>8. ASSUME NEW m, In(Tail(timeout), m) PROVE In(timeout, m)
  <2>1. 1 \in 1 .. Len(timeout)
    BY <1>1, <1>3
  <2>2. \A e : In(RemoveAt(timeout, 1), e) <=> In(timeout, e) /\ e # timeout[1]
    BY <1>1, <2>1, RemovedList
  <2> QED BY <1>4, <1>8, <2>2
<1>9. IInv'
  BY CallKeepsIInv DEF EInv
<1> HIDE DEF t
<1>10. CASE Period[n] = 0
  <2>1. /\ timeout' = Tail(timeout) /\ left' = head.interval
        /\ UNCHANGED <<head, chain, interval, time, longcounter>>
    BY <1>2, <1>10
  <2>2. Counting'
    BY <1>1, <1>2, <1>5, <1>8, <2>1 DEF Counting
  <2>3. ChainExact(head'.time, FirstInterval', chain', interval', time')
    BY <1>2, <1>7, <2>1 DEF FirstInterval
  <2>4. Timely'
    BY <1>1, <1>2, <2>1 DEF Timely
  <2> QED BY <1>9, <2>2, <2>3, <2>4 DEF EInv
<1>11. CASE Period[n] # 0
  <2>1. Registers(n, t, 1)
    BY <1>1, <1>5, <1>6, <1>7 DEF Registers
  <2>2. Registered(r, n, t, 1)
    BY <1>4, <2>1, RegisterIsExact
  <2> HIDE DEF r
  <2>3. /\ head' = r.head /\ chain' = r.chain /\ interval' = r.interval
        /\ longcounter' = r.longcounter /\ timeout' = Tail(r.timeout)
        /\ left' = r.head.interval /\ time' = [time EXCEPT ![n] = t]
    <3>1. /\ head' = c.head /\ chain' = c.chain /\ interval' = c.interval
          /\ longcounter' = c.longcounter /\ timeout' = c.timeout /\ left' = c.head.interval
          /\ time' = [time EXCEPT ![n] = t]
      BY <1>2, <1>11 DEF SetChain
    <3>2. /\ c.head = r.head /\ c.chain = r.chain /\ c.interval = r.interval
          /\ c.longcounter = r.longcounter /\ c.timeout = Tail(r.timeout)
      OBVIOUS
    <3> QED BY <3>1, <3>2
  <2>4. IsTimed(time', time, n, t) /\ time'[last] = time[last]
    <3>1. time \in [Node \cup {last} -> Int]
      BY <1>1 DEF Typed
    <3> QED BY <1>4, <2>3, <3>1, NodeAssumption DEF IsTimed
  <2>5. r.head.time = now
    BY <1>5, <2>2 DEF Registered
  <2>6. ChainExact(head'.time, head'.interval, chain', interval', time')
    <3>1. CASE /\ r.chain = chain /\ r.timeout = Append(timeout, n)
               /\ t < r.head.time
               /\ ChainExact(r.head.time, r.head.interval, r.chain, r.interval, time)
      BY <1>1, <1>5, <2>3, <2>4, <3>1, TimeElsewhere
    <3>2. CASE LinkedExactly(r, n, t)
      BY <2>3, <2>4, <3>2 DEF LinkedExactly
    <3> QED BY <2>2, <3>1, <3>2 DEF Registered
  <2>7. ASSUME NEW m \in Node, In(timeout', m) PROVE time'[m] <= now
    <3>1. CASE r.timeout = timeout /\ r.head.time <= t
      <4>1. In(timeout, m)
        BY <1>8, <2>3, <2>7, <3>1
      <4>2. CASE m = n
        BY <1>4a, <2>3, <2>7, <3>1, <4>2
      <4>3. CASE m # n
        BY <1>1, <2>4, <4>1, <4>3 DEF IsTimed, Counting
      <4> QED BY <4>2, <4>3
    <3>2. CASE r.timeout = Append(timeout, n) /\ t < r.head.time
      <4>1. Tail(Append(timeout, n)) = Append(Tail(timeout), n)
        BY <1>1, <1>3
      <4>2. In(Tail(timeout), m) \/ m = n
        BY <1>4, <2>3, <2>7, <3>2, <4>1, InAppended
      <4>3. CASE m = n
        BY <1>1, <1>6, <2>4, <2>5, <3>2, <4>3 DEF IsTimed
      <4>4. CASE m # n
        BY <1>1, <1>8, <2>4, <4>2, <4>4 DEF IsTimed, Counting
      <4> QED BY <4>3, <4>4
    <3> QED BY <2>2, <3>1, <3>2 DEF Registered
  <2>8. Counting'
    BY <1>2, <2>3, <2>5, <2>7 DEF Counting
  <2>9. ChainExact(head'.time, FirstInterval', chain', interval', time')
    <3>1. FirstInterval' = head'.interval
      BY <1>2, <2>3 DEF FirstInterval
    <3> QED BY <2>6, <3>1
  <2>10. Timely'
    BY <1>1, <1>2, <1>6, <2>4 DEF Timely, IsTimed
  <2> QED BY <1>9, <2>8, <2>9, <2>10 DEF EInv
<1> QED BY <1>10, <1>11

LEMMA WaitKeepsEInv ==
  ASSUME EInv, Wait
  PROVE  EInv'
<1> DEFINE d     == time[First] - head.time
           ticks == IF head.interval >= 0 THEN head.interval ELSE d
<1>1. /\ Typed /\ Timely /\ Counting /\ IsNodes(chain) /\ IsTimes(time)
      /\ Len(chain) \in Nat /\ Len(chain) > 0
      /\ head.time \in Int /\ head.interval \in Int /\ now \in Nat
  BY EInvFacts
<1>2. /\ pc = "wait"
      /\ IF 0 <= ticks /\ ticks < Word
         THEN /\ longcounter' = ticks
              /\ head' = [time |-> time[First], interval |-> 0]
         ELSE /\ longcounter' = Longest
              /\ head' = [time |-> head.time + Longest,
                          interval |-> IF d - Longest \in 1 .. Half - 1 THEN d - Longest ELSE Invalid]
      /\ status' = 0 /\ pc' = "idle"
      /\ UNCHANGED <<chain, timeout, time, interval, linked, left, late, now>>
  BY DEF Wait
<1>3. head.time = now /\ timeout = <<>>
  BY <1>1, <1>2 DEF Counting
<1>4. ChainExact(head.time, head.interval, chain, interval, time)
  BY <1>2 DEF EInv, FirstInterval
<1>5. /\ First = chain[1]
      /\ Len(chain) = 1 <=> First = last
      /\ Len(chain) = 1 => head.interval = Invalid
      /\ Len(chain) > 1 => /\ head.interval = time[First] - head.time
                           /\ time[First] \in Nat /\ time[First] < now + Horizon
  BY <1>2, FirstPlace DEF FirstInterval
<1>6. Len(chain) = 1 \/ Len(chain) > 1
  <2>1. \A l \in Nat : l > 0 => l = 1 \/ l > 1
    OBVIOUS
  <2> QED BY <1>1, <2>1
<1>7. Timely' /\ IInv'
  BY <1>1, <1>2, WaitKeepsIInv DEF Timely, EInv
<1>8. CASE Len(chain) = 1
  <2>1. time[First] = Never /\ now <= MaxTime /\ MaxTime \in Nat
    BY <1>1, <1>5, <1>8, DelayAssumption DEF Timely
  <2>2. head.interval = Invalid /\ Invalid < 0
    BY <1>5, <1>8, InvalidIsWord, WordAssumption
  <2>3. ticks = d
    <3>1. ~(head.interval >= 0)
      BY <1>1, <2>2
    <3> QED BY <3>1
  <2>4. d \in Int /\ d >= Word /\ d - Longest \in Int /\ d - Longest > Half
    <3>1. d = Never - now
      BY <1>3, <2>1
    <3> HIDE DEF d
    <3> QED BY <1>1, <2>1, <3>1, WordFacts
  <2> HIDE DEF d, ticks
  <2>5. ~(ticks < Word) /\ d - Longest \notin 1 .. Half - 1
    BY <2>3, <2>4, WordFacts
  <2>6. longcounter' = Longest /\ head' = [time |-> head.time + Longest, interval |-> Invalid]
    BY <1>2, <2>5
  <2>7. head'.time = now + longcounter' /\ head'.interval = Invalid /\ longcounter' >= 1
    BY <1>3, <2>6, WordFacts
  <2>8. head'.time \in Int
    BY <1>1, <2>6, <2>7, WordFacts
  <2>9. ChainExact(head'.time, Invalid, chain, interval, time)
    <3>1. ~(Len(chain) > 1)
      BY <1>8
    <3>2. ChainExact(head'.time, IF Len(chain) = 1 THEN Invalid ELSE time[chain[1]] - head'.time,
                     chain, interval, time)
      BY <1>1, <1>4, <2>8, <3>1, CountedIsExact
    <3> QED BY <1>8, <3>2
  <2>10. ChainExact(head'.time, FirstInterval', chain', interval', time')
    BY <1>2, <2>7, <2>9 DEF FirstInterval
  <2>11. Counting'
    BY <1>2, <1>3, <2>7 DEF Counting, In
  <2> QED BY <1>7, <2>10, <2>11 DEF EInv
<1>9. CASE Len(chain) > 1
  <2>1. head.interval > 0 /\ head.interval < Horizon /\ Horizon \in Int
    <3>1. head.interval > 0
      BY <1>1, <1>2, <1>9 DEF Counting
    <3>2. Horizon \in Int
      BY HorizonAssumption, WordFacts
    <3> QED BY <1>1, <1>3, <1>5, <1>9, <3>1, <3>2
  <2>2. ticks = head.interval
    BY <1>1, <2>1
  <2> HIDE DEF d, ticks
  <2>3. 0 <= ticks /\ ticks < Word
    BY <1>1, <2>1, <2>2, HorizonAssumption, WordFacts
  <2>4. longcounter' = head.interval /\ head' = [time |-> time[First], interval |-> 0]
    BY <1>2, <2>2, <2>3
  <2>5. head'.time = time[First] /\ head'.interval = 0
    BY <2>4
  <2>6. head'.time = now + longcounter' /\ longcounter' >= 1
    BY <1>1, <1>3, <1>5, <1>9, <2>1, <2>4, <2>5
  <2>7. ChainExact(head'.time, 0, chain, interval, time)
    <3>1. head'.time \in Int /\ head'.time <= time[chain[1]] /\ time[chain[1]] - head'.time = 0
      BY <1>5, <1>9, <2>5
    <3>2. Len(chain) # 1
      <4>1. \A l \in Nat : l > 1 => l # 1
        OBVIOUS
      <4> QED BY <1>1, <1>9, <4>1
    <3>3. ChainExact(head'.time, IF Len(chain) = 1 THEN Invalid ELSE time[chain[1]] - head'.time,
                     chain, interval, time)
      BY <1>1, <1>4, <3>1, CountedIsExact
    <3> QED BY <3>1, <3>2, <3>3
  <2>8. ChainExact(head'.time, FirstInterval', chain', interval', time')
    BY <1>2, <2>5, <2>7 DEF FirstInterval
  <2>9. Counting'
    BY <1>2, <1>3, <2>6 DEF Counting, In
  <2> QED BY <1>7, <2>8, <2>9 DEF EInv
<1> QED BY <1>6, <1>8, <1>9

LEMMA DailyNextKeepsEInv ==
  ASSUME Horizon <= Unit, EInv, [DailyNext]_vars
  PROVE  EInv'
<1>0. CASE \E n \in Node : SetNowTimeNode(n)
  <2>1. PICK n \in Node : SetNowTimeNode(n)
    BY <1>0
  <2>2. SetNowTimeNode(n) \/ (AddTimeNode(n) /\ Near(n))
    BY <2>1
  <2> QED BY <2>2, ClientsKeepEInv
<1>1. CASE \E n \in Node : AddTimeNode(n) /\ Near(n)
  <2>1. PICK n \in Node : AddTimeNode(n) /\ Near(n)
    BY <1>1
  <2>2. SetNowTimeNode(n) \/ (AddTimeNode(n) /\ Near(n))
    BY <2>1
  <2> QED BY <2>2, ClientsKeepEInv
<1>2. CASE ~IdleTooLong /\ \E n \in Node : SetTimer(n)
  BY <1>2, SetTimerKeepsEInv
<1>3. CASE \E n \in Node : CancelTimer(n)
  BY <1>3, CancelTimerKeepsEInv
<1>4. CASE Tick
  BY <1>4, TickKeepsEInv
<1>5. CASE TimesOut
  BY <1>5, TimesOutKeepsEInv
<1>6. CASE FindInterval
  BY <1>6, FindIntervalKeepsEInv
<1>7. CASE Call
  BY <1>7, CallKeepsEInv
<1>8. CASE Wait
  BY <1>8, WaitKeepsEInv
<1>9. CASE UNCHANGED vars
  <2>1. /\ head' = head /\ chain' = chain /\ timeout' = timeout /\ time' = time
        /\ interval' = interval /\ linked' = linked /\ longcounter' = longcounter
        /\ status' = status /\ pc' = pc /\ left' = left /\ late' = late /\ now' = now
    BY <1>9 DEF vars, chainVars
  <2>2. IInv'
    BY <1>9, NextKeepsIInv DEF EInv
  <2>3. Timely' /\ Counting'
    BY <2>1 DEF EInv, Timely, Counting
  <2>4. ChainExact(head'.time, FirstInterval', chain', interval', time')
    BY <2>1 DEF EInv, FirstInterval
  <2> QED BY <2>2, <2>3, <2>4 DEF EInv
<1>10. DailyNext \/ UNCHANGED vars
  OBVIOUS
<1> QED BY <1>0, <1>1, <1>2, <1>3, <1>4, <1>5, <1>6, <1>7, <1>8, <1>9, <1>10
        DEF DailyNext, Handler

(* The invariant holds in every state of daily use: what each call, each   *)
(* tick and each step of the handler leaves behind is an exact chain.      *)
THEOREM DailyInvariance ==
  ASSUME Horizon <= Unit
  PROVE  DailySpec => []EInv
<1>1. Init => EInv
  BY InitEInv
<1>2. EInv /\ [DailyNext]_vars => EInv'
  BY DailyNextKeepsEInv
<1> QED BY <1>1, <1>2, PTL DEF DailySpec

-----------------------------------------------------------------------------
(* The chain is sorted, and every interval in it is exact: that the driver *)
(* adds, subtracts and joins intervals in place of times is right.         *)
LEMMA EInvIsExact == EInv => ChainIsExact
<1> SUFFICES ASSUME EInv, pc = "idle", NEW i \in DOMAIN chain
             PROVE  /\ Times[i] <= Times[i + 1]
                    /\ Intervals[i] \in {Invalid, Times[i + 1] - Times[i]}
  BY DEF ChainIsExact
<1> DEFINE l == Len(chain)
           T == Row(head.time, chain, time)
           G == Row(head.interval, chain, interval)
           st == [j \in DOMAIN chain |-> time[chain[j]]]
           si == [j \in DOMAIN chain |-> interval[chain[j]]]
<1>1. /\ chain \in Seq(Node \cup {last}) /\ Len(chain) \in Nat /\ Len(chain) > 0
      /\ head.time \in Int /\ IsTimes(time) /\ IsNodes(chain) /\ Timely
      /\ DOMAIN chain = 1 .. Len(chain)
  BY EInvFacts
<1>2. /\ T[0] = head.time /\ \A j \in 1 .. l - 1 : T[j] = time[chain[j]]
      /\ G[0] = head.interval /\ \A j \in 1 .. l - 1 : G[j] = interval[chain[j]]
  <2>1. T[0] = head.time /\ \A j \in 1 .. l - 1 : T[j] = time[chain[j]]
    BY <1>1, RowOfChain
  <2>2. G[0] = head.interval /\ \A j \in 1 .. l - 1 : G[j] = interval[chain[j]]
    BY <1>1, RowOfChain
  <2> QED BY <2>1, <2>2
<1>3. Exact(T, G, l - 1)
  BY DEF EInv, ChainExact, FirstInterval
<1>4. ASSUME NEW j \in 0 .. l
      PROVE  Times[j + 1] = IF j = 0 THEN head.time ELSE time[chain[j]]
  <2>1. st \in Seq(Int) /\ Len(st) = l /\ \A h \in 1 .. l : st[h] = time[chain[h]]
    <3>1. \A h \in 1 .. l : chain[h] \in Node \cup {last}
      BY <1>1
    <3>2. \A h \in 1 .. l : time[chain[h]] \in Int
      BY <1>1, <3>1 DEF IsTimes
    <3> QED BY <1>1, <3>2
  <2>2. <<head.time>> \in Seq(Int) /\ Len(<<head.time>>) = 1 /\ <<head.time>>[1] = head.time
    BY <1>1
  <2>3. Times = <<head.time>> \o st
    BY DEF Times
  <2> HIDE DEF st
  <2>4. \A h \in 1 .. 1 + l :
          Times[h] = IF h <= 1 THEN <<head.time>>[h] ELSE st[h - 1]
    BY <2>1, <2>2, <2>3, ConcatProperties
  <2> QED BY <1>1, <2>1, <2>2, <2>4
<1>5. ASSUME NEW j \in 0 .. l - 1
      PROVE  Intervals[j + 1] = IF j = 0 THEN head.interval ELSE interval[chain[j]]
  <2>1. si \in Seq(Int) /\ Len(si) = l /\ \A h \in 1 .. l : si[h] = interval[chain[h]]
    <3>1. \A h \in 1 .. l : chain[h] \in Node \cup {last}
      BY <1>1
    <3>2. \A h \in 1 .. l : interval[chain[h]] \in Int
      BY <1>1, <3>1, EInvFacts, WordFacts DEF Typed, Words
    <3> QED BY <1>1, <3>2
  <2>2. /\ <<head.interval>> \in Seq(Int) /\ Len(<<head.interval>>) = 1
        /\ <<head.interval>>[1] = head.interval
    BY EInvFacts
  <2>3. Intervals = <<head.interval>> \o si
    BY DEF Intervals
  <2> HIDE DEF si
  <2>4. \A h \in 1 .. 1 + l :
          Intervals[h] = IF h <= 1 THEN <<head.interval>>[h] ELSE si[h - 1]
    BY <2>1, <2>2, <2>3, ConcatProperties
  <2> QED BY <1>1, <2>1, <2>2, <2>4
<1>6. i \in 1 .. l /\ l \in Nat /\ i - 1 \in 0 .. l - 1 /\ i \in 0 .. l /\ (i - 1) + 1 = i
      /\ i - 1 \in 0 .. l
  BY <1>1
<1> HIDE DEF l, T, G, st, si
<1>7. Times[i] = T[i - 1] /\ Intervals[i] = G[i - 1]
  <2>1. /\ Times[i] = IF i - 1 = 0 THEN head.time ELSE time[chain[i - 1]]
        /\ Intervals[i] = IF i - 1 = 0 THEN head.interval ELSE interval[chain[i - 1]]
    BY <1>4, <1>5, <1>6
  <2>2. CASE i - 1 = 0
    BY <1>2, <2>1, <2>2
  <2>3. CASE i - 1 # 0
    <3>1. i - 1 \in 1 .. l - 1
      BY <1>6, <2>3
    <3> QED BY <1>2, <2>1, <2>3, <3>1
  <2> QED BY <2>2, <2>3
<1>8. Times[i + 1] = time[chain[i]]
  BY <1>4, <1>6
<1>9. CASE i < l
  <2>1. i \in 1 .. l - 1 /\ i - 1 \in 0 .. (l - 1) - 1 /\ i \in 0 .. l - 1 /\ i - 1 \in 0 .. l - 1
        /\ i - 1 <= i
    BY <1>6, <1>9
  <2>2. Times[i + 1] = T[i]
    BY <1>2, <1>8, <2>1
  <2>3. T[i - 1] <= T[i]
    BY <1>3, <2>1 DEF Exact
  <2>4. G[i - 1] = T[(i - 1) + 1] - T[i - 1]
    BY <1>3, <2>1 DEF Exact
  <2> QED BY <1>6, <1>7, <2>2, <2>3, <2>4
<1>10. CASE i = l
  <2>1. Intervals[i] = Invalid
    BY <1>3, <1>7, <1>10 DEF Exact
  <2>2. chain[i] = last /\ time[last] = Never
    BY <1>1, <1>10 DEF IsNodes, l, Timely
  <2>3. Times[i] <= Never
    <3>1. now <= MaxTime /\ MaxTime \in Nat /\ now \in Nat /\ Horizon \in 1 .. Half
      BY <1>1, EInvFacts, DelayAssumption, HorizonAssumption DEF Timely
    <3>2. CASE l = 1
      <4>1. Times[i] = head.time
        BY <1>2, <1>7, <1>10, <3>2
      <4>2. head.time = now + longcounter /\ longcounter \in 0 .. Longest
        BY EInvFacts DEF Counting, Typed
      <4> QED BY <3>1, <4>1, <4>2, WordFacts
    <3>3. CASE l # 1
      <4>1. i - 1 \in 1 .. l - 1 /\ i - 1 \in 1 .. l /\ l \in 1 .. l /\ i - 1 # l
        BY <1>6, <1>10, <3>3
      <4>2. Times[i] = time[chain[i - 1]]
        BY <1>2, <1>7, <4>1
      <4>3. chain[i - 1] \in Node
        <5>1. chain[i - 1] \in Node \cup {last} /\ chain[l] = last
          BY <1>1, <4>1 DEF l, IsNodes
        <5>2. chain[i - 1] # chain[l]
          BY <1>1, <4>1 DEF l, IsNodes, Distinct
        <5> QED BY <5>1, <5>2
      <4>4. time[chain[i - 1]] \in 0 .. now + Horizon - 1
        BY <1>1, <4>3 DEF Timely
      <4> QED BY <3>1, <4>2, <4>4, WordFacts
    <3> QED BY <3>2, <3>3
  <2> QED BY <1>8, <2>1, <2>2, <2>3
<1> QED BY <1>6, <1>9, <1>10

(* In daily use the chain is sorted and exact whenever the handler is not  *)
(* running.                                                                *)
THEOREM DailyChainIsExact ==
  ASSUME Horizon <= Unit
  PROVE  DailySpec => []ChainIsExact
BY DailyInvariance, EInvIsExact, PTL

LEMMA EInvIsRight == EInv => NowIsRight
<1> SUFFICES ASSUME EInv, pc = "idle" PROVE NowTime = now
  BY DEF NowIsRight
<1>1. head.time = now + longcounter
  BY DEF EInv, Counting
<1> QED BY <1>1, EInvFacts DEF NowTime

(* In daily use GetNowTime tells the time, however often calls have made   *)
(* the clock count less.                                                   *)
THEOREM DailyNowIsRight ==
  ASSUME Horizon <= Unit
  PROVE  DailySpec => []NowIsRight
BY DailyInvariance, EInvIsRight, PTL

-----------------------------------------------------------------------------
(* The driver is an alarm clock: each of its steps is one of the clock, or *)
(* none.                                                                   *)
DueTimes == [n \in Node |-> IF n \in linked THEN time[n] ELSE -1]
LateOnes == IF pc = "idle" THEN Range(timeout) ELSE {}

LEMMA SetTimerSets ==
  ASSUME Horizon <= Unit, EInv, ~IdleTooLong, NEW n \in Node, SetTimer(n)
  PROVE  Clock!Set(n)
<1>1. /\ pc = "idle" /\ n \notin linked /\ linked' = linked \cup {n}
      /\ UNCHANGED <<time, pc, now>>
  BY DEF SetTimer
<1>2. /\ In(timeout', n) <=> time[n] <= now
      /\ \A m \in Node : m # n => (In(timeout', m) <=> In(timeout, m))
      /\ EInv'
  BY SetTimerKeepsEInv
<1>3. timeout \in Seq(Node) /\ timeout' \in Seq(Node)
  BY <1>2 DEF EInv, IInv, Lists
<1>4. DueTimes[n] = -1 /\ DueTimes'[n] = time[n]
  BY <1>1 DEF DueTimes
<1>5. time[n] \in 0 .. Never
  <2>1. /\ time[n] \in 0 .. now + Horizon - 1 /\ now <= MaxTime /\ now \in Nat
        /\ Horizon \in 1 .. Half
    BY EInvFacts, HorizonAssumption DEF Timely
  <2> QED BY <2>1, DelayAssumption, WordFacts
<1>6. DueTimes' = [DueTimes EXCEPT ![n] = DueTimes'[n]]
  BY <1>1 DEF DueTimes
<1>7. LateOnes' = IF DueTimes'[n] <= now THEN LateOnes \cup {n} ELSE LateOnes
  <2>1. LateOnes = {m \in Node : In(timeout, m)} /\ LateOnes' = {m \in Node : In(timeout', m)}
    <3>1. ASSUME NEW m PROVE m \in Range(timeout) <=> m \in Node /\ In(timeout, m)
      BY <1>3, RangeIsIn DEF In
    <3>2. ASSUME NEW m PROVE m \in Range(timeout') <=> m \in Node /\ In(timeout', m)
      BY <1>3, RangeIsIn DEF In
    <3> QED BY <1>1, <3>1, <3>2 DEF LateOnes
  <2>2. ~In(timeout, n)
    BY <1>1 DEF EInv, IInv, Lists
  <2> QED BY <1>2, <1>4, <2>1, <2>2
<1> QED BY <1>1, <1>4, <1>5, <1>6, <1>7 DEF Clock!Set, Clock!Off, DueTimes, LateOnes

LEMMA CancelTimerCancels ==
  ASSUME Horizon <= Unit, EInv, NEW n \in Node, CancelTimer(n)
  PROVE  Clock!Cancel(n)
<1>1. pc = "idle" /\ linked' = linked \ {n} /\ UNCHANGED <<time, pc, now>>
  BY DEF CancelTimer
<1>2. EInv' /\ \A m \in Node : In(timeout', m) <=> In(timeout, m) /\ m # n
  BY CancelTimerKeepsEInv
<1>3. timeout \in Seq(Node) /\ timeout' \in Seq(Node)
  BY <1>2 DEF EInv, IInv, Lists
<1>4. DueTimes' = [DueTimes EXCEPT ![n] = -1]
  BY <1>1 DEF DueTimes
<1>5. LateOnes' = LateOnes \ {n}
  <2>1. ASSUME NEW m PROVE m \in Range(timeout) <=> m \in Node /\ In(timeout, m)
    BY <1>3, RangeIsIn DEF In
  <2>2. ASSUME NEW m PROVE m \in Range(timeout') <=> m \in Node /\ In(timeout', m)
    BY <1>3, RangeIsIn DEF In
  <2>3. ASSUME NEW m PROVE m \in Range(timeout') <=> m \in Range(timeout) /\ m # n
    BY <1>2, <2>1, <2>2
  <2> QED BY <1>1, <2>3 DEF LateOnes
<1> QED BY <1>1, <1>4, <1>5 DEF Clock!Cancel, Clock!Off, DueTimes, LateOnes

(* No timer in the chain is behind head.                                   *)
LEMMA ChainIsAhead ==
  ASSUME EInv, NEW n \in Node, In(chain, n)
  PROVE  head.time <= time[n]
<1> DEFINE m == Len(chain) - 1
           T == Row(head.time, chain, time)
           G == Row(FirstInterval, chain, interval)
<1>1. /\ chain \in Seq(Node \cup {last}) /\ Len(chain) \in Nat /\ Len(chain) > 0
      /\ chain[Len(chain)] = last
  BY EInvFacts DEF IsNodes
<1>2. T[0] = head.time /\ \A j \in 1 .. m : T[j] = time[chain[j]]
  BY <1>1, RowOfChain
<1>3. Exact(T, G, m)
  BY DEF EInv, ChainExact
<1>4. PICK i \in 1 .. Len(chain) : chain[i] = n
  BY DEF In
<1>5. i \in 1 .. m /\ i \in 0 .. m /\ 0 \in 0 .. m /\ 0 <= i
  <2>1. i # Len(chain)
    BY <1>1, <1>4, NodeAssumption
  <2> QED BY <1>1, <2>1
<1> HIDE DEF T, G, m
<1>6. T[0] <= T[i]
  BY <1>3, <1>5 DEF Exact
<1> QED BY <1>2, <1>4, <1>5, <1>6

LEMMA TickIsTick ==
  ASSUME EInv, Tick
  PROVE  Clock!Tick
<1>1. /\ pc = "idle" /\ now < MaxTime /\ now' = now + 1
      /\ longcounter' = Unsigned(longcounter - 1)
      /\ IF longcounter' = 0
         THEN pc' = "check" /\ left' = head.interval /\ late' = 0
         ELSE UNCHANGED <<pc, left, late>>
      /\ UNCHANGED <<head, chain, timeout, time, interval, linked, status>>
  BY DEF Tick, chainVars
<1>2. /\ head.time = now + longcounter /\ longcounter >= 1
      /\ timeout # <<>> => longcounter = 1
  BY <1>1 DEF EInv, Counting
<1>3. /\ Typed /\ Timely /\ Lists(chain, timeout, linked)
      /\ timeout \in Seq(Node) /\ longcounter \in Int /\ now \in Nat
  BY EInvFacts
<1>4. ASSUME NEW n \in Node, n \notin LateOnes, n \in linked PROVE time[n] > now
  <2>1. n \notin Range(timeout)
    BY <1>1, <1>4 DEF LateOnes
  <2>2. In(chain, n)
    BY <1>3, <1>4, <2>1, RangeIsIn DEF Lists
  <2>3. head.time <= time[n] /\ time[n] \in Int
    BY <1>3, <2>2, ChainIsAhead DEF Typed
  <2> QED BY <1>2, <1>3, <2>3
<1>5. \A n \in Node \ LateOnes : DueTimes[n] # -1 => DueTimes[n] > now
  BY <1>4 DEF DueTimes
<1>6. LateOnes' = {}
  <2>1. CASE longcounter' = 0
    BY <1>1, <2>1 DEF LateOnes
  <2>2. CASE longcounter' # 0
    <3>1. longcounter' = longcounter - 1
      <4>1. longcounter - 1 \in 0 .. Longest
        BY <1>2, <1>3, WordFacts DEF Typed
      <4> QED BY <1>1, <4>1, UnsignedOfWord
    <3>2. timeout = <<>>
      BY <1>2, <1>3, <2>2, <3>1
    <3>3. Range(timeout') = {}
      BY <1>1, <3>2 DEF Range
    <3> QED BY <3>3 DEF LateOnes
  <2> QED BY <2>1, <2>2
<1>7. DueTimes' = DueTimes
  BY <1>1 DEF DueTimes
<1> QED BY <1>1, <1>5, <1>6, <1>7 DEF Clock!Tick, Clock!Off, DueTimes, LateOnes

LEMMA CallRings ==
  ASSUME Horizon <= Unit, EInv, Call
  PROVE  Clock!Rings
<1> DEFINE n == Head(timeout)
           t == time[n] + Period[n]
           c == [Register(n, t, 1) EXCEPT !.timeout = Tail(@)]
<1>1. /\ pc = "call" /\ pc' = "check" /\ UNCHANGED now
      /\ IF Period[n] = 0
         THEN linked' = linked \ {n} /\ time' = time
         ELSE time' = [time EXCEPT ![n] = t] /\ linked' = linked
  BY DEF Call
<1>2. /\ Typed /\ Timely /\ Counting /\ Lists(chain, timeout, linked) /\ timeout \in Seq(Node)
      /\ now \in Nat
  BY EInvFacts
<1>3. timeout # <<>>
  BY <1>1 DEF EInv, IInv
<1>4. n \in Node /\ In(timeout, n)
  <2>1. n = timeout[1] /\ 1 \in 1 .. Len(timeout)
    BY <1>2, <1>3, TailIsRemove
  <2>2. n \in Node
    BY <1>2, <1>3
  <2> HIDE DEF n
  <2> QED BY <2>1, <2>2 DEF In
<1> HIDE DEF n
<1>5. n \in linked /\ time[n] <= now /\ time[n] >= 0
  <2>1. time[n] \in 0 .. now + Horizon - 1
    BY <1>2, <1>4 DEF Timely
  <2> QED BY <1>2, <1>4, <2>1 DEF Lists, Counting
<1>6. DueTimes[n] # -1 /\ DueTimes[n] <= now
  BY <1>4, <1>5 DEF DueTimes
<1>7. LateOnes = {} /\ LateOnes' = {}
  BY <1>1 DEF LateOnes
<1>8. DueTimes' = [DueTimes EXCEPT ![n] = IF Period[n] = 0 THEN -1 ELSE @ + Period[n]]
  <2>1. CASE Period[n] = 0
    BY <1>1, <1>4, <2>1 DEF DueTimes
  <2>2. CASE Period[n] # 0
    <3>1. time' = [time EXCEPT ![n] = t] /\ linked' = linked /\ time \in [Node \cup {last} -> Int]
      BY <1>1, <1>2, <2>2 DEF Typed
    <3>2. ASSUME NEW m \in Node
          PROVE  DueTimes'[m] = IF m = n THEN DueTimes[n] + Period[n] ELSE DueTimes[m]
      BY <1>4, <1>5, <3>1 DEF DueTimes
    <3> QED BY <1>4, <2>2, <3>2 DEF DueTimes
  <2> QED BY <2>1, <2>2
<1>9. PICK a \in Node : a = n
  BY <1>4
<1>10. /\ DueTimes[a] # -1 /\ DueTimes[a] <= now
       /\ DueTimes' = [DueTimes EXCEPT ![a] = IF Period[a] = 0 THEN -1 ELSE @ + Period[a]]
  BY <1>6, <1>8, <1>9
<1>11. Clock!Ring(a)
  BY <1>1, <1>7, <1>10 DEF Clock!Ring, Clock!Off, DueTimes, LateOnes
<1> QED BY <1>11 DEF Clock!Rings

(* What changes neither the timers nor the tick is no step of the clock.   *)
LEMMA OtherStepsAreNone ==
  ASSUME EInv, EInv',
         \/ \E n \in Node : SetNowTimeNode(n)
         \/ \E n \in Node : AddTimeNode(n) /\ Near(n)
         \/ TimesOut \/ FindInterval \/ Wait \/ UNCHANGED vars
  PROVE  UNCHANGED Clock!clockVars
<1>1. CASE \/ \E n \in Node : SetNowTimeNode(n)
           \/ \E n \in Node : AddTimeNode(n) /\ Near(n)
  <2>1. PICK n \in Node : SetNowTimeNode(n) \/ AddTimeNode(n)
    BY <1>1
  <2>2. n \notin linked /\ UNCHANGED <<linked, timeout, pc, now>>
    BY <2>1 DEF SetNowTimeNode, AddTimeNode
  <2>3. \E t : time' = [time EXCEPT ![n] = t]
    BY <2>1 DEF SetNowTimeNode, AddTimeNode
  <2>4. time \in [Node \cup {last} -> Int]
    BY DEF EInv, IInv, Typed
  <2>5. ASSUME NEW m \in Node, m \in linked PROVE time'[m] = time[m]
    BY <2>2, <2>3, <2>4, <2>5
  <2>6. DueTimes' = DueTimes /\ LateOnes' = LateOnes
    BY <2>2, <2>5 DEF DueTimes, LateOnes
  <2> QED BY <2>2, <2>6 DEF Clock!clockVars, DueTimes, LateOnes
<1>2. CASE TimesOut \/ FindInterval
  <2>1. pc # "idle" /\ pc' # "idle" /\ UNCHANGED <<linked, time, now>>
    BY <1>2 DEF TimesOut, FindInterval
  <2>2. DueTimes' = DueTimes /\ LateOnes' = LateOnes
    BY <2>1 DEF DueTimes, LateOnes
  <2> QED BY <2>1, <2>2 DEF Clock!clockVars, DueTimes, LateOnes
<1>3. CASE Wait
  <2>1. pc = "wait" /\ UNCHANGED <<linked, time, now, timeout>>
    BY <1>3 DEF Wait
  <2>2. Range(timeout) = {}
    BY <2>1 DEF EInv, Counting, Range
  <2>3. DueTimes' = DueTimes /\ LateOnes' = LateOnes
    BY <2>1, <2>2 DEF DueTimes, LateOnes
  <2> QED BY <2>1, <2>3 DEF Clock!clockVars, DueTimes, LateOnes
<1>4. CASE UNCHANGED vars
  <2>1. UNCHANGED <<linked, time, now, timeout, pc>>
    BY <1>4 DEF vars, chainVars
  <2>2. DueTimes' = DueTimes /\ LateOnes' = LateOnes
    BY <2>1 DEF DueTimes, LateOnes
  <2> QED BY <2>1, <2>2 DEF Clock!clockVars, DueTimes, LateOnes
<1> QED BY <1>1, <1>2, <1>3, <1>4

LEMMA ClockStarts == Init => Clock!Init
<1> SUFFICES ASSUME Init PROVE Clock!Init
  OBVIOUS
<1>1. now = 0 /\ linked = {} /\ timeout = <<>> /\ pc = "idle"
  BY DEF Init
<1>2. DueTimes = [n \in Node |-> -1]
  BY <1>1 DEF DueTimes
<1>3. LateOnes = {}
  BY <1>1 DEF LateOnes, Range
<1> QED BY <1>1, <1>2, <1>3 DEF Clock!Init, Clock!Off, DueTimes, LateOnes

LEMMA ClockSteps ==
  ASSUME Horizon <= Unit, EInv, EInv', [DailyNext]_vars
  PROVE  [Clock!Next]_(Clock!clockVars)
<1>1. CASE ~IdleTooLong /\ \E n \in Node : SetTimer(n)
  BY <1>1, SetTimerSets DEF Clock!Next
<1>2. CASE \E n \in Node : CancelTimer(n)
  BY <1>2, CancelTimerCancels DEF Clock!Next
<1>3. CASE Tick
  BY <1>3, TickIsTick DEF Clock!Next
<1>4. CASE Call
  BY <1>4, CallRings DEF Clock!Next
<1>5. CASE \/ \E n \in Node : SetNowTimeNode(n)
           \/ \E n \in Node : AddTimeNode(n) /\ Near(n)
           \/ TimesOut \/ FindInterval \/ Wait \/ UNCHANGED vars
  BY <1>5, OtherStepsAreNone
<1>6. DailyNext \/ UNCHANGED vars
  OBVIOUS
<1> QED BY <1>1, <1>2, <1>3, <1>4, <1>5, <1>6 DEF DailyNext, Handler

(* In daily use no timer rings before its time or after it was cancelled,  *)
(* the clock does not pass over any, and a periodic timer keeps to the     *)
(* multiples of its period: the driver implements the alarm clock, but for *)
(* the clock's fairness.                                                   *)
THEOREM DailyRings ==
  ASSUME Horizon <= Unit
  PROVE  DailySpec => Clock!Init /\ [][Clock!Next]_(Clock!clockVars)
<1>1. Init => Clock!Init
  BY ClockStarts
<1>2. EInv /\ EInv' /\ [DailyNext]_vars => [Clock!Next]_(Clock!clockVars)
  BY ClockSteps
<1> QED BY <1>1, <1>2, DailyInvariance, PTL DEF DailySpec
=============================================================================
