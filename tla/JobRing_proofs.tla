--------------------------- MODULE JobRing_proofs ---------------------------
(***************************************************************************)
(* The job ring is right for every size of the ring, every set of jobs and *)
(* every content of the fresh memory: its inductive invariant, the framing *)
(* of commands and arguments, and the refinement of JobList.               *)
(***************************************************************************)
EXTENDS JobRing, SequenceTheorems, TLAPS

IInv == TypeOK /\ RingInv /\ Chained

-----------------------------------------------------------------------------
(* Arithmetic of the ring: going k places on, and counting places.         *)

LEMMA SlotType ==
  ASSUME NEW a \in Slots, NEW k \in 0 .. JOBLIST_SIZE
  PROVE  Slot(a + k) \in Slots
  BY SizeAssumption DEF Slots, Slot

LEMMA AheadType ==
  ASSUME NEW a \in Slots, NEW s \in Slots
  PROVE  Ahead(a, s) \in Slots /\ Slot(a + Ahead(a, s)) = s
  BY SizeAssumption DEF Slots, Slot, Ahead

LEMMA AheadOfSlot ==
  ASSUME NEW a \in Slots, NEW k \in Slots
  PROVE  Ahead(a, Slot(a + k)) = k
  BY SizeAssumption DEF Slots, Slot, Ahead

LEMMA SlotOfSlot ==
  ASSUME NEW a \in Slots, NEW j \in Nat, NEW k \in Nat, j + k <= JOBLIST_SIZE
  PROVE  Slot(Slot(a + j) + k) = Slot(a + (j + k))
  BY SizeAssumption DEF Slots, Slot

LEMMA SlotMoves ==
  ASSUME NEW a \in Slots, NEW k \in Nat, k >= 1, k < JOBLIST_SIZE
  PROVE  Slot(a + k) # a
  BY SizeAssumption DEF Slots, Slot

LEMMA AheadFromSlot ==
  ASSUME NEW a \in Slots, NEW s \in Slots, NEW k \in Slots
  PROVE  Ahead(Slot(a + k), s) = IF Ahead(a, s) >= k
                                 THEN Ahead(a, s) - k
                                 ELSE Ahead(a, s) - k + JOBLIST_SIZE
  BY SizeAssumption DEF Slots, Slot, Ahead

(* What a batch is, with the types the steps below need. *)
LEMMA BatchFacts ==
  ASSUME NEW p \in Batches
  PROVE  /\ p \in Seq(Word)
         /\ Len(p) \in Nat
         /\ Len(p) \in 1 .. JOBLIST_SIZE - 1
         /\ \A i \in 1 .. Len(p) : p[i] \in Word
         /\ 1 \in Starts[p]
         /\ \A i \in Starts[p] :
              /\ i \in 1 .. Len(p)
              /\ p[i] \in Cmd
              /\ Arity[p[i]] \in Nat
              /\ i + Arity[p[i]] <= Len(p)
              /\ i + Arity[p[i]] < Len(p) => i + Arity[p[i]] + 1 \in Starts[p]
              /\ \A j \in Starts[p] : j > i => j > i + Arity[p[i]]
  BY BatchAssumption, WordAssumption DEF WellFormed

-----------------------------------------------------------------------------
(* The initial states. *)
LEMMA InitIInv == Init => IInv
<1> SUFFICES ASSUME Init PROVE IInv
  OBVIOUS
<1>1. TypeOK
  BY SizeAssumption, WordAssumption DEF Init, TypeOK, Slots
<1>2. RingInv /\ Chained
  BY SizeAssumption DEF Init, RingInv, Chained, Slots, Slot, Used
<1> QED
  BY <1>1, <1>2 DEF IInv

(* What the read position sees: the framing property follows.              *)
LEMMA FramingOfIInv == IInv => Framing
<1> SUFFICES ASSUME IInv PROVE Framing
  OBVIOUS
<1> USE DEF IInv
<1>1. Used \in 0 .. JOBLIST_SIZE - 1
  BY SizeAssumption DEF TypeOK, Used, Slots
<1>2. CASE Used = 0
  BY <1>2, SizeAssumption DEF RingInv, Framing, TypeOK, Slot, Slots
<1>3. CASE Used > 0
  <2>1. rp \in starts /\ rp \in Slots
    BY <1>3 DEF Chained, TypeOK
  <2>2. Ahead(rp, rp) = 0
    BY <2>1 DEF Ahead, Slots
  <2>3. list[rp] \in Cmd /\ 0 + 1 + Arity[list[rp]] <= Used
    BY <2>1, <2>2 DEF Chained
  <2> QED
    BY <1>3, <2>3, WordAssumption DEF Framing
<1> QED
  BY <1>1, <1>2, <1>3

-----------------------------------------------------------------------------
(* Writing a batch keeps the invariant. *)
LEMMA WriteKeepsIInv ==
  ASSUME IInv, NEW p \in Batches, WriteJob(p)
  PROVE  IInv'
<1> USE DEF IInv
<1> DEFINE n == Len(p)
           u == Used
<1>1. /\ n \in 1 .. JOBLIST_SIZE - 1 /\ free \in Nat /\ free >= n
      /\ u \in Nat /\ Used' = u + n /\ u + n <= JOBLIST_SIZE - 1
      /\ free' \in Slots
  BY BatchFacts, SizeAssumption DEF TypeOK, WriteJob, Used, Slots
<1>2. wp \in Slots /\ rp \in Slots /\ rp' = rp /\ wp' \in Slots
  BY <1>1, SlotType, SizeAssumption DEF TypeOK, WriteJob, Slots
<1>3. \A s \in Slots : Ahead(wp, s) \in Slots /\ Ahead(rp, s) \in Slots
  BY <1>2, AheadType
<1>4. ASSUME NEW s \in Slots
      PROVE  list'[s] = IF Ahead(wp, s) < n THEN p[Ahead(wp, s) + 1]
                        ELSE IF Ahead(wp, s) = n THEN 0 ELSE list[s]
  BY <1>4 DEF WriteJob
<1>5. list' \in [Slots -> Word]
  <2>1. \A s \in Slots : list[s] \in Word
    BY DEF TypeOK
  <2>2. \A s \in Slots : Ahead(wp, s) < n => p[Ahead(wp, s) + 1] \in Word
    <3> SUFFICES ASSUME NEW s \in Slots, Ahead(wp, s) < n
                 PROVE  p[Ahead(wp, s) + 1] \in Word
      OBVIOUS
    <3>1. Ahead(wp, s) + 1 \in 1 .. n
      <4>1. Ahead(wp, s) \in Slots
        BY <1>3
      <4> HIDE DEF n
      <4> QED
        BY <1>1, <4>1, SizeAssumption DEF Slots
    <3> QED
      BY <3>1, BatchFacts
  <2> QED
    BY <2>1, <2>2, WordAssumption DEF WriteJob
<1>6. \A i \in Starts[p] : Slot(wp + i - 1) \in Slots
  <2> SUFFICES ASSUME NEW i \in Starts[p]
               PROVE  Slot(wp + i - 1) \in Slots
    OBVIOUS
  <2>1. i \in 1 .. n
    BY BatchFacts
  <2> QED
    BY <1>1, <1>2, <2>1, SizeAssumption DEF Slots, Slot
<1>7. TypeOK'
  BY <1>1, <1>2, <1>5, <1>6 DEF TypeOK, WriteJob
<1>8. RingInv'
  <2>1. wp' = Slot(rp + (u + n))
    <3>1. wp = Slot(rp + u) /\ wp' = Slot(wp + n)
      BY DEF RingInv, WriteJob
    <3>2. Slot(Slot(rp + u) + n) = Slot(rp + (u + n))
      <4> HIDE DEF n, u
      <4> QED
        BY <1>1, <1>2, SlotOfSlot, SizeAssumption
    <3> QED
      BY <3>1, <3>2
  <2>2. Ahead(wp, wp') = n
    <3>1. wp' = Slot(wp + n)
      BY DEF WriteJob
    <3>2. n \in Slots
      BY <1>1, SizeAssumption DEF Slots
    <3> QED
      BY <3>1, <3>2, <1>2, AheadOfSlot
  <2>3. list'[wp'] = 0
    BY <1>1, <1>2, <1>4, <2>2
  <2> QED
    BY <1>1, <1>2, <2>1, <2>3 DEF RingInv
<1>9. Chained'
  (* Cells seen from the read position: the old ones lie u places or less *)
  (* ahead, the i-th word of p lies u + i - 1 places ahead.               *)
  <2>1. ASSUME NEW s \in Slots
        PROVE  Ahead(wp, s) = IF Ahead(rp, s) >= u THEN Ahead(rp, s) - u
                              ELSE Ahead(rp, s) - u + JOBLIST_SIZE
    BY <1>1, <1>2, <2>1, AheadFromSlot, SizeAssumption DEF RingInv, Slots
  <2>2. ASSUME NEW s \in starts
        PROVE  /\ s \in Slots /\ list[s] \in Cmd /\ Arity[list[s]] \in Nat
               /\ Ahead(rp, s) \in Nat
               /\ Ahead(rp, s) + 1 + Arity[list[s]] <= u
               /\ list'[s] = list[s]
    <3>1. /\ s \in Slots /\ list[s] \in Cmd /\ Arity[list[s]] \in Nat
          /\ Ahead(rp, s) + 1 + Arity[list[s]] <= u
          /\ Ahead(rp, s) \in Slots
      BY <1>3, <2>2, WordAssumption DEF Chained, TypeOK
    <3>2. Ahead(wp, s) = Ahead(rp, s) - u + JOBLIST_SIZE
      <4> HIDE DEF u
      <4> QED
        BY <3>1, <2>1, <1>1, SizeAssumption DEF Slots
    <3>3. Ahead(wp, s) > n
      <4> HIDE DEF n, u
      <4> QED
        BY <3>1, <3>2, <1>1, SizeAssumption DEF Slots
    <3>4. list'[s] = list[s]
      <4>1. Ahead(wp, s) \in Slots
        BY <3>1, <1>3
      <4>2. ~ (Ahead(wp, s) < n) /\ Ahead(wp, s) # n
        <5> HIDE DEF n
        <5> QED
          BY <4>1, <3>3, <1>1, SizeAssumption DEF Slots
      <4> QED
        BY <3>1, <4>2, <1>4
    <3> QED
      BY <3>1, <3>4, SizeAssumption DEF Slots
  <2>3. ASSUME NEW i \in Starts[p]
        PROVE  /\ Slot(wp + i - 1) \in Slots
               /\ Slot(wp + i - 1) = Slot(rp + (u + (i - 1)))
               /\ Ahead(rp, Slot(wp + i - 1)) = u + i - 1
               /\ list'[Slot(wp + i - 1)] = p[i]
    <3>1. i \in 1 .. n
      BY <2>3, BatchFacts
    <3>2. i - 1 \in Slots /\ u + (i - 1) \in Slots /\ i - 1 \in Nat
      BY <3>1, <1>1, SizeAssumption DEF Slots
    <3>3. Ahead(wp, Slot(wp + (i - 1))) = i - 1
      BY <3>2, <1>2, AheadOfSlot
    <3>4. Slot(wp + (i - 1)) = Slot(rp + (u + (i - 1)))
      <4>1. wp = Slot(rp + u)
        BY DEF RingInv
      <4>2. u + (i - 1) <= JOBLIST_SIZE
        BY <3>2, SizeAssumption DEF Slots
      <4> HIDE DEF u
      <4> QED
        BY <3>2, <4>1, <4>2, <1>1, <1>2, SlotOfSlot
    <3>5. Ahead(rp, Slot(rp + (u + (i - 1)))) = u + (i - 1)
      BY <3>2, <1>2, AheadOfSlot
    <3>6. wp + i - 1 = wp + (i - 1)
      BY <3>1, <1>2 DEF Slots
    <3> QED
      BY <3>1, <3>2, <3>3, <3>4, <3>5, <3>6, <1>1, <1>4, <1>6, <2>3
  <2> DEFINE new == { Slot(wp + i - 1) : i \in Starts[p] }
  <2>4. starts' = starts \cup new
    BY DEF WriteJob
  <2>5. Used' > 0 => rp' \in starts'
    <3>1. CASE u > 0
      BY <3>1, <2>4, <1>2 DEF Chained
    <3>2. CASE u = 0
      <4>1. 1 \in Starts[p] /\ wp = rp
        BY <3>2, <1>2, BatchFacts, SizeAssumption DEF RingInv, Slot, Slots
      <4>2. Slot(wp + 1 - 1) = rp
        BY <4>1, <1>2, SizeAssumption DEF Slot, Slots
      <4> QED
        BY <4>1, <4>2, <2>4, <1>2
    <3> QED
      BY <3>1, <3>2, <1>1
  <2>6. ASSUME NEW s \in starts
        PROVE  LET e == Ahead(rp, s) + 1 + Arity[list[s]]
               IN /\ e <= u + n
                  /\ e < u + n => Slot(rp + e) \in starts'
                  /\ \A t \in starts' : Ahead(rp, t) > Ahead(rp, s) => Ahead(rp, t) >= e
    <3> DEFINE e == Ahead(rp, s) + 1 + Arity[list[s]]
    <3>1. e \in Nat /\ e <= u
      BY <2>2, <2>6
    <3>2. e < u => Slot(rp + e) \in starts
      BY <2>6 DEF Chained
    <3>3. e = u => Slot(rp + e) \in new
      <4>1. 1 \in Starts[p]
        BY BatchFacts
      <4>2. Slot(wp + 1 - 1) = Slot(rp + (u + (1 - 1)))
        BY <4>1, <2>3
      <4> HIDE DEF u
      <4>3. u + (1 - 1) = u
        BY <1>1
      <4> QED
        BY <4>1, <4>2, <4>3
    <3>4. ASSUME NEW t \in starts', Ahead(rp, t) > Ahead(rp, s)
          PROVE  Ahead(rp, t) >= e
      <4>1. CASE t \in starts
        BY <2>6, <3>4, <4>1 DEF Chained
      <4>2. CASE t \in new
        <5>1. PICK i \in Starts[p] : t = Slot(wp + i - 1)
          BY <4>2
        <5>2. Ahead(rp, t) = u + i - 1 /\ i \in 1 .. n
          BY <5>1, <2>3, BatchFacts
        <5> QED
          BY <5>2, <3>1, <1>1
      <4> QED
        BY <4>1, <4>2, <3>4, <2>4
    <3> QED
      BY <3>1, <3>2, <3>3, <3>4, <2>4, <1>1
  <2>7. ASSUME NEW i \in Starts[p]
        PROVE  LET s == Slot(wp + i - 1)
                   e == Ahead(rp, s) + 1 + Arity[p[i]]
               IN /\ e <= u + n
                  /\ e < u + n => Slot(rp + e) \in starts'
                  /\ \A t \in starts' : Ahead(rp, t) > Ahead(rp, s) => Ahead(rp, t) >= e
    <3> DEFINE s == Slot(wp + i - 1)
               a == Arity[p[i]]
    <3>1. /\ i \in 1 .. n /\ a \in Nat /\ i + a <= n
          /\ i + a < n => i + a + 1 \in Starts[p]
          /\ \A j \in Starts[p] : j > i => j > i + a
      BY <2>7, BatchFacts
    <3>2. Ahead(rp, s) = u + i - 1
      BY <2>3, <2>7
    <3>3. Ahead(rp, s) + 1 + a = u + (i + a) /\ u + (i + a) <= u + n
      <4>1. i \in Nat /\ n \in Nat /\ u \in Nat /\ a \in Nat /\ i + a <= n
        BY <3>1, <1>1
      <4> HIDE DEF IInv, n, u, s, a
      <4> QED
        BY <4>1, <3>2
    <3>4. ASSUME u + (i + a) < u + n
          PROVE  Slot(rp + (u + (i + a))) \in starts'
      <4>1. i + a + 1 \in Starts[p]
        BY <3>1, <3>4, <1>1
      <4>2. Slot(wp + (i + a + 1) - 1) = Slot(rp + (u + ((i + a + 1) - 1)))
        BY <4>1, <2>3
      <4>3. (i + a + 1) - 1 = i + a
        BY <3>1
      <4> QED
        BY <4>1, <4>2, <4>3, <2>4
    <3>5. ASSUME NEW t \in starts', Ahead(rp, t) > Ahead(rp, s)
          PROVE  Ahead(rp, t) >= u + (i + a)
      <4>1. CASE t \in starts
        <5>1. Ahead(rp, t) \in Nat /\ Ahead(rp, t) + 1 + Arity[list[t]] <= u
              /\ Arity[list[t]] \in Nat
          BY <4>1, <2>2
        <5> QED
          <6> HIDE DEF u, n, a, s
          <6> QED
            BY <5>1, <3>1, <3>2, <3>5, <1>1
      <4>2. CASE t \in new
        <5>1. PICK j \in Starts[p] : t = Slot(wp + j - 1)
          BY <4>2
        <5>2. Ahead(rp, t) = u + j - 1 /\ j \in 1 .. n
          BY <5>1, <2>3, BatchFacts
        <5>3. j > i
          BY <5>2, <3>1, <3>2, <3>5, <1>1
        <5>4. j > i + a
          BY <5>3, <3>1
        <5> QED
          BY <5>2, <5>4, <3>1, <1>1
      <4> QED
        BY <4>1, <4>2, <3>5, <2>4
    <3> QED
      BY <3>3, <3>4, <3>5
  <2>8. ASSUME NEW s \in starts'
        PROVE  LET c == list'[s]
                   e == Ahead(rp, s) + 1 + Arity[c]
               IN /\ c \in Cmd
                  /\ e <= u + n
                  /\ e < u + n => Slot(rp + e) \in starts'
                  /\ \A t \in starts' : Ahead(rp, t) > Ahead(rp, s) => Ahead(rp, t) >= e
    <3>1. CASE s \in starts
      BY <3>1, <2>2, <2>6
    <3>2. CASE s \in new
      <4>1. PICK i \in Starts[p] : s = Slot(wp + i - 1)
        BY <3>2
      <4>2. list'[s] = p[i] /\ p[i] \in Cmd
        BY <4>1, <2>3, BatchFacts
      <4> QED
        BY <4>1, <4>2, <2>7
    <3> QED
      BY <3>1, <3>2, <2>4, <2>8
  <2> QED
    BY <2>5, <2>8, <1>1, <1>2 DEF Chained, Ahead, Slot
<1> QED
  BY <1>7, <1>8, <1>9

-----------------------------------------------------------------------------
(* Taking a job keeps the invariant: the places ahead of the new read      *)
(* position are those ahead of the old one less the length of the job.     *)
LEMMA RunFacts ==
  ASSUME IInv, RunJobNext
  PROVE  LET n == 1 + ArgCount(list[rp]) IN
         /\ n \in Nat /\ n >= 1 /\ n <= Used
         /\ n = 1 + Arity[list[rp]]
         /\ list[rp] \in Cmd
         /\ rp \in starts
         /\ Used \in 0 .. JOBLIST_SIZE - 1
         /\ Used' = Used - n
<1>1. Used \in 0 .. JOBLIST_SIZE - 1 /\ free \in 0 .. JOBLIST_SIZE - 1
  BY SizeAssumption DEF IInv, TypeOK, Used, Slots
<1>2. Used > 0
  BY <1>1, FramingOfIInv DEF Framing, RunJobNext
<1>3. list[rp] \in Cmd /\ 1 + Arity[list[rp]] <= Used
  BY <1>2, FramingOfIInv DEF Framing
<1>4. ArgCount(list[rp]) = Arity[list[rp]] /\ Arity[list[rp]] \in Nat
  BY <1>3, WordAssumption DEF ArgCount
<1>5. rp \in starts
  BY <1>2 DEF IInv, Chained
<1>6. free' = free + (1 + ArgCount(list[rp]))
  BY DEF RunJobNext
<1>7. Used' = Used - (1 + ArgCount(list[rp]))
  BY <1>1, <1>4, <1>6, SizeAssumption DEF Used
<1> QED
  BY <1>1, <1>3, <1>4, <1>5, <1>7

LEMMA RunKeepsIInv ==
  ASSUME IInv, RunJobNext
  PROVE  IInv'
<1> DEFINE n == 1 + ArgCount(list[rp])
           u == Used
<1>1. /\ n \in Nat /\ n >= 1 /\ n <= u
      /\ u \in 0 .. JOBLIST_SIZE - 1 /\ Used' = u - n
      /\ rp \in starts
      /\ n = 1 + Arity[list[rp]]
  BY RunFacts
<1>2. /\ rp \in Slots /\ wp \in Slots
      /\ rp' = Slot(rp + n) /\ wp' = wp /\ list' = list /\ starts' = starts \ {rp}
      /\ free' = free + n /\ free \in Slots
      /\ job' = [k \in 1 .. n |-> list[Slot(rp + k - 1)]]
  BY DEF IInv, TypeOK, RunJobNext
<1>3. wp = Slot(rp + u) /\ list[wp] = 0
  BY DEF IInv, RingInv
<1>4. \A s \in Slots : list[s] \in Word
  BY DEF IInv, TypeOK
<1>5. free = JOBLIST_SIZE - 1 - u
  BY <1>2, SizeAssumption DEF Used, Slots
<1>6. \A s \in starts : s \in Slots /\ Ahead(rp, s) \in Slots
  BY <1>2, AheadType DEF IInv, TypeOK
<1>7. ASSUME NEW s \in starts, s # rp
      PROVE  Ahead(rp, s) >= n
  <2>1. Ahead(rp, rp) = 0
    BY <1>2 DEF Ahead, Slots
  <2>2. Ahead(rp, s) > 0
    BY <1>2, <1>6, <1>7, SizeAssumption DEF Ahead, Slots
  <2>3. \A t \in starts : Ahead(rp, t) > Ahead(rp, rp)
                            => Ahead(rp, t) >= Ahead(rp, rp) + 1 + Arity[list[rp]]
    BY <1>1 DEF IInv, Chained
  <2>4. Ahead(rp, s) >= 0 + 1 + Arity[list[rp]]
    BY <2>1, <2>2, <2>3, <1>7
  <2> HIDE DEF n
  <2> QED
    BY <2>4, <1>1
<1>8. ASSUME NEW s \in starts, s # rp
      PROVE  Ahead(rp', s) = Ahead(rp, s) - n
  <2>1. Ahead(rp, s) >= n /\ s \in Slots
    BY <1>6, <1>7, <1>8
  <2>2. n \in Slots
    BY <1>1, SizeAssumption DEF Slots
  <2> HIDE DEF n
  <2> QED
    BY <2>1, <2>2, <1>2, AheadFromSlot
<1> HIDE DEF n, u
<1>9. TypeOK'
  <2>1. rp' \in Slots /\ free' \in Slots
    <3>1. n \in 0 .. JOBLIST_SIZE
      BY <1>1, SizeAssumption
    <3>2. rp' \in Slots
      BY <3>1, <1>2, SlotType
    <3>3. free + n \in 0 .. JOBLIST_SIZE - 1
      BY <1>1, <1>5, SizeAssumption
    <3> QED
      BY <3>2, <3>3, <1>2 DEF Slots
  <2>2. \A k \in 1 .. n : Slot(rp + k - 1) \in Slots
    BY <1>1, <1>2, SizeAssumption DEF Slots, Slot
  <2>3. job' \in Seq(Word)
    BY <2>2, <1>1, <1>2, <1>4
  <2> QED
    BY <2>1, <2>3, <1>2 DEF IInv, TypeOK
<1>10. RingInv'
  <2>1. Slot(Slot(rp + n) + (u - n)) = Slot(rp + (n + (u - n)))
    BY <1>1, <1>2, SlotOfSlot, SizeAssumption
  <2>2. n + (u - n) = u
    BY <1>1
  <2>3. wp' = Slot(rp' + Used')
    BY <2>1, <2>2, <1>1, <1>2, <1>3
  <2> QED
    BY <2>3, <1>2, <1>3 DEF RingInv
<1>11. Chained'
  <2>1. Used' > 0 => rp' \in starts'
    <3>1. Ahead(rp, rp) + 1 + Arity[list[rp]] = n
      BY <1>1, <1>2, RunFacts, WordAssumption DEF Ahead, Slots
    <3>2. n < u => Slot(rp + n) \in starts
      BY <3>1, <1>1 DEF IInv, Chained, u
    <3>3. Slot(rp + n) # rp
      <4>1. n < JOBLIST_SIZE
        BY <1>1, SizeAssumption
      <4> QED
        BY <4>1, <1>1, <1>2, SlotMoves
    <3> QED
      BY <3>2, <3>3, <1>1, <1>2
  <2>2. ASSUME NEW s \in starts'
        PROVE  LET c == list'[s]
                   e == Ahead(rp', s) + 1 + Arity[c]
               IN /\ c \in Cmd
                  /\ e <= Used'
                  /\ e < Used' => Slot(rp' + e) \in starts'
                  /\ \A t \in starts' : Ahead(rp', t) > Ahead(rp', s) => Ahead(rp', t) >= e
    <3> DEFINE c == list[s]
               e == Ahead(rp, s) + 1 + Arity[c]
    <3>1. s \in starts /\ s # rp /\ Ahead(rp', s) = Ahead(rp, s) - n /\ Ahead(rp, s) >= n
      BY <2>2, <1>2, <1>7, <1>8
    <3>2. /\ c \in Cmd /\ e <= u
          /\ e < u => Slot(rp + e) \in starts
          /\ \A t \in starts : Ahead(rp, t) > Ahead(rp, s) => Ahead(rp, t) >= e
      BY <3>1 DEF IInv, Chained, u
    <3>3. Ahead(rp, s) \in Slots /\ Arity[c] \in Nat
      BY <3>1, <3>2, <1>6, WordAssumption
    <3>4. e \in Nat /\ e > n /\ Ahead(rp', s) + 1 + Arity[c] = e - n
      BY <3>1, <3>3, <1>1, SizeAssumption DEF Slots
    <3> HIDE DEF e
    <3>5. e - n <= Used'
      BY <3>2, <3>4, <1>1
    <3>6. ASSUME e - n < Used' PROVE Slot(rp' + (e - n)) \in starts'
      <4>1. e < u
        BY <3>4, <3>6, <1>1
      <4>2. Slot(Slot(rp + n) + (e - n)) = Slot(rp + (n + (e - n)))
        BY <4>1, <3>4, <1>1, <1>2, SlotOfSlot, SizeAssumption
      <4>3. n + (e - n) = e
        BY <3>4, <1>1
      <4>4. Slot(rp + e) # rp
        <5>1. e >= 1 /\ e < JOBLIST_SIZE
          BY <4>1, <3>4, <1>1, SizeAssumption
        <5> QED
          BY <5>1, <3>4, <1>2, SlotMoves
      <4> QED
        BY <4>1, <4>2, <4>3, <4>4, <3>2, <1>2
    <3>7. ASSUME NEW t \in starts', Ahead(rp', t) > Ahead(rp', s)
          PROVE  Ahead(rp', t) >= e - n
      <4>1. t \in starts /\ Ahead(rp', t) = Ahead(rp, t) - n /\ Ahead(rp, t) \in Slots
        BY <3>7, <1>2, <1>6, <1>8
      <4>2. Ahead(rp, t) > Ahead(rp, s)
        BY <4>1, <3>1, <3>3, <3>7, <1>1, SizeAssumption DEF Slots
      <4>3. Ahead(rp, t) >= e
        BY <4>1, <4>2, <3>2
      <4> QED
        BY <4>1, <4>3, <3>4, <1>1, SizeAssumption DEF Slots
    <3> QED
      BY <3>2, <3>4, <3>5, <3>6, <3>7, <1>2
  <2> QED
    BY <2>1, <2>2 DEF Chained, Ahead, Slot
<1> QED
  BY <1>9, <1>10, <1>11 DEF IInv

LEMMA EndKeepsIInv ==
  ASSUME IInv, EndJob \/ UNCHANGED vars
  PROVE  IInv'
<1>1. UNCHANGED <<list, rp, wp, free, starts>> /\ (job' = <<>> \/ job' = job)
  BY DEF EndJob, vars
<1>2. TypeOK'
  <2>1. job \in Seq(Word) /\ <<>> \in Seq(Word)
    BY DEF IInv, TypeOK
  <2> QED
    BY <1>1, <2>1 DEF IInv, TypeOK, Slots
<1>3. RingInv' /\ Chained'
  BY <1>1 DEF IInv, RingInv, Chained, Used, Slot, Ahead
<1> QED
  BY <1>2, <1>3 DEF IInv

-----------------------------------------------------------------------------
(* Every state the program reaches satisfies the invariant, for every size *)
(* of the ring and every set of well-formed batches.                       *)
THEOREM Invariance == Spec => []IInv
<1>1. ASSUME IInv, [Next]_vars PROVE IInv'
  BY <1>1, WriteKeepsIInv, RunKeepsIInv, EndKeepsIInv DEF Next
<1> QED
  BY <1>1, InitIInv, PTL DEF Spec

(* The positions stay inside the array, every cell and every word of the   *)
(* job in progress is a word: winman0.c never reads or writes joblist      *)
(* outside its bounds.                                                     *)
THEOREM TypeCorrect == Spec => []TypeOK
<1>1. IInv => TypeOK
  BY DEF IInv
<1> QED
  BY <1>1, Invariance, PTL

(* runjobnext never takes an argument for a command nor for the stopper,   *)
(* although an argument may be zero and may read like a command.           *)
THEOREM FramingHolds == Spec => []Framing
  BY FramingOfIInv, Invariance, PTL

-----------------------------------------------------------------------------
(* The refinement: the words between the two positions are the queue.      *)
WaitingOK ==
  /\ Waiting \in Seq(Word)
  /\ Len(Waiting) = Used
  /\ \A k \in 1 .. Used : Waiting[k] = list[Slot(rp + k - 1)]

LEMMA WaitingIsSeq == IInv => WaitingOK
<1> SUFFICES ASSUME IInv PROVE WaitingOK
  OBVIOUS
<1>1. Used \in 0 .. JOBLIST_SIZE - 1 /\ rp \in Slots
  BY SizeAssumption DEF IInv, TypeOK, Used, Slots
<1>2. \A s \in Slots : list[s] \in Word
  BY DEF IInv, TypeOK
<1>3. \A k \in 1 .. Used : Slot(rp + k - 1) \in Slots
  BY <1>1, SizeAssumption DEF Slots, Slot
<1> HIDE DEF Used
<1> QED
  BY <1>1, <1>2, <1>3 DEF Waiting, WaitingOK

LEMMA InitMaps == Init => Abstract!Init
  BY SizeAssumption DEF Init, Abstract!Init, Waiting, Used

(* What was waiting keeps its cells, and the batch stands behind it. *)
LEMMA WriteMaps ==
  ASSUME IInv, NEW p \in Batches, WriteJob(p)
  PROVE  Abstract!Put(p)
<1> DEFINE n == Len(p)
           u == Used
<1>1. WaitingOK /\ WaitingOK'
  <2>1. IInv'
    BY WriteKeepsIInv
  <2> QED
    BY <2>1, WaitingIsSeq, PTL
<1>2. /\ n \in 1 .. JOBLIST_SIZE - 1 /\ u \in 0 .. JOBLIST_SIZE - 1
      /\ Used' = u + n /\ u + n <= JOBLIST_SIZE - 1
      /\ rp' = rp /\ rp \in Slots /\ wp \in Slots
      /\ wp = Slot(rp + u) /\ UNCHANGED job
  BY BatchFacts, SizeAssumption DEF IInv, RingInv, TypeOK, WriteJob, Used, Slots
<1>3. /\ Waiting \in Seq(Word) /\ Len(Waiting) = u
      /\ \A k \in 1 .. u : Waiting[k] = list[Slot(rp + k - 1)]
      /\ Waiting' \in Seq(Word) /\ Len(Waiting') = u + n
      /\ \A k \in 1 .. u + n : Waiting'[k] = list'[Slot(rp + k - 1)]
  BY <1>1, <1>2 DEF WaitingOK, Slot
<1>4. p \in Seq(Word)
  BY BatchFacts
<1>5. ASSUME NEW s \in Slots
      PROVE  list'[s] = IF Ahead(wp, s) < n THEN p[Ahead(wp, s) + 1]
                        ELSE IF Ahead(wp, s) = n THEN 0 ELSE list[s]
  BY DEF WriteJob
<1> HIDE DEF n, u
<1>6. ASSUME NEW k \in 1 .. u + n
      PROVE  Waiting'[k] = IF k <= u THEN Waiting[k] ELSE p[k - u]
  <2> DEFINE s == Slot(rp + k - 1)
  <2>1. k - 1 \in Slots /\ s = Slot(rp + (k - 1))
    BY <1>2, SizeAssumption DEF Slots
  <2>2. s \in Slots /\ Ahead(rp, s) = k - 1
    <3>1. k - 1 \in 0 .. JOBLIST_SIZE
      BY <2>1, SizeAssumption DEF Slots
    <3>2. Slot(rp + (k - 1)) \in Slots
      BY <3>1, <1>2, SlotType
    <3>3. Ahead(rp, Slot(rp + (k - 1))) = k - 1
      BY <2>1, <1>2, AheadOfSlot
    <3> QED
      BY <2>1, <3>2, <3>3
  <2>3. u \in Slots
    BY <1>2 DEF Slots
  <2> HIDE DEF s
  <2>4. Ahead(wp, s) = IF k - 1 >= u THEN k - 1 - u ELSE k - 1 - u + JOBLIST_SIZE
    BY <2>2, <2>3, <1>2, AheadFromSlot
  <2>5. CASE k <= u
    <3>1. Ahead(wp, s) > n
      BY <2>4, <2>5, <1>2, SizeAssumption
    <3>2. Ahead(wp, s) \in Int
      BY <2>4, <1>2, SizeAssumption
    <3>3. ~ (Ahead(wp, s) < n) /\ Ahead(wp, s) # n
      BY <3>1, <3>2, <1>2
    <3>4. list'[s] = list[s]
      BY <3>3, <2>2, <1>5
    <3>5. Waiting'[k] = list'[s] /\ Waiting[k] = list[s]
      BY <2>5, <1>2, <1>3 DEF s
    <3> QED
      BY <2>5, <3>4, <3>5
  <2>6. CASE ~ (k <= u)
    <3>1. Ahead(wp, s) = k - 1 - u /\ Ahead(wp, s) < n /\ k - 1 - u + 1 = k - u
      BY <2>4, <2>6, <1>2
    <3>2. list'[s] = p[k - u]
      BY <3>1, <2>2, <1>5
    <3> QED
      BY <2>6, <3>2, <1>3 DEF s
  <2> QED
    BY <2>5, <2>6
<1>7. Waiting' = Waiting \o p
  <2>1. /\ Waiting \o p \in Seq(Word)
        /\ Len(Waiting \o p) = u + n
        /\ \A k \in 1 .. u + n :
             (Waiting \o p)[k] = IF k <= u THEN Waiting[k] ELSE p[k - u]
    BY <1>2, <1>3, <1>4, ConcatProperties DEF n
  <2> QED
    BY <2>1, <1>3, <1>6, SeqEqual
<1> QED
  BY <1>2, <1>3, <1>7 DEF Abstract!Put, n

(* The job taken is the front of the queue. *)
LEMMA RunMaps ==
  ASSUME IInv, RunJobNext
  PROVE  \E n \in 1 .. Len(Waiting) : Abstract!Take(n)
<1> DEFINE n == 1 + ArgCount(list[rp])
           u == Used
<1>1. WaitingOK /\ WaitingOK'
  <2>1. IInv'
    BY RunKeepsIInv
  <2> QED
    BY <2>1, WaitingIsSeq, PTL
<1>2. /\ n \in Nat /\ n >= 1 /\ n <= u
      /\ u \in 0 .. JOBLIST_SIZE - 1 /\ Used' = u - n
  BY RunFacts
<1>3. /\ rp \in Slots /\ rp' = Slot(rp + n) /\ list' = list /\ job = <<>>
      /\ job' = [k \in 1 .. n |-> list[Slot(rp + k - 1)]]
  BY DEF IInv, TypeOK, RunJobNext
<1>4. /\ Waiting \in Seq(Word) /\ Len(Waiting) = u
      /\ \A k \in 1 .. u : Waiting[k] = list[Slot(rp + k - 1)]
      /\ Waiting' \in Seq(Word) /\ Len(Waiting') = u - n
      /\ \A k \in 1 .. u - n : Waiting'[k] = list[Slot(rp' + k - 1)]
  BY <1>1, <1>2, <1>3 DEF WaitingOK, Slot
<1> HIDE DEF n, u
<1>5. job' = SubSeq(Waiting, 1, n)
  <2>1. \A k \in 1 .. n : job'[k] = Waiting[k]
    BY <1>2, <1>3, <1>4
  <2>2. SubSeq(Waiting, 1, n) = [k \in 1 .. n |-> Waiting[k]]
    <3>1. SubSeq(Waiting, 1, n) = [k \in 1 .. (1 + n - 1) |-> Waiting[k + 1 - 1]]
      BY <1>2, <1>4, SubSeqProperties
    <3>2. 1 + n - 1 = n /\ \A k \in 1 .. n : k + 1 - 1 = k
      BY <1>2
    <3> QED
      BY <3>1, <3>2
  <2> QED
    BY <2>1, <2>2, <1>3
<1>6. Waiting' = SubSeq(Waiting, n + 1, Len(Waiting))
  <2>1. ASSUME NEW k \in 1 .. u - n
        PROVE  Waiting'[k] = Waiting[n + k]
    <3>1. Slot(Slot(rp + n) + (k - 1)) = Slot(rp + (n + (k - 1)))
      BY <1>2, <1>3, SlotOfSlot, SizeAssumption
    <3>2. rp' + k - 1 = Slot(rp + n) + (k - 1) /\ rp + (n + k) - 1 = rp + (n + (k - 1))
      BY <1>2, <1>3, SizeAssumption DEF Slots, Slot
    <3>3. n + k \in 1 .. u
      BY <1>2
    <3> QED
      BY <3>1, <3>2, <3>3, <1>4
  <2>2. /\ SubSeq(Waiting, n + 1, u) \in Seq(Word)
        /\ Len(SubSeq(Waiting, n + 1, u)) = u - n
        /\ \A k \in 1 .. u - n : SubSeq(Waiting, n + 1, u)[k] = Waiting[n + k]
    BY <1>2, <1>4
  <2> QED
    BY <2>1, <2>2, <1>4, SeqEqual
<1>7. Abstract!Take(n)
  BY <1>3, <1>5, <1>6 DEF Abstract!Take
<1> QED
  BY <1>2, <1>4, <1>7

(* The ring implements the queue: for every size of the ring, no batch is  *)
(* torn, lost or overwritten, and the jobs come out whole and in order.    *)
THEOREM Refinement == Spec => ImplementsJobList
<1>1. Init => Abstract!Init
  BY InitMaps
<1>2. ASSUME IInv, [Next]_vars PROVE [Abstract!Next]_(Abstract!vars)
  <2>1. CASE \E p \in Batches : WriteJob(p)
    BY <1>2, <2>1, WriteMaps DEF Abstract!Next
  <2>2. CASE RunJobNext
    BY <1>2, <2>2, RunMaps DEF Abstract!Next
  <2>3. CASE EndJob
    BY <2>3 DEF EndJob, Abstract!Next, Abstract!Finish, Waiting, Used, Slot
  <2>4. CASE UNCHANGED vars
    BY <2>4 DEF vars, Abstract!vars, Waiting, Used, Slot
  <2> QED
    BY <1>2, <2>1, <2>2, <2>3, <2>4 DEF Next
<1> QED
  BY <1>1, <1>2, Invariance, PTL DEF Spec, Abstract!Spec, ImplementsJobList

=============================================================================
