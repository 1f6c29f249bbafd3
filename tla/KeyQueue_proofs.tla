-------------------------- MODULE KeyQueue_proofs --------------------------
(***************************************************************************)
(* The ring of the queue of micro commands: how it is filled, also behind  *)
(* a batch that was refused half-way; that its count of free words is      *)
(* exact and it goes on at commands only; that it is empty, from its first *)
(* word on, whenever it does not run; and that it is a queue of commands,  *)
(* so that what was put is executed once and in order.  For rings of every *)
(* size, all batches of whole commands, and whatever the device sends.     *)
(*                                                                         *)
(* For the batches of the clients of KeyClients, in rings of every size    *)
(* and however many of them, also what the bytes say: each command of the  *)
(* ring gets a label, how far the device is before it, and driver and      *)
(* device agree on the one of the command that is executed.                *)
(***************************************************************************)
EXTENDS KeyClients, TLAPS, NaturalsInduction, WellFoundedInduction, SequenceTheorems

(* What a step leaves alone may be left alone because it is a record only  *)
(* as far as it is looked at: the fields of a queue at rest are there, and *)
(* only a queue that runs is executed.                                     *)
Fields == {"ring", "write", "free", "full"}
AtRest ==
  mode # "queue" => /\ DOMAIN queue = Fields
                    /\ queue = [f \in Fields |-> queue[f]]
OnlyQueueRuns == running # "no" => mode = "queue"

IInv == StartsEmpty /\ AtRest /\ OnlyQueueRuns

-----------------------------------------------------------------------------
(* How the ring is filled.  A row of words is some commands, each with all *)
(* its words; the words that wait are one row, or two: one up to a command *)
(* that goes back to the start, and one from there.                        *)
Starts(ring, i) == ring[i].op # "rest"
Rested(ring, i, next) == \A j \in i + 1 .. next - 1 : ring[j].op = "rest"

Row(ring, a, b) ==
  /\ a < b => Starts(ring, a)
  /\ \A i \in a .. b - 1 :
       LET next == i + Words[ring[i].op] IN
       Starts(ring, i) => /\ ring[i].op \in DOMAIN Words /\ next <= b
                          /\ next < b => Starts(ring, next)
                          /\ Rested(ring, i, next)

Rings  == [0 .. Size - 1 -> Cells]
Queues == [ring : Rings, write : 0 .. Size - 1, free : 0 .. Size - 1, full : BOOLEAN]

InUse(q, e, i) == IF e <= q.write THEN e <= i /\ i < q.write ELSE i < q.write \/ e <= i

Filled(q, e) ==
  \/ /\ e <= q.write /\ q.free = Size - 1 - (q.write - e)
     /\ Row(q.ring, e, q.write)
  \/ /\ q.write < e /\ q.free = e - 1 - q.write
     /\ Row(q.ring, 0, q.write)
     /\ \E r \in e .. Size - 1 : q.ring[r].op = "restore" /\ Row(q.ring, e, r)

(* What a batch makes of q: the words in use are kept, and what is put     *)
(* behind them comes no nearer to them.                                    *)
Follows(q, e, p) ==
  /\ p \in Queues
  /\ \A i \in 0 .. Size - 1 : InUse(q, e, i) => p.ring[i] = q.ring[i]
  /\ ~p.full => /\ Filled(p, e)
                /\ IF e <= q.write THEN e <= p.write => q.write <= p.write
                   ELSE q.write <= p.write /\ p.write < e

(* Each command has one word or more, and the three that the driver puts   *)
(* into the ring itself are not commands of clients.                       *)
LEMMA WordCounts ==
  /\ \A op \in DOMAIN Words : Words[op] \in 1 .. 5
  /\ "tonormal" \notin DOMAIN Words /\ "restore" \notin DOMAIN Words /\ "rest" \notin DOMAIN Words
BY DEF Words

LEMMA OwnCells ==
  /\ ToNormal \in Cells /\ Restore \in Cells /\ Rest \in Cells
  /\ ToNormal.op = "tonormal" /\ Restore.op = "restore" /\ Rest.op = "rest"
<1>1. "none" \in Bytes
  BY DEF Bytes
<1>2. ToNormal \in Cells /\ ToNormal.op = "tonormal"
  BY <1>1 DEF Cells, Cell, ToNormal
<1>3. Restore \in Cells /\ Restore.op = "restore"
  BY <1>1 DEF Cells, Cell, Restore
<1>4. Rest \in Cells /\ Rest.op = "rest"
  BY <1>1 DEF Cells, Cell, Rest
<1> QED BY <1>2, <1>3, <1>4

(* Rows: they are where their words are, end where the next one begins,    *)
(* and go on behind their first command.                                   *)
LEMMA RowSame ==
  ASSUME NEW r1, NEW r2, NEW a \in Nat, NEW b \in Nat, Row(r1, a, b),
         \A i \in a .. b - 1 : r2[i] = r1[i]
  PROVE  Row(r2, a, b)
<1>1. a < b => Starts(r2, a)
  BY DEF Row, Starts
<1>2. ASSUME NEW i \in a .. b - 1, Starts(r2, i)
      PROVE  LET next == i + Words[r2[i].op] IN
             /\ r2[i].op \in DOMAIN Words /\ next <= b /\ (next < b => Starts(r2, next))
             /\ Rested(r2, i, next)
  <2>1. r2[i] = r1[i] /\ Starts(r1, i)
    BY <1>2 DEF Starts
  <2> DEFINE next == i + Words[r1[i].op]
  <2>2. /\ r1[i].op \in DOMAIN Words /\ next <= b /\ (next < b => Starts(r1, next))
        /\ Rested(r1, i, next)
    BY <2>1 DEF Row
  <2>3. next \in Int /\ next > i
    BY <2>2, WordCounts
  <2>4. next < b => r2[next] = r1[next]
    BY <2>3
  <2>5. Rested(r2, i, next)
    <3> HIDE DEF next
    <3>1. \A j \in i + 1 .. next - 1 : j \in a .. b - 1
      BY <2>2, <2>3
    <3> QED BY <2>2, <3>1 DEF Rested
  <2> QED BY <2>1, <2>2, <2>4, <2>5 DEF Starts
<1> QED BY <1>1, <1>2 DEF Row

LEMMA RowJoin ==
  ASSUME NEW r, NEW a \in Nat, NEW b \in Nat, NEW c \in Nat, a <= b, b <= c,
         Row(r, a, b), Row(r, b, c)
  PROVE  Row(r, a, c)
<1>1. a < c => Starts(r, a)
  BY DEF Row
<1>2. ASSUME NEW i \in a .. c - 1, Starts(r, i)
      PROVE  LET next == i + Words[r[i].op] IN
             /\ r[i].op \in DOMAIN Words /\ next <= c /\ (next < c => Starts(r, next))
             /\ Rested(r, i, next)
  <2> DEFINE next == i + Words[r[i].op]
  <2>1. CASE i < b
    <3>1. /\ r[i].op \in DOMAIN Words /\ next <= b /\ (next < b => Starts(r, next))
          /\ Rested(r, i, next)
      BY <1>2, <2>1 DEF Row
    <3>2. next \in Int
      BY <3>1, WordCounts
    <3>3. next = b /\ b < c => Starts(r, next)
      BY DEF Row
    <3> QED BY <3>1, <3>2, <3>3
  <2>2. CASE i >= b
    BY <1>2, <2>2 DEF Row
  <2> QED BY <2>1, <2>2
<1> QED BY <1>1, <1>2 DEF Row

LEMMA RowGoesOn ==
  ASSUME NEW r, NEW a \in Nat, NEW b \in Nat, a < b, Row(r, a, b)
  PROVE  /\ r[a].op \in DOMAIN Words /\ Words[r[a].op] \in 1 .. 5
         /\ a + Words[r[a].op] <= b
         /\ Row(r, a + Words[r[a].op], b) /\ Rested(r, a, a + Words[r[a].op])
<1>1. r[a].op \in DOMAIN Words /\ a + Words[r[a].op] <= b
      /\ (a + Words[r[a].op] < b => Starts(r, a + Words[r[a].op]))
      /\ Rested(r, a, a + Words[r[a].op])
  BY DEF Row
<1>2. Words[r[a].op] \in 1 .. 5
  BY <1>1, WordCounts
<1>3. Row(r, a + Words[r[a].op], b)
  BY <1>1, <1>2 DEF Row
<1> QED BY <1>1, <1>2, <1>3

(* The words of a group make a row wherever they are laid. *)
LEMMA GroupIsRow ==
  ASSUME NEW group, IsGroup(group), NEW w \in Nat, NEW r,
         \A i \in w .. w + Len(group) - 1 : r[i] = group[i - w + 1]
  PROVE  Len(group) \in Nat \ {0} /\ Row(r, w, w + Len(group))
<1> DEFINE n == Len(group)
<1>1. group \in Seq(Cells) /\ group # <<>> /\ group[1].op # "rest"
  BY DEF IsGroup
<1>2. n \in Nat /\ n # 0
  BY <1>1
<1>3. r[w] = group[1]
  BY <1>2
<1>6. \A i \in w .. w + n - 1 : r[i] = group[i - w + 1]
  OBVIOUS
<1>4. ASSUME NEW i \in w .. w + n - 1, Starts(r, i)
      PROVE  LET next == i + Words[r[i].op] IN
             /\ r[i].op \in DOMAIN Words /\ next <= w + n /\ (next < w + n => Starts(r, next))
             /\ Rested(r, i, next)
  <2> DEFINE j == i - w + 1
             behind == j + Words[group[j].op]
  <2>1. j \in 1 .. n /\ r[i] = group[j] /\ group[j].op # "rest"
    BY <1>2, <1>4 DEF Starts
  <2>2. /\ group[j].op \in DOMAIN Words /\ behind <= n + 1
        /\ (behind <= n => group[behind].op # "rest")
        /\ \A l \in j + 1 .. behind - 1 : group[l] = Rest
    BY <2>1 DEF IsGroup
  <2> DEFINE k == Words[group[j].op]
             next == i + k
  <2>3. k \in 1 .. 5 /\ behind = j + k /\ n \in Nat /\ j = i - w + 1
    BY <1>2, <2>2, WordCounts
  <2> HIDE DEF k, n, behind, j
  <2>4. next < w + n => next \in w .. w + n - 1 /\ next - w + 1 = behind /\ behind <= n
    BY <2>1, <2>3
  <2>5. next < w + n => Starts(r, next)
    BY <2>2, <2>4, <1>6 DEF Starts
  <2>6. next <= w + n
    BY <2>1, <2>2, <2>3
  <2>7. Rested(r, i, next)
    <3> SUFFICES ASSUME NEW l \in i + 1 .. next - 1 PROVE r[l].op = "rest"
      BY DEF Rested
    <3>1. l \in w .. w + n - 1 /\ l - w + 1 \in j + 1 .. behind - 1
      BY <2>1, <2>2, <2>3
    <3> QED BY <1>6, <2>2, <3>1, OwnCells
  <2> USE DEF k
  <2> QED BY <2>1, <2>2, <2>5, <2>6, <2>7
<1>5. Starts(r, w)
  BY <1>1, <1>3 DEF Starts
<1> QED BY <1>2, <1>4, <1>5 DEF Row

(* A ring is filled where its words are. *)
LEMMA FilledSame ==
  ASSUME NEW q \in Queues, NEW e \in 0 .. Size - 1, Filled(q, e), NEW p,
         p.write = q.write, p.free = q.free,
         \A i \in 0 .. Size - 1 : InUse(q, e, i) => p.ring[i] = q.ring[i]
  PROVE  Filled(p, e)
<1>1. q.write \in 0 .. Size - 1 /\ Size \in Nat /\ q.write \in Nat /\ e \in Nat
  BY SizeAssumption DEF Queues
<1> DEFINE from == q.ring  to == p.ring
<1>2. CASE e <= q.write
  <2>1. q.free = Size - 1 - (q.write - e) /\ Row(q.ring, e, q.write)
    BY <1>1, <1>2 DEF Filled
  <2>2. \A i \in e .. q.write - 1 : to[i] = from[i]
    BY <1>1, <1>2 DEF InUse
  <2>3. Row(to, e, q.write)
    <3>1. Row(from, e, q.write)
      BY <2>1
    <3> HIDE DEF from, to
    <3> QED BY <1>1, <2>2, <3>1, RowSame
  <2> QED BY <1>2, <2>1, <2>3 DEF Filled
<1>3. CASE q.write < e
  <2>1. q.free = e - 1 - q.write /\ Row(q.ring, 0, q.write)
    BY <1>1, <1>3 DEF Filled
  <2>2. PICK r \in e .. Size - 1 : q.ring[r].op = "restore" /\ Row(q.ring, e, r)
    BY <1>1, <1>3 DEF Filled
  <2>3. \A i \in 0 .. q.write - 1 : to[i] = from[i]
    BY <1>1, <1>3 DEF InUse
  <2>4. \A i \in e .. r - 1 : to[i] = from[i]
    BY <1>1, <1>3 DEF InUse
  <2>5. Row(to, 0, q.write)
    <3>1. Row(from, 0, q.write)
      BY <2>1
    <3> HIDE DEF from, to
    <3> QED BY <1>1, <2>3, <3>1, RowSame
  <2>6. Row(to, e, r)
    <3>1. Row(from, e, r) /\ r \in Nat
      BY <2>2
    <3> HIDE DEF from, to
    <3> QED BY <1>1, <2>4, <3>1, RowSame
  <2>7. to[r].op = "restore"
    BY <1>1, <1>3, <2>2 DEF InUse
  <2> QED BY <1>3, <2>1, <2>5, <2>6, <2>7 DEF Filled
<1> QED BY <1>1, <1>2, <1>3

(* A group is put in nowhere else than behind the words in use: it is      *)
(* refused, or it ends before the end of the ring, or it starts again at   *)
(* its start.                                                              *)
Laid(ring, w, group) ==
  [i \in 0 .. Size - 1 |-> IF i \in w .. w + Len(group) - 1 THEN group[i - w + 1] ELSE ring[i]]

LEMMA LaidGroup ==
  ASSUME NEW ring \in Rings, NEW group, IsGroup(group), NEW w \in Nat, w + Len(group) <= Size
  PROVE  /\ Len(group) \in Nat \ {0}
         /\ Laid(ring, w, group) \in Rings
         /\ \A i \in 0 .. Size - 1 :
              i < w \/ i >= w + Len(group) => Laid(ring, w, group)[i] = ring[i]
         /\ Row(Laid(ring, w, group), w, w + Len(group))
<1> DEFINE n == Len(group)
           r == Laid(ring, w, group)
<1>1. group \in Seq(Cells) /\ n \in Nat /\ \A k \in 1 .. n : group[k] \in Cells
  BY DEF IsGroup
<1>2. \A i \in w .. w + n - 1 : i - w + 1 \in 1 .. n
  BY <1>1
<1>3. r \in Rings
  BY <1>1, <1>2 DEF Laid, Rings
<1>4. \A i \in w .. w + n - 1 : i \in 0 .. Size - 1 /\ r[i] = group[i - w + 1]
  BY <1>1, SizeAssumption DEF Laid
<1>5. \A i \in 0 .. Size - 1 : i < w \/ i >= w + n => r[i] = ring[i]
  BY <1>1 DEF Laid
<1>6. Row(r, w, w + n) /\ n # 0
  <2> HIDE DEF r
  <2> QED BY <1>4, GroupIsRow
<1> QED BY <1>1, <1>3, <1>5, <1>6

LEMMA QueueChange ==
  ASSUME NEW q \in Queues, NEW r \in Rings, NEW w \in 0 .. Size - 1
  PROVE  LET p == [q EXCEPT !.ring = r, !.write = w] IN
         p \in Queues /\ p.ring = r /\ p.write = w /\ p.free = q.free /\ p.full = q.full
BY DEF Queues

LEMMA LastChange ==
  ASSUME NEW q \in Queues, NEW r, NEW w, NEW r2, NEW w2, NEW f
  PROVE  [[q EXCEPT !.ring = r, !.write = w] EXCEPT !.ring = r2, !.write = w2, !.free = f]
           = [q EXCEPT !.ring = r2, !.write = w2, !.free = f]
BY DEF Queues

LEMMA PutIs ==
  ASSUME NEW q \in Queues, ~q.full, NEW group, IsGroup(group)
  PROVE  LET n    == Len(group)
             skip == Size - q.write
             ring == [q.ring EXCEPT ![q.write] = Restore]
             g    == Put(q, group)
         IN \/ g = [q EXCEPT !.full = TRUE]
            \/ g = [q EXCEPT !.ring = ring, !.write = 0, !.full = TRUE]
            \/ /\ q.write + n < Size /\ n <= q.free
               /\ g = [q EXCEPT !.ring = Laid(q.ring, q.write, group), !.write = q.write + n,
                                !.free = q.free - n]
            \/ /\ q.write + n >= Size /\ n + skip <= q.free
               /\ g = [q EXCEPT !.ring = Laid(ring, 0, group), !.write = n,
                                !.free = q.free - n - skip]
<1> DEFINE n    == Len(group)
           wrap == q.write + n >= Size
           skip == IF wrap THEN Size - q.write ELSE 0
           q1   == IF wrap THEN [q EXCEPT !.ring[q.write] = Restore, !.write = 0] ELSE q
           ring == [q.ring EXCEPT ![q.write] = Restore]
           g    == Put(q, group)
<1>1. n \in Nat /\ q.write \in 0 .. Size - 1 /\ q.free \in 0 .. Size - 1 /\ Size \in Nat
      /\ q.ring \in Rings /\ ring \in Rings
  <2>1. Restore \in Cells
    BY OwnCells
  <2> QED BY <2>1, SizeAssumption DEF IsGroup, Queues, Rings
<1>2. g = IF q.free < n THEN [q EXCEPT !.full = TRUE]
          ELSE IF q.free - n < skip THEN [q1 EXCEPT !.full = TRUE]
          ELSE Lay([q1 EXCEPT !.free = @ - n - skip], group)
  BY DEF Put
<1>3. wrap => q1 = [q EXCEPT !.ring = ring, !.write = 0]
  BY DEF Queues
<1>4. ASSUME NEW p \in Queues, NEW f \in Int
      PROVE  Lay([p EXCEPT !.free = f], group)
               = [p EXCEPT !.ring = Laid(p.ring, p.write, group), !.write = p.write + n, !.free = f]
  <2> DEFINE p1 == [p EXCEPT !.free = f]
  <2>1. DOMAIN p.ring = 0 .. Size - 1
    BY DEF Queues, Rings
  <2>2. p1.ring = p.ring /\ p1.write = p.write /\ DOMAIN p1.ring = 0 .. Size - 1
    BY <2>1 DEF Queues
  <2>3. Lay(p1, group) = [p1 EXCEPT !.ring = Laid(p.ring, p.write, group), !.write = p.write + n]
    BY <2>2 DEF Lay, Laid, Queues
  <2> QED BY <2>3 DEF Queues
<1>5. CASE q.free < n
  BY <1>2, <1>5
<1>6. CASE n <= q.free /\ ~wrap
  <2>1. skip = 0 /\ q1 = q /\ q.free - n - skip = q.free - n
    BY <1>1, <1>6
  <2>2. g = Lay([q EXCEPT !.free = q.free - n], group)
    <3> HIDE DEF g, q1, skip, n
    <3> QED BY <1>1, <1>2, <1>6, <2>1
  <2>3. g = [q EXCEPT !.ring = Laid(q.ring, q.write, group), !.write = q.write + n,
                      !.free = q.free - n]
    <3>1. q.free - n \in Int
      BY <1>1
    <3> HIDE DEF g
    <3> QED BY <1>4, <2>2, <3>1
  <2>4. q.write + n < Size /\ n <= q.free
    BY <1>1, <1>6
  <2> QED BY <2>3, <2>4
<1>7. CASE n <= q.free /\ wrap /\ q.free - n < skip
  BY <1>1, <1>2, <1>3, <1>7 DEF Queues
<1>8. CASE n <= q.free /\ wrap /\ ~(q.free - n < skip)
  <2>1. q1 \in Queues /\ q1.free = q.free /\ q1.write = 0 /\ q1.ring = ring
    <3>1. q1 = [q EXCEPT !.ring = ring, !.write = 0] /\ 0 \in 0 .. Size - 1
      BY <1>1, <1>3, <1>8
    <3> HIDE DEF q1, ring
    <3>2. q \in Queues /\ ring \in Rings
      BY <1>1
    <3>3. q1 \in Queues
      BY <3>1, <3>2, QueueChange
    <3>4. q1.free = q.free
      BY <3>1 DEF Queues
    <3>5. q1.write = 0
      BY <3>1, <3>2 DEF Queues
    <3>6. q1.ring = ring
      BY <3>1, <3>2 DEF Queues
    <3> QED BY <3>3, <3>4, <3>5, <3>6
  <2>2. skip = Size - q.write /\ q.free - n - skip \in Int
    BY <1>1, <1>8
  <2>3. g = Lay([q1 EXCEPT !.free = q.free - n - skip], group)
    <3> HIDE DEF g, q1, skip, n
    <3> QED BY <1>1, <1>2, <1>8, <2>1
  <2>4. g = [q1 EXCEPT !.ring = Laid(ring, 0, group), !.write = 0 + n, !.free = q.free - n - skip]
    <3> HIDE DEF g, q1, skip, n, ring
    <3> USE DEF n
    <3> QED BY <1>4, <2>1, <2>2, <2>3
  <2>5. g = [q EXCEPT !.ring = Laid(ring, 0, group), !.write = n, !.free = q.free - n - skip]
    <3>1. q1 = [q EXCEPT !.ring = ring, !.write = 0] /\ 0 \in 0 .. Size - 1 /\ 0 + n = n
      BY <1>1, <1>3, <1>8
    <3> HIDE DEF g, q1, skip, n, ring
    <3> QED BY <1>1, <2>4, <3>1, LastChange
  <2>6. q.write + n >= Size /\ n + skip <= q.free
    BY <1>1, <1>8, <2>2
  <2> QED BY <2>2, <2>5, <2>6
<1> QED BY <1>1, <1>5, <1>6, <1>7, <1>8

(* So what a group makes of a queue follows what other groups made of it.  *)
LEMMA PutFollows ==
  ASSUME NEW q \in Queues, NEW e \in 0 .. Size - 1, NEW p, Follows(q, e, p),
         NEW group, IsGroup(group)
  PROVE  Follows(q, e, Put(p, group))
<1> DEFINE n    == Len(group)
           skip == Size - p.write
           ring == [p.ring EXCEPT ![p.write] = Restore]
           g    == Put(p, group)
<1>1. CASE p.full
  BY <1>1 DEF Put
<1> SUFFICES ASSUME ~p.full PROVE Follows(q, e, g)
  BY <1>1
<1>2. p \in Queues /\ Filled(p, e)
      /\ (IF e <= q.write THEN e <= p.write => q.write <= p.write
          ELSE q.write <= p.write /\ p.write < e)
      /\ \A i \in 0 .. Size - 1 : InUse(q, e, i) => p.ring[i] = q.ring[i]
  BY DEF Follows
<1>3. /\ q.write \in 0 .. Size - 1 /\ p.write \in 0 .. Size - 1 /\ p.free \in 0 .. Size - 1
      /\ p.ring \in Rings /\ Size \in Nat /\ p.write \in Nat /\ e \in Nat
  BY <1>2, SizeAssumption DEF Queues
<1>4. Restore \in Cells /\ Restore.op = "restore"
  BY OwnCells
<1>5. /\ ring \in Rings /\ ring[p.write] = Restore
      /\ \A i \in 0 .. Size - 1 : i # p.write => ring[i] = p.ring[i]
  BY <1>3, <1>4 DEF Rings
<1>6. ~InUse(q, e, p.write)
  BY <1>2, <1>3 DEF InUse
<1>7. n \in Nat \ {0}
  <2>1. n \in Nat
    BY DEF IsGroup
  <2>2. IsGroup(group) => group # <<>> /\ group \in Seq(Cells)
    BY DEF IsGroup
  <2> QED BY <2>1, <2>2
<1> HIDE DEF ring, g, n
<1>8. CASE g = [p EXCEPT !.full = TRUE]
  <2>1. g \in Queues /\ g.full /\ g.ring = p.ring
    BY <1>2, <1>8 DEF Queues
  <2> QED BY <1>2, <2>1 DEF Follows
<1>9. CASE g = [p EXCEPT !.ring = ring, !.write = 0, !.full = TRUE]
  <2>1. g \in Queues /\ g.full /\ g.ring = ring
    <3>1. 0 \in 0 .. Size - 1
      BY <1>3
    <3> QED BY <1>2, <1>5, <1>9, <3>1 DEF Queues
  <2>2. \A i \in 0 .. Size - 1 : InUse(q, e, i) => g.ring[i] = q.ring[i]
    BY <1>2, <1>5, <1>6, <2>1
  <2> QED BY <2>1, <2>2 DEF Follows
<1>10. CASE /\ p.write + n < Size /\ n <= p.free
            /\ g = [p EXCEPT !.ring = Laid(p.ring, p.write, group), !.write = p.write + n,
                             !.free = p.free - n]
  <2> DEFINE to == Laid(p.ring, p.write, group)
  <2>1. /\ to \in Rings /\ Row(to, p.write, p.write + n)
        /\ \A i \in 0 .. Size - 1 : i < p.write \/ i >= p.write + n => to[i] = p.ring[i]
    BY <1>3, <1>10, LaidGroup DEF n
  <2> HIDE DEF to
  <2>2. /\ g \in Queues /\ g.ring = to /\ g.write = p.write + n /\ g.free = p.free - n
        /\ ~g.full
    <3>1. g = [p EXCEPT !.ring = to, !.write = p.write + n, !.free = p.free - n]
      BY <1>10 DEF to
    <3>2. p.write + n \in 0 .. Size - 1 /\ p.free - n \in 0 .. Size - 1
      BY <1>3, <1>7, <1>10
    <3> QED BY <1>2, <2>1, <3>1, <3>2 DEF Queues
  <2>3. CASE e <= p.write
    <3>1. p.free = Size - 1 - (p.write - e) /\ Row(p.ring, e, p.write)
      BY <1>2, <1>3, <2>3 DEF Filled
    <3>2. Row(to, e, p.write)
      <4> DEFINE from == p.ring
      <4>1. Row(from, e, p.write) /\ \A i \in e .. p.write - 1 : to[i] = from[i]
        BY <1>3, <2>1, <3>1
      <4> HIDE DEF from
      <4> QED BY <1>3, <4>1, RowSame
    <3>3. Row(to, e, p.write + n)
      BY <1>3, <1>7, <2>1, <2>3, <3>2, RowJoin
    <3>4. Filled(g, e)
      BY <1>3, <1>7, <2>2, <2>3, <3>1, <3>3 DEF Filled
    <3>5. e <= q.write /\ q.write <= g.write
      BY <1>2, <1>3, <1>7, <2>2, <2>3
    <3>6. \A i \in 0 .. Size - 1 : InUse(q, e, i) => to[i] = q.ring[i]
      BY <1>2, <1>3, <2>1, <2>3, <3>5 DEF InUse
    <3> QED BY <2>2, <3>4, <3>5, <3>6 DEF Follows
  <2>4. CASE p.write < e
    <3>1. p.free = e - 1 - p.write /\ Row(p.ring, 0, p.write)
      BY <1>2, <1>3, <2>4 DEF Filled
    <3>2. PICK r \in e .. Size - 1 : p.ring[r].op = "restore" /\ Row(p.ring, e, r)
      BY <1>2, <1>3, <2>4 DEF Filled
    <3>3. g.write < e
      BY <1>3, <1>7, <1>10, <2>2, <3>1
    <3>4. Row(to, 0, p.write) /\ Row(to, e, r)
      <4> DEFINE from == p.ring
      <4>1. Row(from, 0, p.write) /\ \A i \in 0 .. p.write - 1 : to[i] = from[i]
        BY <1>3, <2>1, <3>1
      <4>2. Row(from, e, r) /\ \A i \in e .. r - 1 : to[i] = from[i]
        <5>1. \A i \in e .. r - 1 : i \in 0 .. Size - 1 /\ i >= p.write + n
          BY <1>3, <1>7, <2>2, <3>3
        <5> QED BY <2>1, <3>2, <5>1
      <4> HIDE DEF from
      <4>3. Row(to, 0, p.write)
        BY <1>3, <4>1, RowSame
      <4>4. Row(to, e, r)
        BY <1>3, <4>2, RowSame
      <4> QED BY <4>3, <4>4
    <3>5. Row(to, 0, p.write + n)
      BY <1>3, <1>7, <2>1, <2>4, <3>4, RowJoin
    <3>6. to[r].op = "restore"
      BY <1>3, <1>7, <2>1, <2>2, <3>2, <3>3
    <3>7. g.free = e - 1 - g.write
      BY <1>3, <1>7, <2>2, <3>1
    <3>8. Row(g.ring, 0, g.write)
      BY <2>2, <3>5
    <3>9. \E k \in e .. Size - 1 : g.ring[k].op = "restore" /\ Row(g.ring, e, k)
      BY <2>2, <3>4, <3>6
    <3>10. Filled(g, e)
      BY <3>3, <3>7, <3>8, <3>9 DEF Filled
    <3>11. IF e <= q.write THEN e <= g.write => q.write <= g.write
           ELSE q.write <= g.write /\ g.write < e
      BY <1>2, <1>3, <1>7, <2>2, <3>3
    <3>12. \A i \in 0 .. Size - 1 : InUse(q, e, i) => to[i] = q.ring[i]
      <4> TAKE i \in 0 .. Size - 1
      <4>1. InUse(q, e, i) => i < p.write \/ i >= p.write + n
        BY <1>2, <1>3, <1>7, <2>2, <2>4, <3>3 DEF InUse
      <4> QED BY <1>2, <2>1, <4>1
    <3> QED BY <2>2, <3>10, <3>11, <3>12 DEF Follows
  <2> QED BY <1>3, <2>3, <2>4
<1>11. CASE /\ p.write + n >= Size /\ n + skip <= p.free
            /\ g = [p EXCEPT !.ring = Laid(ring, 0, group), !.write = n,
                             !.free = p.free - n - skip]
  <2> DEFINE to == Laid(ring, 0, group)
  <2>1. e <= p.write
    <3> SUFFICES ASSUME p.write < e PROVE FALSE
      BY <1>3
    <3>1. p.free = e - 1 - p.write
      BY <1>2, <1>3 DEF Filled
    <3> QED BY <1>3, <1>7, <1>11, <3>1
  <2>2. p.free = Size - 1 - (p.write - e) /\ Row(p.ring, e, p.write)
    BY <1>2, <1>3, <2>1 DEF Filled
  <2>3. n < e /\ n < Size
    BY <1>3, <1>7, <1>11, <2>2
  <2>4. /\ to \in Rings /\ Row(to, 0, n)
        /\ \A i \in 0 .. Size - 1 : i >= n => to[i] = ring[i]
    <3>1. 0 + Len(group) <= Size /\ 0 + n = n
      BY <1>3, <1>7, <2>3 DEF n
    <3> QED BY <1>5, <3>1, LaidGroup DEF n
  <2> HIDE DEF to
  <2>5. p.free - n - skip = e - 1 - n /\ e - 1 - n \in 0 .. Size - 1
    BY <1>3, <1>7, <2>2, <2>3
  <2>6. /\ g \in Queues /\ g.ring = to /\ g.write = n /\ g.free = e - 1 - n
        /\ ~g.full
    <3>1. g = [p EXCEPT !.ring = to, !.write = n, !.free = e - 1 - n]
      BY <1>11, <2>5 DEF to
    <3>2. n \in 0 .. Size - 1
      BY <1>3, <1>7, <2>3
    <3> HIDE DEF skip
    <3> QED BY <1>2, <2>4, <2>5, <3>1, <3>2 DEF Queues
  <2>7. Row(to, e, p.write)
    <3> DEFINE from == p.ring
    <3>1. Row(from, e, p.write) /\ \A i \in e .. p.write - 1 : to[i] = from[i]
      <4>1. \A i \in e .. p.write - 1 : i \in 0 .. Size - 1 /\ i >= n /\ i # p.write
        BY <1>3, <1>7, <2>3
      <4> QED BY <1>5, <2>2, <2>4, <4>1
    <3> HIDE DEF from
    <3> QED BY <1>3, <3>1, RowSame
  <2>8. to[p.write].op = "restore"
    <3>1. p.write \in 0 .. Size - 1 /\ p.write >= n
      BY <1>3, <1>7, <2>1, <2>3
    <3> QED BY <1>4, <1>5, <2>4, <3>1
  <2>9. g.write < e
    BY <2>3, <2>6
  <2>10. \E k \in e .. Size - 1 : g.ring[k].op = "restore" /\ Row(g.ring, e, k)
    BY <1>3, <2>1, <2>6, <2>7, <2>8
  <2>11. Filled(g, e)
    BY <2>4, <2>6, <2>9, <2>10 DEF Filled
  <2>12. e <= q.write
    BY <1>2, <1>3, <2>1
  <2>13. \A i \in 0 .. Size - 1 : InUse(q, e, i) => to[i] = q.ring[i]
    <3> TAKE i \in 0 .. Size - 1
    <3>1. InUse(q, e, i) => i >= n /\ i # p.write
      BY <1>2, <1>3, <1>6, <1>7, <2>3, <2>12 DEF InUse
    <3> QED BY <1>2, <1>5, <2>4, <3>1
  <2>14. ~(e <= g.write)
    BY <1>7, <2>6, <2>9
  <2> QED BY <2>6, <2>11, <2>12, <2>13, <2>14 DEF Follows
<1> QED
  <2>1. \/ g = [p EXCEPT !.full = TRUE]
        \/ g = [p EXCEPT !.ring = ring, !.write = 0, !.full = TRUE]
        \/ /\ p.write + n < Size /\ n <= p.free
           /\ g = [p EXCEPT !.ring = Laid(p.ring, p.write, group), !.write = p.write + n,
                            !.free = p.free - n]
        \/ /\ p.write + n >= Size /\ n + skip <= p.free
           /\ g = [p EXCEPT !.ring = Laid(ring, 0, group), !.write = n,
                            !.free = p.free - n - skip]
    BY <1>2, PutIs DEF g, n, ring
  <2> QED BY <1>8, <1>9, <1>10, <1>11, <2>1

(* The smallest of a set of numbers, for induction. *)
LEMMA Smallest ==
  ASSUME NEW S, S \subseteq Nat, S # {}
  PROVE  \E m \in S : \A k \in S : m <= k
<1> DEFINE R == OpToRel(<, Nat)
<1>1. \A x, y \in Nat : <<x, y>> \in R <=> x < y
  BY DEF OpToRel
<1>2. IsWellFoundedOn(R, Nat)
  BY NatLessThanWellFounded
<1> HIDE DEF R
<1>3. PICK m \in S : \A y \in S : ~(<<y, m>> \in R)
  BY <1>2, WFMin
<1>4. \A y \in S : ~(y < m)
  BY <1>1, <1>3
<1> QED BY <1>4

(* The function by which the groups of a batch are put in, one after the   *)
(* other, exists.                                                          *)
IsPut(f, q, batch, m) ==
  f = [k \in 0 .. m |-> IF k = 0 THEN q ELSE Put(f[k - 1], batch[k])]

LEMMA PutExists ==
  ASSUME NEW q, NEW batch, NEW m \in Nat
  PROVE  \E f : IsPut(f, q, batch, m)
<1> DEFINE Without == {k \in Nat : ~\E f : IsPut(f, q, batch, k)}
<1>1. SUFFICES ASSUME Without # {} PROVE FALSE
  OBVIOUS
<1>2. PICK l \in Without : \A k \in Without : l <= k
  BY <1>1, Smallest
<1>3. CASE l = 0
  <2> DEFINE f == [k \in 0 .. 0 |-> q]
  <2>1. IsPut(f, q, batch, 0)
    BY DEF IsPut
  <2> QED BY <1>3, <2>1
<1>4. CASE l # 0
  <2>1. l - 1 \in Nat /\ l - 1 \notin Without
    BY <1>2, <1>4
  <2>2. PICK f : IsPut(f, q, batch, l - 1)
    BY <2>1
  <2> DEFINE g == [k \in 0 .. l |-> IF k = l THEN Put(f[l - 1], batch[l]) ELSE f[k]]
  <2>3. \A k \in 0 .. l - 1 : g[k] = f[k]
    BY <2>1
  <2>4. \A k \in 0 .. l - 1 : f[k] = IF k = 0 THEN q ELSE Put(f[k - 1], batch[k])
    BY <2>2 DEF IsPut
  <2>5. \A k \in 0 .. l : g[k] = IF k = 0 THEN q ELSE Put(g[k - 1], batch[k])
    <3> TAKE k \in 0 .. l
    <3>1. CASE k = l
      BY <1>4, <2>1, <2>3, <3>1
    <3>2. CASE k # l
      <4>1. k \in 0 .. l - 1 /\ (k # 0 => k - 1 \in 0 .. l - 1)
        BY <2>1, <3>2
      <4> QED BY <2>3, <2>4, <4>1
    <3> QED BY <3>1, <3>2
  <2>6. g = [k \in 0 .. l |-> g[k]]
    OBVIOUS
  <2> HIDE DEF g
  <2>7. IsPut(g, q, batch, l)
    BY <2>5, <2>6 DEF IsPut
  <2> QED BY <2>7
<1> QED BY <1>3, <1>4

(* A batch as a client hands it in.                                        *)
IsBatch(batch) == batch \in Seq(Seq(Cells)) /\ \A k \in 1 .. Len(batch) : IsGroup(batch[k])

LEMMA AllPutFollows ==
  ASSUME NEW q \in Queues, NEW e \in 0 .. Size - 1, Filled(q, e),
         NEW batch, IsBatch(batch)
  PROVE  Follows(q, e, AllPut(q, batch))
<1> DEFINE m == Len(batch)
           Is(f) == f = [k \in 0 .. m |-> IF k = 0 THEN q ELSE Put(f[k - 1], batch[k])]
           put == CHOOSE f : Is(f)
<1>1. m \in Nat /\ \A k \in 1 .. m : IsGroup(batch[k])
  BY DEF IsBatch
<1>2. \E f : Is(f)
  <2> HIDE DEF m
  <2>1. PICK f : IsPut(f, q, batch, m)
    BY <1>1, PutExists
  <2> QED BY <2>1 DEF IsPut
<1>3. Is(put)
  BY <1>2
<1>4. AllPut(q, batch) = put[m]
  BY DEF AllPut
<1> HIDE DEF m, put
<1>5. \A k \in 0 .. m : put[k] = IF k = 0 THEN q ELSE Put(put[k - 1], batch[k])
  BY <1>3
<1>6. Follows(q, e, q)
  <2>1. q.write \in 0 .. Size - 1 /\ Size \in Nat
    BY SizeAssumption DEF Queues
  <2> QED BY <2>1 DEF Follows
<1> DEFINE Bad == {k \in 0 .. m : ~Follows(q, e, put[k])}
<1>7. Bad = {}
  <2> SUFFICES ASSUME Bad # {} PROVE FALSE
    OBVIOUS
  <2>1. PICK l \in Bad : \A k \in Bad : l <= k
    <3>1. Bad \subseteq Nat
      OBVIOUS
    <3> HIDE DEF Bad
    <3> QED BY <3>1, Smallest
  <2>2. CASE l = 0
    BY <1>1, <1>5, <1>6, <2>2
  <2>3. CASE l # 0
    <3>1. l - 1 \in 0 .. m /\ l - 1 \notin Bad /\ l \in 1 .. m
      BY <1>1, <2>1, <2>3
    <3>2. Follows(q, e, put[l - 1]) /\ IsGroup(batch[l])
      BY <1>1, <3>1
    <3>3. Follows(q, e, Put(put[l - 1], batch[l]))
      BY <3>2, PutFollows
    <3> QED BY <1>5, <2>1, <2>3, <3>3
  <2> QED BY <2>2, <2>3
<1>8. m \in 0 .. m
  BY <1>1
<1> QED BY <1>4, <1>7, <1>8

(* Accepted or refused, a batch leaves a queue that ends where the words   *)
(* in use do, and keeps those that were in use.                            *)
LEMMA PutAllHolds ==
  ASSUME NEW q \in Queues, ~q.full, NEW e \in 0 .. Size - 1, Filled(q, e),
         NEW batch, IsBatch(batch)
  PROVE  LET p == PutAll(q, batch) IN
         /\ p \in Queues /\ ~p.full /\ Filled(p, e)
         /\ p.ring[p.write] = ToNormal
         /\ \A i \in 0 .. Size - 1 : InUse(q, e, i) => p.ring[i] = q.ring[i]
<1> DEFINE q1 == AllPut(q, batch)
           p  == PutAll(q, batch)
           r1 == [q1.ring EXCEPT ![q.write] = ToNormal]
           r2 == [q1.ring EXCEPT ![q1.write] = ToNormal]
<1>1. Follows(q, e, q1)
  BY AllPutFollows
<1>2. p = IF q1.full THEN [q EXCEPT !.ring = r1] ELSE [q1 EXCEPT !.ring = r2]
  BY DEF PutAll
<1> HIDE DEF q1, p
<1>3. q1 \in Queues /\ \A i \in 0 .. Size - 1 : InUse(q, e, i) => q1.ring[i] = q.ring[i]
  BY <1>1 DEF Follows
<1>4. /\ q.write \in 0 .. Size - 1 /\ q1.write \in 0 .. Size - 1 /\ q1.ring \in Rings
      /\ ToNormal \in Cells
  BY <1>3, OwnCells DEF Queues
<1>5. CASE q1.full
  <2>1. /\ r1 \in Rings /\ r1[q.write] = ToNormal
        /\ \A i \in 0 .. Size - 1 : i # q.write => r1[i] = q1.ring[i]
    BY <1>4 DEF Rings
  <2>2. ~InUse(q, e, q.write)
    BY <1>4 DEF InUse
  <2> HIDE DEF r1
  <2>3. p \in Queues /\ p.ring = r1 /\ p.write = q.write /\ p.free = q.free /\ ~p.full
    BY <1>2, <1>5, <2>1 DEF Queues
  <2>4. \A i \in 0 .. Size - 1 : InUse(q, e, i) => p.ring[i] = q.ring[i]
    BY <1>3, <2>1, <2>2, <2>3
  <2>5. Filled(p, e)
    BY <2>3, <2>4, FilledSame
  <2> QED BY <2>1, <2>3, <2>4, <2>5 DEF p
<1>6. CASE ~q1.full
  <2>1. /\ r2 \in Rings /\ r2[q1.write] = ToNormal
        /\ \A i \in 0 .. Size - 1 : i # q1.write => r2[i] = q1.ring[i]
    BY <1>4 DEF Rings
  <2>2. Filled(q1, e) /\ (IF e <= q.write THEN e <= q1.write => q.write <= q1.write
                          ELSE q.write <= q1.write /\ q1.write < e)
    BY <1>1, <1>6 DEF Follows
  <2>3. ~InUse(q, e, q1.write) /\ ~InUse(q1, e, q1.write)
    BY <1>4, <2>2 DEF InUse
  <2> HIDE DEF r2
  <2>4. p \in Queues /\ p.ring = r2 /\ p.write = q1.write /\ p.free = q1.free /\ ~p.full
    BY <1>2, <1>3, <1>6, <2>1 DEF Queues
  <2>5. \A i \in 0 .. Size - 1 : InUse(q, e, i) => p.ring[i] = q.ring[i]
    BY <1>3, <2>1, <2>3, <2>4
  <2>6. \A i \in 0 .. Size - 1 : InUse(q1, e, i) => p.ring[i] = q1.ring[i]
    BY <2>1, <2>3, <2>4
  <2>7. Filled(p, e)
    BY <1>3, <2>2, <2>4, <2>6, FilledSame
  <2> QED BY <2>1, <2>4, <2>5, <2>7 DEF p
<1> QED BY <1>5, <1>6

(* The words of a command that is done are free, and the next one is where *)
(* the queue goes on.                                                      *)
LEMMA Advanced ==
  ASSUME NEW q \in Queues, NEW e \in 0 .. Size - 1, Filled(q, e),
         q.ring[q.write] = ToNormal, q.ring[e].op \in DOMAIN Words
  PROVE  LET n == Words[q.ring[e].op]
             p == [q EXCEPT !.free = @ + n]
         IN /\ e + n \in 0 .. Size - 1
            /\ p \in Queues /\ p.full = q.full /\ p.ring = q.ring /\ p.write = q.write
            /\ Filled(p, e + n)
<1> DEFINE ring == q.ring
           n == Words[ring[e].op]
           p == [q EXCEPT !.free = @ + n]
<1>1. /\ q.write \in 0 .. Size - 1 /\ q.free \in 0 .. Size - 1 /\ Size \in Nat /\ e \in Nat
      /\ q.write \in Nat
  BY SizeAssumption DEF Queues
<1>2. n \in 1 .. 5
  BY WordCounts
<1>3. e # q.write
  BY WordCounts, OwnCells
<1>4. CASE e <= q.write
  <2>1. q.free = Size - 1 - (q.write - e) /\ Row(ring, e, q.write) /\ e < q.write
    BY <1>1, <1>3, <1>4 DEF Filled
  <2>2. e + n <= q.write /\ Row(ring, e + n, q.write)
    <3> HIDE DEF ring
    <3> USE DEF n
    <3> QED BY <1>1, <2>1, RowGoesOn
  <2> HIDE DEF n
  <2>3. q.free + n = Size - 1 - (q.write - (e + n)) /\ q.free + n \in 0 .. Size - 1
        /\ e + n \in 0 .. Size - 1
    BY <1>1, <1>2, <2>1, <2>2
  <2>4. p \in Queues /\ p.full = q.full /\ p.ring = ring /\ p.write = q.write
        /\ p.free = q.free + n
    BY <2>3 DEF Queues
  <2>5. Filled(p, e + n)
    <3> HIDE DEF p
    <3> QED BY <2>2, <2>3, <2>4 DEF Filled
  <2> QED BY <2>3, <2>4, <2>5 DEF n
<1>5. CASE q.write < e
  <2>1. q.free = e - 1 - q.write /\ Row(ring, 0, q.write)
    BY <1>1, <1>5 DEF Filled
  <2>2. PICK r \in e .. Size - 1 : ring[r].op = "restore" /\ Row(ring, e, r)
    BY <1>1, <1>5 DEF Filled
  <2>3. e < r /\ r \in Nat
    BY <1>1, <2>2, WordCounts
  <2>4. e + n <= r /\ Row(ring, e + n, r)
    <3> HIDE DEF ring
    <3> USE DEF n
    <3> QED BY <1>1, <2>2, <2>3, RowGoesOn
  <2> HIDE DEF n
  <2>5. q.free + n = (e + n) - 1 - q.write /\ q.free + n \in 0 .. Size - 1
        /\ e + n \in 0 .. Size - 1 /\ q.write < e + n /\ r \in e + n .. Size - 1
    BY <1>1, <1>2, <1>5, <2>1, <2>2, <2>4
  <2>6. p \in Queues /\ p.full = q.full /\ p.ring = ring /\ p.write = q.write
        /\ p.free = q.free + n
    BY <2>5 DEF Queues
  <2>7. Filled(p, e + n)
    <3> HIDE DEF p
    <3> QED BY <2>1, <2>2, <2>4, <2>5, <2>6 DEF Filled
  <2> QED BY <2>5, <2>6, <2>7 DEF n
<1> QED BY <1>1, <1>4, <1>5

(* An empty queue is one. *)
LEMMA EmptyIsEmpty ==
  ASSUME NEW r
  PROVE  /\ Empty(r).write = 0 /\ Empty(r).free = Size - 1
         /\ DOMAIN Empty(r) = Fields
         /\ Empty(r) = [f \in Fields |-> Empty(r)[f]]
BY DEF Empty, Fields

(* A batch that is refused changes words of the ring only. *)
LEMMA RefusedKeepsRest ==
  ASSUME NEW batch, ~Accepted(queue, batch), StartsEmpty, AtRest, mode # "queue"
  PROVE  LET q == PutAll(queue, batch) IN
         /\ q.write = 0 /\ q.free = Size - 1
         /\ DOMAIN q = Fields
         /\ q = [f \in Fields |-> q[f]]
<1> DEFINE r == [AllPut(queue, batch).ring EXCEPT ![queue.write] = ToNormal]
<1>1. PutAll(queue, batch) = [queue EXCEPT !.ring = r]
  BY DEF PutAll, Accepted
<1> HIDE DEF r
<1>2. QED
  BY <1>1 DEF StartsEmpty, AtRest, Fields

LEMMA InitHolds == Init => IInv
<1> SUFFICES ASSUME Init PROVE IInv
  OBVIOUS
<1>1. queue = Empty([i \in 0 .. Size - 1 |-> Rest]) /\ exec = 0 /\ running = "no"
  BY DEF Init
<1>2. QED
  BY <1>1, EmptyIsEmpty DEF IInv, StartsEmpty, AtRest, OnlyQueueRuns

LEMMA NextKeeps == IInv /\ [Next]_vars => IInv'
<1> SUFFICES ASSUME IInv, [Next]_vars PROVE IInv'
  OBVIOUS
<1> USE DEF IInv, OnlyQueueRuns
<1>1. ASSUME NEW batch, Submit(batch) PROVE IInv'
  <2>1. CASE mode = "queue" \/ ~Accepted(queue, batch)
    <3>1. UNCHANGED <<exec, mode, running>> /\ queue' = PutAll(queue, batch)
      BY <1>1, <2>1 DEF Submit
    <3>2. CASE mode = "queue"
      BY <3>1, <3>2 DEF StartsEmpty, AtRest
    <3>3. CASE mode # "queue"
      BY <2>1, <3>1, <3>3, RefusedKeepsRest DEF StartsEmpty, AtRest
    <3>4. QED
      BY <3>2, <3>3
  <2>2. CASE ~(mode = "queue" \/ ~Accepted(queue, batch))
    BY <1>1, <2>2 DEF Submit, StartsEmpty, AtRest
  <2>3. QED
    BY <2>1, <2>2
<1>2. CASE ToNormalMode
  <2>1. queue' = Empty(queue.ring) /\ exec' = 0 /\ running' = "no"
    BY <1>2 DEF ToNormalMode
  <2>2. QED
    BY <2>1, EmptyIsEmpty DEF StartsEmpty, AtRest
<1>3. CASE RestoreStart \/ WaitBufEmpty \/ NoAnswer \/ SendAndWait \/ WaitForByte
  <2>1. running = "yes" /\ mode' = mode
    BY <1>3 DEF RestoreStart, WaitBufEmpty, NoAnswer, SendAndWait, WaitForByte
  <2>2. mode' = "queue"
    BY <2>1
  <2>3. QED
    BY <2>2 DEF StartsEmpty, AtRest
<1>4. CASE GetAnswer \/ GetNack \/ \E byte \in Range(wire) : GetOther(byte)
  <2>1. mode' = "queue"
    BY <1>4 DEF GetAnswer, GetNack, GetOther
  <2>2. QED
    BY <2>1 DEF StartsEmpty, AtRest
<1>5. ASSUME NEW byte, Key(byte) PROVE IInv'
  BY <1>5 DEF Key, queueVars, StartsEmpty, AtRest
<1>6. ASSUME NEW byte, MouseByte(byte) PROVE IInv'
  <2>1. UNCHANGED <<queue, exec, running>> /\ running = "no" /\ mode # "queue"
    BY <1>6 DEF MouseByte, Comes
  <2>2. QED
    BY <2>1 DEF StartsEmpty, AtRest
<1>7. CASE Take \/ Use
  <2>1. UNCHANGED <<queue, exec, mode, running>>
    BY <1>7 DEF Take, Use, queueVars
  <2>2. QED
    BY <2>1 DEF StartsEmpty, AtRest
<1>8. CASE UNCHANGED vars
  BY <1>8 DEF vars, queueVars, StartsEmpty, AtRest
<1>9. QED
  BY <1>1, <1>2, <1>3, <1>4, <1>5, <1>6, <1>7, <1>8 DEF Next

(* A queue that does not run is empty and starts at its first word: the    *)
(* call that starts it may begin there (keymos0.ask, KeyboardQueueExecute  *)
(* and quecmd_tonormal).                                                   *)
THEOREM QueueStartsEmpty == Spec => []StartsEmpty
<1>1. Init => IInv
  BY InitHolds
<1>2. IInv /\ [Next]_vars => IInv'
  BY NextKeeps
<1>3. IInv => StartsEmpty
  BY DEF IInv
<1>4. QED
  BY <1>1, <1>2, <1>3, PTL DEF Spec

(* Only the queue writes to the device, and only while bytes from there    *)
(* are its own: nothing that was sent is answered to anybody else, as long *)
(* as the queue runs.                                                      *)
THEOREM OnlyQueueSends == Spec => [][out' # out /\ out' # "none" => mode = "queue"]_vars
<1>1. IInv /\ [Next]_vars => [out' # out /\ out' # "none" => mode = "queue"]_vars
  <2> SUFFICES ASSUME IInv, Next, out' # out, out' # "none" PROVE mode = "queue"
    BY DEF vars
  <2>1. NoAnswer \/ SendAndWait \/ GetNack
    BY DEF Next, Submit, ToNormalMode, RestoreStart, WaitBufEmpty, WaitForByte, GetAnswer,
           GetOther, Key, MouseByte, Take, Use, queueVars
  <2>2. QED
    BY <2>1 DEF NoAnswer, SendAndWait, GetNack, IInv, OnlyQueueRuns
<1>2. QED
  BY <1>1, InitHolds, NextKeeps, PTL DEF Spec

-----------------------------------------------------------------------------
(* The whole invariant: the queue is filled from the command that is       *)
(* executed on, its end is behind the last one, and while the driver does  *)
(* not run it waits for an answer to a command that has one.               *)
Awaits == {"AckSendData", "ResetCommand", "RecieveCheck"}

Shapes ==
  /\ queue \in Queues /\ ~queue.full /\ exec \in 0 .. Size - 1
  /\ mode \in {"queue", "normal", "plugged"} /\ waiting \in {"ack", "check", "reset"}
  /\ running \in {"no", "yes", "int3"}
  /\ phase \in 0 .. 2

QueueHolds ==
  /\ Filled(queue, exec)
  /\ mode = "queue" => /\ queue.ring[queue.write] = ToNormal
                       /\ running # "yes" => Command.op \in Awaits

QInv == IInv /\ Shapes /\ QueueHolds

LEMMA EmptyIsFilled ==
  ASSUME NEW r \in Rings
  PROVE  Empty(r) \in Queues /\ ~Empty(r).full /\ Empty(r).ring = r /\ Filled(Empty(r), 0)
<1>1. 0 \in 0 .. Size - 1 /\ Size - 1 \in 0 .. Size - 1
  BY SizeAssumption
<1>2. Empty(r) \in Queues /\ ~Empty(r).full /\ Empty(r).ring = r
  BY <1>1 DEF Empty, Queues
<1>3. Empty(r).write = 0 /\ Empty(r).free = Size - 1
  BY DEF Empty
<1>4. Row(r, 0, 0)
  BY DEF Row
<1> QED BY <1>2, <1>3, <1>4, SizeAssumption DEF Filled

LEMMA AwaitsAre == Awaits \subseteq DOMAIN Words
BY DEF Awaits, Words

LEMMA QInit == Init => QInv
<1> SUFFICES ASSUME Init PROVE QInv
  OBVIOUS
<1> DEFINE r == [i \in 0 .. Size - 1 |-> Rest]
<1>1. r \in Rings
  BY OwnCells DEF Rings
<1>2. queue = Empty(r) /\ exec = 0
  BY DEF Init
<1>3. 0 \in 0 .. Size - 1
  BY SizeAssumption
<1> HIDE DEF r
<1>4. Shapes
  <2>1. mode = "normal" /\ waiting = "ack" /\ running = "no" /\ phase = 0
    BY DEF Init
  <2>2. queue \in Queues /\ ~queue.full
    BY <1>1, <1>2, EmptyIsFilled
  <2> QED BY <1>2, <1>3, <2>1, <2>2 DEF Shapes
<1>5. QueueHolds
  BY <1>1, <1>2, EmptyIsFilled DEF Init, QueueHolds
<1> QED BY <1>4, <1>5, InitHolds DEF QInv

(* What follows the execution of a command. *)
LEMMA AdvanceKeeps ==
  ASSUME QInv, mode = "queue", Command.op \in DOMAIN Words, Advance(queue, exec),
         mode' = "queue", running' = "yes", waiting' \in {"ack", "check", "reset"},
         phase' = phase
  PROVE  Shapes' /\ QueueHolds'
<1> DEFINE n == Words[queue.ring[exec].op]
           p == [queue EXCEPT !.free = @ + n]
<1>1. queue' = p /\ exec' = exec + n
  BY DEF Advance
<1>2. /\ queue \in Queues /\ exec \in 0 .. Size - 1 /\ Filled(queue, exec)
      /\ queue.ring[queue.write] = ToNormal /\ queue.ring[exec].op \in DOMAIN Words
      /\ ~queue.full
  BY DEF QInv, Shapes, QueueHolds, Command
<1>3. /\ exec + n \in 0 .. Size - 1
      /\ p \in Queues /\ p.full = queue.full /\ p.ring = queue.ring /\ p.write = queue.write
      /\ Filled(p, exec + n)
  BY <1>2, Advanced
<1> HIDE DEF p, n
<1>4. Shapes'
  BY <1>1, <1>2, <1>3 DEF Shapes, QInv
<1>5. QueueHolds'
  BY <1>1, <1>2, <1>3 DEF QueueHolds
<1> QED BY <1>4, <1>5

LEMMA SubmitKeeps ==
  ASSUME QInv, NEW batch \in Batches, Submit(batch)
  PROVE  Shapes' /\ QueueHolds'
<1> DEFINE p == PutAll(queue, batch)
<1>1. IsBatch(batch)
  BY BatchAssumption DEF Batches, IsBatch
<1>2. /\ queue \in Queues /\ ~queue.full /\ exec \in 0 .. Size - 1 /\ Filled(queue, exec)
      /\ mode \in {"queue", "normal", "plugged"}
  BY DEF QInv, Shapes, QueueHolds
<1>3. /\ p \in Queues /\ ~p.full /\ Filled(p, exec) /\ p.ring[p.write] = ToNormal
      /\ \A i \in 0 .. Size - 1 : InUse(queue, exec, i) => p.ring[i] = queue.ring[i]
  BY <1>1, <1>2, PutAllHolds
<1>4. running = "no" /\ queue' = p /\ waiting' = waiting /\ phase' = phase
  BY DEF Submit
<1> HIDE DEF p
<1>5. CASE mode = "queue" \/ ~Accepted(queue, batch)
  <2>1. exec' = exec /\ mode' = mode /\ running' = running
    BY <1>5 DEF Submit
  <2>2. Shapes'
    BY <1>2, <1>3, <1>4, <2>1 DEF QInv, Shapes
  <2>3. mode = "queue" => InUse(queue, exec, exec)
    <3> SUFFICES ASSUME mode = "queue" PROVE InUse(queue, exec, exec)
      OBVIOUS
    <3>1. queue.ring[exec].op \in Awaits /\ queue.ring[queue.write] = ToNormal
      BY <1>4 DEF QInv, QueueHolds, Command
    <3>2. exec # queue.write
      BY <3>1, OwnCells, WordCounts, AwaitsAre
    <3>3. queue.write \in 0 .. Size - 1
      BY <1>2 DEF Queues
    <3> QED BY <1>2, <3>2, <3>3, SizeAssumption DEF InUse
  <2>4. mode' = "queue" => Command'.op \in Awaits
    BY <1>2, <1>3, <1>4, <2>1, <2>3 DEF QInv, QueueHolds, Command
  <2> QED BY <1>3, <1>4, <2>1, <2>2, <2>4 DEF QueueHolds
<1>6. CASE ~(mode = "queue" \/ ~Accepted(queue, batch))
  <2>1. exec' = 0 /\ mode' = "queue" /\ running' = "yes"
    BY <1>6 DEF Submit
  <2>2. exec = 0
    BY <1>6 DEF QInv, IInv, StartsEmpty
  <2>3. Shapes'
    BY <1>2, <1>3, <1>4, <2>1, <2>2 DEF QInv, Shapes
  <2> QED BY <1>3, <1>4, <2>1, <2>2, <2>3 DEF QueueHolds
<1> QED BY <1>5, <1>6

(* What a queue that runs finds: a command of a client, or its end, or, if *)
(* it has gone back to the start, the command that does.                   *)
LEMMA RestoreIsThere ==
  ASSUME QInv, mode = "queue", Command.op = "restore"
  PROVE  queue.write < exec /\ queue.free = exec - 1 - queue.write
         /\ Row(queue.ring, 0, queue.write)
<1>1. /\ queue \in Queues /\ exec \in 0 .. Size - 1 /\ Filled(queue, exec)
      /\ queue.ring[queue.write] = ToNormal /\ queue.ring[exec].op = "restore"
  BY DEF QInv, Shapes, QueueHolds, Command
<1>2. queue.write \in 0 .. Size - 1 /\ Size \in Nat
  BY <1>1, SizeAssumption DEF Queues
<1>3. ~(exec <= queue.write)
  <2> SUFFICES ASSUME exec <= queue.write PROVE FALSE
    OBVIOUS
  <2>1. exec # queue.write
    BY <1>1, OwnCells
  <2> DEFINE ring == queue.ring
             w == queue.write
  <2>2. Row(ring, exec, w) /\ exec < w /\ exec \in Nat /\ w \in Nat
    BY <1>1, <1>2, <2>1 DEF Filled
  <2>3. ring[exec].op \in DOMAIN Words
    <3> HIDE DEF ring, w
    <3> QED BY <2>2, RowGoesOn
  <2> QED BY <1>1, <2>3, WordCounts
<1> QED BY <1>1, <1>2, <1>3 DEF Filled

LEMMA RestoreKeeps == ASSUME QInv, RestoreStart PROVE Shapes' /\ QueueHolds'
<1>1. running = "yes" /\ mode = "queue" /\ Command.op = "restore"
  BY DEF RestoreStart, QInv, IInv, OnlyQueueRuns
<1>2. /\ queue' = [queue EXCEPT !.free = @ + Size - exec] /\ exec' = 0
      /\ UNCHANGED <<mode, waiting, running, phase>>
  BY DEF RestoreStart
<1>3. queue.write < exec /\ queue.free = exec - 1 - queue.write /\ Row(queue.ring, 0, queue.write)
  BY <1>1, RestoreIsThere
<1>4. queue \in Queues /\ exec \in 0 .. Size - 1 /\ queue.write \in 0 .. Size - 1 /\ ~queue.full
      /\ queue.ring[queue.write] = ToNormal
  BY <1>1 DEF QInv, Shapes, QueueHolds, Queues
<1>5. queue.free + Size - exec = Size - 1 - queue.write /\ Size - 1 - queue.write \in 0 .. Size - 1
      /\ 0 \in 0 .. Size - 1 /\ queue.write - 0 = queue.write
  BY <1>3, <1>4, SizeAssumption
<1>6. queue' = [queue EXCEPT !.free = Size - 1 - queue.write]
  BY <1>2, <1>5
<1>7. /\ queue' \in Queues /\ ~queue'.full /\ queue'.ring = queue.ring /\ queue'.write = queue.write
      /\ queue'.free = Size - 1 - queue.write
  BY <1>4, <1>5, <1>6 DEF Queues
<1>8. Shapes'
  BY <1>2, <1>5, <1>7 DEF QInv, Shapes
<1>9. Filled(queue', 0)
  BY <1>3, <1>4, <1>5, <1>7 DEF Filled
<1> QED BY <1>1, <1>2, <1>4, <1>7, <1>8, <1>9 DEF QueueHolds

LEMMA GetOtherKeeps ==
  ASSUME QInv, NEW byte, GetOther(byte)
  PROVE  Shapes' /\ QueueHolds'
<1> DEFINE n == Words[queue.ring[exec].op]
           behind == exec + n
           p == [queue EXCEPT !.free = @ + n]
<1>1. mode = "queue" /\ running = "no" /\ mode' = mode /\ waiting' = waiting /\ phase' = phase
  BY DEF GetOther, Comes
<1>2. /\ queue \in Queues /\ exec \in 0 .. Size - 1 /\ Filled(queue, exec)
      /\ queue.ring[queue.write] = ToNormal /\ Command.op \in DOMAIN Words
      /\ queue.ring[exec].op \in DOMAIN Words /\ ~queue.full
  BY <1>1, AwaitsAre DEF QInv, Shapes, QueueHolds, Command
<1>3. CASE UNCHANGED <<queue, exec>> /\ running' # "yes" /\ running' \in {"no", "yes", "int3"}
  BY <1>1, <1>3 DEF QInv, Shapes, QueueHolds, Command
<1>4. CASE Advance(queue, exec) /\ running' = "yes"
  <2>1. waiting' \in {"ack", "check", "reset"}
    BY <1>1 DEF QInv, Shapes
  <2> QED BY <1>1, <1>2, <1>4, <2>1, AdvanceKeeps
<1>5. CASE /\ queue.ring[behind].op = "RecieveCheck" /\ Advance(p, behind) /\ running' = "yes"
  <2>1. /\ behind \in 0 .. Size - 1
        /\ p \in Queues /\ p.full = queue.full /\ p.ring = queue.ring /\ p.write = queue.write
        /\ Filled(p, behind)
    BY <1>2, Advanced
  <2> HIDE DEF p, behind
  <2> DEFINE m == Words[p.ring[behind].op]
             r == [p EXCEPT !.free = @ + m]
  <2>2. p.ring[behind].op \in DOMAIN Words /\ p.ring[p.write] = ToNormal
    BY <1>2, <1>5, <2>1 DEF Words
  <2>3. /\ behind + m \in 0 .. Size - 1
        /\ r \in Queues /\ r.full = p.full /\ r.ring = p.ring /\ r.write = p.write
        /\ Filled(r, behind + m)
    BY <2>1, <2>2, Advanced
  <2>4. queue' = r /\ exec' = behind + m
    BY <1>5 DEF Advance
  <2> HIDE DEF r, m
  <2>5. Shapes'
    BY <1>1, <1>2, <1>5, <2>1, <2>3, <2>4 DEF QInv, Shapes
  <2>6. QueueHolds'
    BY <1>1, <1>2, <1>5, <2>1, <2>3, <2>4 DEF QueueHolds
  <2> QED BY <2>5, <2>6
<1> QED
  <2>1. CASE waiting = "check"
    <3>1. running' = "int3" /\ UNCHANGED <<queue, exec>>
      BY <2>1 DEF GetOther
    <3> QED BY <1>3, <3>1
  <2>2. CASE waiting # "check" /\ device = "mouse"
    BY <1>1, <1>3, <2>2 DEF GetOther
  <2>3. CASE waiting # "check" /\ device # "mouse"
    <3>1. IF queue.ring[behind].op = "RecieveCheck" THEN Advance(p, behind)
          ELSE Advance(queue, exec)
      BY <2>3 DEF GetOther, Command
    <3>2. running' = "yes"
      BY <2>3 DEF GetOther
    <3> HIDE DEF p, behind
    <3> QED BY <1>4, <1>5, <3>1, <3>2
  <2> QED BY <2>1, <2>2, <2>3

LEMMA QNext == QInv /\ [Next]_vars => QInv'
<1> SUFFICES ASSUME QInv, [Next]_vars PROVE Shapes' /\ QueueHolds'
  BY NextKeeps DEF QInv
<1>1. ASSUME NEW batch \in Batches, Submit(batch) PROVE Shapes' /\ QueueHolds'
  BY <1>1, SubmitKeeps
<1>2. CASE ToNormalMode
  <2>1. /\ queue' = Empty(queue.ring) /\ exec' = 0 /\ mode' = "normal" /\ running' = "no"
        /\ phase' = 0 /\ waiting' = waiting
    BY <1>2 DEF ToNormalMode
  <2>2. queue.ring \in Rings /\ waiting \in {"ack", "check", "reset"}
    BY DEF QInv, Shapes, Queues
  <2>3. queue' \in Queues /\ ~queue'.full /\ Filled(queue', 0) /\ 0 \in 0 .. Size - 1
    BY <2>1, <2>2, EmptyIsFilled, SizeAssumption
  <2>4. Shapes'
    BY <2>1, <2>2, <2>3 DEF Shapes
  <2>5. QueueHolds'
    BY <2>1, <2>3 DEF QueueHolds
  <2> QED BY <2>4, <2>5
<1>3. CASE RestoreStart
  BY <1>3, RestoreKeeps
<1>4. CASE WaitBufEmpty \/ NoAnswer
  <2>1. /\ running = "yes" /\ UNCHANGED <<mode, waiting, running, phase>>
        /\ Command.op \in DOMAIN Words /\ Advance(queue, exec)
    BY <1>4 DEF WaitBufEmpty, NoAnswer, Words
  <2>2. mode = "queue" /\ waiting \in {"ack", "check", "reset"}
    BY <2>1 DEF QInv, Shapes, IInv, OnlyQueueRuns
  <2> QED BY <2>1, <2>2, AdvanceKeeps
<1>5. CASE SendAndWait \/ WaitForByte
  <2>1. /\ UNCHANGED <<queue, exec, mode, phase>> /\ running' = "no"
        /\ waiting' \in {"ack", "check", "reset"} /\ Command.op \in Awaits
    BY <1>5 DEF SendAndWait, WaitForByte, Awaits
  <2> QED BY <2>1 DEF QInv, Shapes, QueueHolds, Command
<1>6. CASE GetAnswer
  <2>1. /\ mode = "queue" /\ running = "no" /\ UNCHANGED <<mode, waiting, phase>>
        /\ Advance(queue, exec) /\ running' = "yes"
    BY <1>6 DEF GetAnswer, Comes
  <2>2. Command.op \in DOMAIN Words /\ waiting \in {"ack", "check", "reset"}
    BY <2>1, AwaitsAre DEF QInv, Shapes, QueueHolds
  <2> QED BY <2>1, <2>2, AdvanceKeeps
<1>7. ASSUME UNCHANGED <<queue, exec, mode, waiting, running, phase>>
      PROVE  Shapes' /\ QueueHolds'
  BY <1>7 DEF QInv, Shapes, QueueHolds, Command
<1>8. ASSUME NEW byte, GetOther(byte) PROVE Shapes' /\ QueueHolds'
  BY <1>8, GetOtherKeeps
<1>9. ASSUME NEW byte, MouseByte(byte) PROVE Shapes' /\ QueueHolds'
  <2>1. /\ mode # "queue" /\ mode' \in {"normal", "plugged"}
        /\ UNCHANGED <<queue, exec, waiting, running>>
    BY <1>9 DEF MouseByte
  <2>2. phase' \in 0 .. 2
    <3>1. phase \in 0 .. 2
      BY DEF QInv, Shapes
    <3>2. phase' \in {0, 1, (phase + 1) % 3} \/ phase' = phase
      BY <1>9 DEF MouseByte
    <3>3. (phase + 1) % 3 \in 0 .. 2
      BY <3>1
    <3> QED BY <3>1, <3>2, <3>3
  <2> QED BY <2>1, <2>2 DEF QInv, Shapes, QueueHolds
<1>10. CASE GetNack \/ Take \/ Use \/ UNCHANGED vars \/ \E byte \in Range(wire) : Key(byte)
  BY <1>7, <1>10 DEF GetNack, Take, Use, Key, vars, queueVars
<1> QED
  BY <1>1, <1>2, <1>3, <1>4, <1>5, <1>6, <1>8, <1>9, <1>10 DEF Next

LEMMA QInvariance == Spec => []QInv
<1>1. Init => QInv
  BY QInit
<1>2. QInv /\ [Next]_vars => QInv'
  BY QNext
<1> QED BY <1>1, <1>2, PTL DEF Spec

(* Both ends stay inside the ring and the automaton in its states, for     *)
(* every batch of whole commands, however long, and whatever the device    *)
(* answers (keymos0.ask, KeyboardQueueExecute, MouseQueueExecute and the   *)
(* commands).                                                              *)
THEOREM QueueTyped == Spec => []TypeOK
<1>1. QInv => TypeOK
  BY DEF QInv, Shapes, TypeOK, Queues
<1> QED BY <1>1, QInvariance, PTL

(* The count of free words is the room there really is, whichever of the   *)
(* two sides changed it last, also around the end of the ring and behind a *)
(* batch that was refused half-way; and the queue goes on at a command,    *)
(* never in the middle of one (keymos0.ask: free in KeyboardQueueExecute,  *)
(* EBP in the commands and in quecmd_restore).                             *)
THEOREM FreeStaysExact == Spec => []FreeIsExact
<1>1. QInv => FreeIsExact
  <2> SUFFICES ASSUME QInv PROVE FreeIsExact
    OBVIOUS
  <2>1. /\ queue \in Queues /\ exec \in 0 .. Size - 1 /\ Filled(queue, exec)
        /\ (mode = "queue" => queue.ring[queue.write] = ToNormal)
    BY DEF QInv, Shapes, QueueHolds
  <2>2. queue.write \in 0 .. Size - 1 /\ queue.free \in 0 .. Size - 1 /\ Size \in Nat
    BY <2>1, SizeAssumption DEF Queues
  <2> DEFINE w == queue.write
             d == w - exec
             ring == queue.ring
  <2>3. CASE exec <= w
    <3>1. queue.free = Size - 1 - d /\ Row(ring, exec, w)
      BY <2>1, <2>2, <2>3 DEF Filled
    <3>2. d \in 0 .. Size - 1
      BY <2>1, <2>2, <2>3
    <3>3. d % Size = d
      <4> HIDE DEF d
      <4> QED BY <3>2, <2>2
    <3>4. Used = d
      <4> HIDE DEF d
      <4> QED BY <2>2, <3>1, <3>2 DEF Used
    <3>5. exec < w => Command.op # "rest"
      BY <3>1 DEF Row, Starts, Command
    <3>6. exec = w /\ mode = "queue" => Command.op # "rest"
      BY <2>1, OwnCells DEF Command
    <3>7. exec < w \/ exec = w
      BY <2>1, <2>2, <2>3
    <3> QED BY <2>1, <3>3, <3>4, <3>5, <3>6, <3>7 DEF FreeIsExact
  <2>4. CASE w < exec
    <3>1. queue.free = exec - 1 - w
      BY <2>1, <2>2, <2>4 DEF Filled
    <3>2. PICK r \in exec .. Size - 1 : ring[r].op = "restore" /\ Row(ring, exec, r)
      BY <2>1, <2>2, <2>4 DEF Filled
    <3>3. d \in Int /\ -Size < d /\ d < 0
      BY <2>1, <2>2, <2>4
    <3>4. d % Size = d + Size
      <4> HIDE DEF d
      <4> QED BY <3>3, <2>2, SizeAssumption
    <3>5. Used = d + Size
      BY <2>1, <2>2, <3>1 DEF Used
    <3>6. Command.op # "rest"
      <4>1. CASE exec < r
        BY <3>2, <4>1 DEF Row, Starts, Command
      <4>2. CASE exec = r
        BY <3>2, <4>2 DEF Command
      <4> QED BY <2>1, <2>2, <3>2, <4>1, <4>2
    <3> QED BY <2>1, <3>4, <3>5, <3>6 DEF FreeIsExact
  <2> QED BY <2>1, <2>2, <2>3, <2>4
<1> QED BY <1>1, QInvariance, PTL

-----------------------------------------------------------------------------
(* The queue is one of commands.  First the commands that begin in some    *)
(* words: the recursion exists, goes on word by word, and depends on the   *)
(* words only.                                                             *)
IsBegin(f, words, a, b) ==
  f = [i \in a .. b |->
         IF i = a THEN <<>>
         ELSE IF words[i - 1].op = "rest" THEN f[i - 1] ELSE Append(f[i - 1], words[i - 1])]

LEMMA BeginExists ==
  ASSUME NEW words, NEW a \in Nat, NEW b \in Nat, a <= b
  PROVE  \E f : IsBegin(f, words, a, b)
<1> DEFINE Without == {k \in Nat : a <= k /\ ~\E f : IsBegin(f, words, a, k)}
<1>1. SUFFICES ASSUME Without # {} PROVE FALSE
  OBVIOUS
<1>2. PICK l \in Without : \A k \in Without : l <= k
  BY <1>1, Smallest
<1>3. CASE l = a
  <2> DEFINE f == [k \in a .. a |-> <<>>]
  <2>1. IsBegin(f, words, a, a)
    BY DEF IsBegin
  <2> QED BY <1>2, <1>3, <2>1
<1>4. CASE l # a
  <2>1. l \in Nat /\ l - 1 \in Nat /\ a <= l - 1 /\ l - 1 \notin Without
    BY <1>2, <1>4
  <2>2. PICK f : IsBegin(f, words, a, l - 1)
    BY <2>1
  <2> DEFINE e == IF words[l - 1].op = "rest" THEN f[l - 1] ELSE Append(f[l - 1], words[l - 1])
             g == [k \in a .. l |-> IF k = l THEN e ELSE f[k]]
  <2>3. \A k \in a .. l - 1 : g[k] = f[k]
    BY <2>1
  <2>4. \A k \in a .. l - 1 :
          f[k] = IF k = a THEN <<>>
                 ELSE IF words[k - 1].op = "rest" THEN f[k - 1] ELSE Append(f[k - 1], words[k - 1])
    BY <2>2 DEF IsBegin
  <2>5. \A k \in a .. l :
          g[k] = IF k = a THEN <<>>
                 ELSE IF words[k - 1].op = "rest" THEN g[k - 1] ELSE Append(g[k - 1], words[k - 1])
    <3> TAKE k \in a .. l
    <3>1. CASE k = l
      <4>1. g[l] = e /\ g[l - 1] = f[l - 1]
        BY <2>1, <2>3
      <4> HIDE DEF g
      <4> QED BY <1>4, <3>1, <4>1
    <3>2. CASE k # l
      <4>1. k \in a .. l - 1 /\ (k # a => k - 1 \in a .. l - 1)
        BY <2>1, <3>2
      <4> HIDE DEF g
      <4> QED BY <2>3, <2>4, <4>1
    <3> QED BY <3>1, <3>2
  <2>6. g = [k \in a .. l |-> g[k]]
    OBVIOUS
  <2> HIDE DEF g
  <2>7. IsBegin(g, words, a, l)
    BY <2>5, <2>6 DEF IsBegin
  <2> QED BY <1>2, <2>7
<1> QED BY <1>3, <1>4

LEMMA BeginAgree ==
  ASSUME NEW words, NEW a \in Nat, NEW b \in Nat, NEW c \in Nat, a <= b, b <= c,
         NEW f, IsBegin(f, words, a, b), NEW g, IsBegin(g, words, a, c)
  PROVE  \A i \in a .. b : f[i] = g[i]
<1> DEFINE Bad == {i \in a .. b : f[i] # g[i]}
<1>1. SUFFICES ASSUME Bad # {} PROVE FALSE
  OBVIOUS
<1>2. PICK l \in Bad : \A k \in Bad : l <= k
  <2>1. Bad \subseteq Nat
    OBVIOUS
  <2> HIDE DEF Bad
  <2> QED BY <1>1, <2>1, Smallest
<1>3. l \in a .. b /\ l \in a .. c /\ f[l] # g[l]
  BY <1>2
<1>4. /\ f[l] = IF l = a THEN <<>>
                ELSE IF words[l - 1].op = "rest" THEN f[l - 1] ELSE Append(f[l - 1], words[l - 1])
      /\ g[l] = IF l = a THEN <<>>
                ELSE IF words[l - 1].op = "rest" THEN g[l - 1] ELSE Append(g[l - 1], words[l - 1])
  BY <1>3 DEF IsBegin
<1>5. l # a
  BY <1>3, <1>4
<1>6. l - 1 \in a .. b /\ l - 1 \notin Bad
  BY <1>2, <1>3, <1>5
<1>7. f[l - 1] = g[l - 1]
  BY <1>6
<1> QED BY <1>3, <1>4, <1>5, <1>7

LEMMA BeginFunction ==
  ASSUME NEW words, NEW a \in Nat, NEW c \in Nat, a <= c
  PROVE  \E f : IsBegin(f, words, a, c) /\ \A b \in a .. c : Begin(words, a, b) = f[b]
<1>1. PICK f : IsBegin(f, words, a, c)
  BY BeginExists
<1>2. ASSUME NEW b \in a .. c PROVE Begin(words, a, b) = f[b]
  <2> DEFINE Is(g) == g = [i \in a .. b |->
                             IF i = a THEN <<>>
                             ELSE IF words[i - 1].op = "rest" THEN g[i - 1]
                                  ELSE Append(g[i - 1], words[i - 1])]
             begun == CHOOSE g : Is(g)
  <2>1. b \in Nat /\ a <= b /\ b <= c
    OBVIOUS
  <2>2. \E g : Is(g)
    <3>1. PICK g : IsBegin(g, words, a, b)
      BY <2>1, BeginExists
    <3> QED BY <3>1 DEF IsBegin
  <2>3. Is(begun)
    BY <2>2
  <2>4. Begin(words, a, b) = begun[b]
    BY DEF Begin
  <2> HIDE DEF begun
  <2>5. IsBegin(begun, words, a, b)
    BY <2>3 DEF IsBegin
  <2> QED BY <1>1, <2>1, <2>4, <2>5, BeginAgree
<1> QED BY <1>1, <1>2

LEMMA BeginIs ==
  ASSUME NEW words, NEW a \in Nat, NEW b \in Nat, a <= b
  PROVE  /\ Begin(words, a, a) = <<>>
         /\ Begin(words, a, b + 1) = IF words[b].op = "rest" THEN Begin(words, a, b)
                                     ELSE Append(Begin(words, a, b), words[b])
<1>1. PICK f : IsBegin(f, words, a, b + 1) /\ \A i \in a .. b + 1 : Begin(words, a, i) = f[i]
  BY BeginFunction
<1>2. a \in a .. b + 1 /\ b \in a .. b + 1 /\ b + 1 \in a .. b + 1 /\ b + 1 # a /\ (b + 1) - 1 = b
  OBVIOUS
<1>3. \A i \in a .. b + 1 :
        f[i] = IF i = a THEN <<>>
               ELSE IF words[i - 1].op = "rest" THEN f[i - 1] ELSE Append(f[i - 1], words[i - 1])
  BY <1>1 DEF IsBegin
<1> QED BY <1>1, <1>2, <1>3

LEMMA BeginCells ==
  ASSUME NEW words, NEW a \in Nat, NEW b \in Nat, a <= b, \A i \in a .. b - 1 : words[i] \in Cells
  PROVE  Begin(words, a, b) \in Seq(Cells)
<1> DEFINE Bad == {i \in a .. b : Begin(words, a, i) \notin Seq(Cells)}
<1>1. SUFFICES ASSUME Bad # {} PROVE FALSE
  OBVIOUS
<1>2. PICK l \in Bad : \A k \in Bad : l <= k
  <2>1. Bad \subseteq Nat
    OBVIOUS
  <2> HIDE DEF Bad
  <2> QED BY <1>1, <2>1, Smallest
<1>3. l \in a .. b /\ Begin(words, a, l) \notin Seq(Cells)
  BY <1>2
<1>4. l # a
  <2>1. Begin(words, a, a) = <<>>
    BY BeginIs
  <2>2. <<>> \in Seq(Cells)
    OBVIOUS
  <2> QED BY <1>3, <2>1, <2>2
<1>5. l - 1 \in a .. b - 1 /\ l - 1 \in Nat /\ a <= l - 1 /\ (l - 1) + 1 = l /\ l - 1 \notin Bad
  BY <1>2, <1>3, <1>4
<1>6. Begin(words, a, l - 1) \in Seq(Cells) /\ words[l - 1] \in Cells
  BY <1>5
<1>7. Begin(words, a, l) = IF words[l - 1].op = "rest" THEN Begin(words, a, l - 1)
                           ELSE Append(Begin(words, a, l - 1), words[l - 1])
  <2> DEFINE k == l - 1
  <2>1. k \in Nat /\ a <= k /\ k + 1 = l
    BY <1>5
  <2> HIDE DEF k
  <2>2. Begin(words, a, k + 1) = IF words[k].op = "rest" THEN Begin(words, a, k)
                                 ELSE Append(Begin(words, a, k), words[k])
    BY <2>1, BeginIs
  <2> USE DEF k
  <2> QED BY <2>1, <2>2
<1> QED BY <1>3, <1>6, <1>7

(* The words may lie elsewhere. *)
Moved(words, a, b, d, to) == \A i \in a .. b - 1 : to[i + d] = words[i]

LEMMA BeginShift ==
  ASSUME NEW words, NEW a \in Nat, NEW b \in Nat, a <= b, NEW d \in Int,
         NEW c \in Nat, c = a + d, NEW e, e = b + d,
         NEW moved, Moved(words, a, b, d, moved)
  PROVE  Begin(moved, c, e) = Begin(words, a, b)
<1> DEFINE Bad == {i \in a .. b : Begin(moved, c, i + d) # Begin(words, a, i)}
<1>1. SUFFICES ASSUME Bad # {} PROVE FALSE
  <2>1. b \in a .. b
    OBVIOUS
  <2> QED BY <2>1
<1>2. PICK l \in Bad : \A k \in Bad : l <= k
  <2>1. Bad \subseteq Nat
    OBVIOUS
  <2> HIDE DEF Bad
  <2> QED BY <1>1, <2>1, Smallest
<1>3. l \in a .. b /\ Begin(moved, c, l + d) # Begin(words, a, l)
  BY <1>2
<1>4. l # a
  <2>1. Begin(moved, c, c) = <<>> /\ Begin(words, a, a) = <<>>
    BY BeginIs
  <2> QED BY <1>3, <2>1
<1> DEFINE k == l - 1
<1>5. k \in a .. b - 1 /\ k \in Nat /\ a <= k /\ k + 1 = l /\ k \notin Bad
  BY <1>2, <1>3, <1>4
<1>6. Begin(moved, c, k + d) = Begin(words, a, k) /\ moved[k + d] = words[k]
  BY <1>5 DEF Moved
<1>7. Begin(words, a, k + 1) = IF words[k].op = "rest" THEN Begin(words, a, k)
                               ELSE Append(Begin(words, a, k), words[k])
  <2> HIDE DEF k
  <2> QED BY <1>5, BeginIs
<1>8. Begin(moved, c, (k + d) + 1) = IF moved[k + d].op = "rest" THEN Begin(moved, c, k + d)
                                         ELSE Append(Begin(moved, c, k + d), moved[k + d])
  <2>1. k + d \in Nat /\ c <= k + d
    BY <1>5
  <2> HIDE DEF k
  <2> QED BY <2>1, BeginIs
<1>9. (k + d) + 1 = l + d
  BY <1>5
<1> HIDE DEF k
<1> QED BY <1>3, <1>5, <1>6, <1>7, <1>8, <1>9

LEMMA BeginSame ==
  ASSUME NEW words, NEW a \in Nat, NEW b \in Nat, a <= b,
         NEW others, \A i \in a .. b - 1 : others[i] = words[i]
  PROVE  Begin(others, a, b) = Begin(words, a, b)
<1>1. PICK d \in Int : d = 0
  OBVIOUS
<1>2. a = a + d /\ b = b + d /\ \A i \in a .. b - 1 : i + d = i
  BY <1>1
<1>3. Moved(words, a, b, d, others)
  BY <1>2 DEF Moved
<1> QED BY <1>2, <1>3, BeginShift

(* They may be looked at in two parts. *)
LEMMA AppendJoin ==
  ASSUME NEW S, NEW s \in Seq(S), NEW t \in Seq(S), NEW x \in S
  PROVE  s \o Append(t, x) = Append(s \o t, x)
OBVIOUS

LEMMA EmptyJoin ==
  ASSUME NEW S, NEW s \in Seq(S)
  PROVE  s \o <<>> = s /\ <<>> \o s = s
OBVIOUS

LEMMA ThreeJoin ==
  ASSUME NEW S, NEW s \in Seq(S), NEW t \in Seq(S), NEW u \in Seq(S)
  PROVE  (s \o t) \o u = s \o (t \o u)
OBVIOUS

LEMMA BeginJoin ==
  ASSUME NEW words, NEW a \in Nat, NEW b \in Nat, NEW c \in Nat, a <= b, b <= c,
         \A i \in a .. c - 1 : words[i] \in Cells
  PROVE  Begin(words, a, c) = Begin(words, a, b) \o Begin(words, b, c)
<1> DEFINE Bad == {i \in b .. c : Begin(words, a, i) # Begin(words, a, b) \o Begin(words, b, i)}
<1>1. SUFFICES ASSUME Bad # {} PROVE FALSE
  OBVIOUS
<1>2. PICK l \in Bad : \A k \in Bad : l <= k
  <2>1. Bad \subseteq Nat
    OBVIOUS
  <2> HIDE DEF Bad
  <2> QED BY <1>1, <2>1, Smallest
<1>3. l \in b .. c /\ Begin(words, a, l) # Begin(words, a, b) \o Begin(words, b, l)
  BY <1>2
<1>4. Begin(words, a, b) \in Seq(Cells)
  BY BeginCells
<1>5. l # b
  <2>1. Begin(words, b, b) = <<>>
    BY BeginIs
  <2> QED BY <1>3, <1>4, <2>1, EmptyJoin
<1> DEFINE k == l - 1
<1>6. k \in b .. c - 1 /\ k \in Nat /\ b <= k /\ a <= k /\ k + 1 = l /\ k \notin Bad /\ k \in a .. c - 1
  BY <1>2, <1>3, <1>5
<1>7. Begin(words, a, k) = Begin(words, a, b) \o Begin(words, b, k)
  BY <1>6
<1> HIDE DEF k, Bad
<1>8. words[k] \in Cells /\ Begin(words, b, k) \in Seq(Cells)
  <2>1. \A i \in b .. k - 1 : words[i] \in Cells
    BY <1>6
  <2> QED BY <1>6, <2>1, BeginCells
<1>9. Begin(words, a, k + 1) = IF words[k].op = "rest" THEN Begin(words, a, k)
                               ELSE Append(Begin(words, a, k), words[k])
  BY <1>6, BeginIs
<1>10. Begin(words, b, k + 1) = IF words[k].op = "rest" THEN Begin(words, b, k)
                                ELSE Append(Begin(words, b, k), words[k])
  BY <1>6, BeginIs
<1>11. Begin(words, a, b) \o Append(Begin(words, b, k), words[k])
         = Append(Begin(words, a, b) \o Begin(words, b, k), words[k])
  BY <1>4, <1>8, AppendJoin
<1> QED BY <1>3, <1>6, <1>7, <1>9, <1>10, <1>11

(* One command with all its words. *)
LEMMA BeginOne ==
  ASSUME NEW words, NEW a \in Nat, NEW b \in Nat, a < b,
         words[a].op # "rest", Rested(words, a, b)
  PROVE  Begin(words, a, b) = <<words[a]>>
<1> DEFINE Bad == {i \in a + 1 .. b : Begin(words, a, i) # <<words[a]>>}
<1>1. SUFFICES ASSUME Bad # {} PROVE FALSE
  OBVIOUS
<1>2. PICK l \in Bad : \A k \in Bad : l <= k
  <2>1. Bad \subseteq Nat
    OBVIOUS
  <2> HIDE DEF Bad
  <2> QED BY <1>1, <2>1, Smallest
<1>3. l \in a + 1 .. b /\ Begin(words, a, l) # <<words[a]>>
  BY <1>2
<1>4. l # a + 1
  <2>1. Begin(words, a, a) = <<>>
        /\ Begin(words, a, a + 1) = IF words[a].op = "rest" THEN Begin(words, a, a)
                                    ELSE Append(Begin(words, a, a), words[a])
    <3>1. a <= a
      OBVIOUS
    <3> QED BY <3>1, BeginIs
  <2>2. Append(<<>>, words[a]) = <<words[a]>>
    OBVIOUS
  <2> QED BY <1>3, <2>1, <2>2
<1> DEFINE k == l - 1
<1>5. k \in a + 1 .. b - 1 /\ k \in a + 1 .. b /\ k \in Nat /\ a <= k /\ k + 1 = l /\ k \notin Bad
  BY <1>2, <1>3, <1>4
<1>6. Begin(words, a, k) = <<words[a]>> /\ words[k].op = "rest"
  BY <1>5 DEF Rested
<1> HIDE DEF k
<1>7. Begin(words, a, k + 1) = Begin(words, a, k)
  BY <1>5, <1>6, BeginIs
<1> QED BY <1>3, <1>5, <1>6, <1>7

LEMMA BeginConcat ==
  ASSUME NEW s \in Seq(Cells), NEW t \in Seq(Cells)
  PROVE  Begin(s \o t, 1, Len(s \o t) + 1)
           = Begin(s, 1, Len(s) + 1) \o Begin(t, 1, Len(t) + 1)
<1> DEFINE m == Len(s)
           n == Len(t)
           u == s \o t
<1>1. m \in Nat /\ n \in Nat
  OBVIOUS
<1>2. u \in Seq(Cells) /\ Len(u) = m + n /\ (\A i \in 1 .. m : u[i] = s[i])
      /\ \A i \in 1 .. n : u[m + i] = t[i]
  <2>1. u \in Seq(Cells) /\ Len(u) = m + n
    BY ConcatProperties
  <2>2. \A i \in 1 .. m + n : u[i] = IF i <= m THEN s[i] ELSE t[i - m]
    BY ConcatProperties
  <2>3. \A i \in 1 .. n : m + i \in 1 .. m + n /\ ~(m + i <= m) /\ (m + i) - m = i
    BY <1>1
  <2>4. \A i \in 1 .. m : i \in 1 .. m + n /\ i <= m
    BY <1>1
  <2> HIDE DEF u, m, n
  <2> QED BY <2>1, <2>2, <2>3, <2>4
<1>3. \A i \in 1 .. m + n : u[i] \in Cells
  BY <1>2
<1> HIDE DEF u, m, n
<1>4. m + 1 \in Nat /\ m + n + 1 \in Nat /\ 1 <= m + 1 /\ m + 1 <= m + n + 1 /\ n + 1 \in Nat
      /\ 1 <= n + 1
  BY <1>1
<1>5. \A i \in 1 .. (m + n + 1) - 1 : u[i] \in Cells
  BY <1>1, <1>3
<1>6. Begin(u, 1, m + n + 1) = Begin(u, 1, m + 1) \o Begin(u, m + 1, m + n + 1)
  <2> DEFINE b == m + 1
             c == m + n + 1
  <2>1. b \in Nat /\ c \in Nat /\ 1 <= b /\ b <= c /\ \A i \in 1 .. c - 1 : u[i] \in Cells
    BY <1>4, <1>5
  <2> HIDE DEF b, c
  <2>2. Begin(u, 1, c) = Begin(u, 1, b) \o Begin(u, b, c)
    BY <2>1, BeginJoin
  <2> QED BY <2>2 DEF b, c
<1>7. Begin(u, 1, m + 1) = Begin(s, 1, m + 1)
  <2>1. \A i \in 1 .. (m + 1) - 1 : u[i] = s[i]
    BY <1>1, <1>2
  <2> QED BY <1>4, <2>1, BeginSame
<1>8. Begin(u, m + 1, m + n + 1) = Begin(t, 1, n + 1)
  <2>1. Moved(t, 1, n + 1, m, u)
    <3>1. \A i \in 1 .. (n + 1) - 1 : i \in 1 .. n /\ i + m = m + i
      BY <1>1
    <3> QED BY <1>2, <3>1 DEF Moved
  <2>2. m + 1 = 1 + m /\ m + n + 1 = (n + 1) + m /\ m \in Int
    BY <1>1
  <2> QED BY <1>4, <2>1, <2>2, BeginShift
<1>9. Len(u) + 1 = m + n + 1
  BY <1>2
<1>10. Begin(u, 1, Len(u) + 1) = Begin(s, 1, m + 1) \o Begin(t, 1, n + 1)
  BY <1>6, <1>7, <1>8, <1>9
<1> QED BY <1>10 DEF u, m, n

(* The groups of a batch, one behind the other.                            *)
IsFlat(f, seqs, m) == f = [i \in 1 .. m |-> IF i = 1 THEN seqs[i] ELSE f[i - 1] \o seqs[i]]

LEMMA FlatExists ==
  ASSUME NEW seqs, NEW m \in Nat
  PROVE  \E f : IsFlat(f, seqs, m)
<1> DEFINE Without == {k \in Nat : ~\E f : IsFlat(f, seqs, k)}
<1>1. SUFFICES ASSUME Without # {} PROVE FALSE
  OBVIOUS
<1>2. PICK l \in Without : \A k \in Without : l <= k
  BY <1>1, Smallest
<1>3. CASE l = 0
  <2> DEFINE f == [k \in 1 .. 0 |-> <<>>]
  <2>1. IsFlat(f, seqs, 0)
    BY DEF IsFlat
  <2> QED BY <1>2, <1>3, <2>1
<1>4. CASE l # 0
  <2>1. l \in Nat /\ l - 1 \in Nat /\ l - 1 \notin Without
    BY <1>2, <1>4
  <2>2. PICK f : IsFlat(f, seqs, l - 1)
    BY <2>1
  <2> DEFINE e == IF l = 1 THEN seqs[l] ELSE f[l - 1] \o seqs[l]
             g == [k \in 1 .. l |-> IF k = l THEN e ELSE f[k]]
  <2>3. \A k \in 1 .. l - 1 : g[k] = f[k]
    BY <2>1
  <2>4. \A k \in 1 .. l - 1 : f[k] = IF k = 1 THEN seqs[k] ELSE f[k - 1] \o seqs[k]
    BY <2>2 DEF IsFlat
  <2>5. \A k \in 1 .. l : g[k] = IF k = 1 THEN seqs[k] ELSE g[k - 1] \o seqs[k]
    <3> TAKE k \in 1 .. l
    <3>1. CASE k = l
      <4>1. g[l] = e /\ (l # 1 => g[l - 1] = f[l - 1])
        BY <1>4, <2>1, <2>3
      <4> HIDE DEF g
      <4> QED BY <1>4, <3>1, <4>1
    <3>2. CASE k # l
      <4>1. k \in 1 .. l - 1 /\ (k # 1 => k - 1 \in 1 .. l - 1)
        BY <2>1, <3>2
      <4> HIDE DEF g
      <4> QED BY <2>3, <2>4, <4>1
    <3> QED BY <3>1, <3>2
  <2>6. g = [k \in 1 .. l |-> g[k]]
    OBVIOUS
  <2> HIDE DEF g
  <2>7. IsFlat(g, seqs, l)
    BY <2>5, <2>6 DEF IsFlat
  <2> QED BY <1>2, <2>7
<1> QED BY <1>3, <1>4

LEMMA FlatFunction ==
  ASSUME NEW seqs \in Seq(Seq(Cells))
  PROVE  \E f \in [0 .. Len(seqs) -> Seq(Cells)] :
           /\ f[0] = <<>> /\ FlattenSeq(seqs) = f[Len(seqs)]
           /\ \A k \in 1 .. Len(seqs) : f[k] = f[k - 1] \o seqs[k]
<1> DEFINE m == Len(seqs)
           Is(f) == f = [i \in 1 .. m |-> IF i = 1 THEN seqs[i] ELSE f[i - 1] \o seqs[i]]
           flatten == CHOOSE f : Is(f)
           f == [k \in 0 .. m |-> IF k = 0 THEN <<>> ELSE flatten[k]]
<1>1. m \in Nat /\ (\A k \in 1 .. m : seqs[k] \in Seq(Cells)) /\ (m = 0 => seqs = <<>>)
  OBVIOUS
<1>2. \E g : Is(g)
  <2> HIDE DEF m
  <2>1. PICK g : IsFlat(g, seqs, m)
    BY <1>1, FlatExists
  <2> QED BY <2>1 DEF IsFlat
<1>3. Is(flatten)
  BY <1>2
<1>4. FlattenSeq(seqs) = IF m = 0 THEN seqs ELSE flatten[m]
  BY DEF FlattenSeq
<1> HIDE DEF m, flatten
<1>5. \A k \in 1 .. m : flatten[k] = IF k = 1 THEN seqs[k] ELSE flatten[k - 1] \o seqs[k]
  BY <1>3
<1>6. f[0] = <<>> /\ \A k \in 1 .. m : f[k] = flatten[k]
  BY <1>1
<1>7. ASSUME NEW k \in 1 .. m PROVE f[k] = f[k - 1] \o seqs[k]
  <2>1. CASE k = 1
    <3>1. seqs[1] \in Seq(Cells) /\ f[k - 1] = <<>>
      BY <1>1, <1>6, <2>1
    <3>2. <<>> \o seqs[1] = seqs[1]
      BY <3>1
    <3> HIDE DEF f
    <3> QED BY <1>5, <1>6, <2>1, <3>1, <3>2
  <2>2. CASE k # 1
    <3>1. k - 1 \in 1 .. m
      BY <1>1, <2>2
    <3> HIDE DEF f
    <3> QED BY <1>5, <1>6, <2>2, <3>1
  <2> QED BY <2>1, <2>2
<1>8. FlattenSeq(seqs) = f[m]
  <2>1. m # 0 => m \in 1 .. m
    BY <1>1
  <2> QED BY <1>1, <1>4, <1>6, <2>1
<1> DEFINE Bad == {k \in 0 .. m : f[k] \notin Seq(Cells)}
<1>9. Bad = {}
  <2> SUFFICES ASSUME Bad # {} PROVE FALSE
    OBVIOUS
  <2>1. PICK l \in Bad : \A k \in Bad : l <= k
    <3>1. Bad \subseteq Nat
      OBVIOUS
    <3> HIDE DEF Bad
    <3> QED BY <3>1, Smallest
  <2> HIDE DEF f
  <2>2. l # 0
    <3>1. <<>> \in Seq(Cells)
      OBVIOUS
    <3> QED BY <1>6, <2>1, <3>1
  <2>3. l \in 1 .. m /\ l - 1 \in 0 .. m /\ l - 1 \notin Bad
    BY <1>1, <2>1, <2>2
  <2>4. f[l - 1] \in Seq(Cells) /\ seqs[l] \in Seq(Cells)
    BY <1>1, <2>3
  <2>5. f[l - 1] \o seqs[l] \in Seq(Cells)
    BY <2>4
  <2> QED BY <1>7, <2>1, <2>3, <2>5
<1>10. f \in [0 .. m -> Seq(Cells)]
  BY <1>9
<1> HIDE DEF f
<1> QED BY <1>6, <1>7, <1>8, <1>10 DEF m

(* The commands that wait in a ring: there is no way back to the start in  *)
(* a row, so they end where the first one is.                              *)
Back(q, e, i) == q.ring[i].op = "restore" /\ \A j \in e .. i - 1 : q.ring[j].op # "restore"
Waiting(q, e) ==
  IF q.write < e
  THEN Begin(q.ring, e, CHOOSE i \in e .. Size - 1 : Back(q, e, i)) \o Begin(q.ring, 0, q.write)
  ELSE Begin(q.ring, e, q.write)

LEMMA PendingIs == Pending = Waiting(queue, exec)
BY DEF Pending, Waiting, Back, Wrapped

LEMMA WaitingBack ==
  ASSUME NEW q \in Queues, NEW e \in 0 .. Size - 1, q.write < e,
         NEW r \in e .. Size - 1, q.ring[r].op = "restore", Row(q.ring, e, r)
  PROVE  Waiting(q, e) = Begin(q.ring, e, r) \o Begin(q.ring, 0, q.write)
<1>1. \A j \in e .. r - 1 : q.ring[j].op # "restore"
  <2> SUFFICES ASSUME NEW j \in e .. r - 1, q.ring[j].op = "restore" PROVE FALSE
    OBVIOUS
  <2>1. Starts(q.ring, j)
    BY DEF Starts
  <2>2. q.ring[j].op \in DOMAIN Words
    BY <2>1 DEF Row
  <2> QED BY <2>2, WordCounts
<1> DEFINE b == CHOOSE i \in e .. Size - 1 : Back(q, e, i)
<1>2. Back(q, e, r)
  BY <1>1 DEF Back
<1>3. b \in e .. Size - 1 /\ Back(q, e, b)
  BY <1>2
<1> HIDE DEF b
<1>4. ~(b < r)
  <2> SUFFICES ASSUME b < r PROVE FALSE
    OBVIOUS
  <2>1. b \in e .. r - 1
    BY <1>3
  <2> QED BY <1>1, <1>3, <2>1 DEF Back
<1>5. ~(r < b)
  <2> SUFFICES ASSUME r < b PROVE FALSE
    OBVIOUS
  <2>1. r \in e .. b - 1
    BY <1>3
  <2> QED BY <1>3, <2>1 DEF Back
<1>6. b = r
  BY <1>3, <1>4, <1>5
<1> QED BY <1>6 DEF Waiting, b

LEMMA RingCells ==
  ASSUME NEW ring \in Rings, NEW a \in Nat, NEW b \in Nat, a <= b, b <= Size
  PROVE  Begin(ring, a, b) \in Seq(Cells)
<1>1. \A i \in a .. b - 1 : i \in 0 .. Size - 1
  BY SizeAssumption
<1>2. \A i \in a .. b - 1 : ring[i] \in Cells
  BY <1>1 DEF Rings
<1> QED BY <1>2, BeginCells

LEMMA WaitingCells ==
  ASSUME NEW q \in Queues, NEW e \in 0 .. Size - 1, Filled(q, e)
  PROVE  Waiting(q, e) \in Seq(Cells)
<1> DEFINE ring == q.ring
           w == q.write
<1>1. w \in 0 .. Size - 1 /\ w \in Nat /\ Size \in Nat /\ ring \in Rings /\ e \in Nat /\ w <= Size
  BY SizeAssumption DEF Queues
<1>2. CASE e <= w
  <2>1. Begin(ring, e, w) \in Seq(Cells)
    <3> HIDE DEF ring, w
    <3> QED BY <1>1, <1>2, RingCells
  <2>2. ~(w < e)
    BY <1>1, <1>2
  <2> QED BY <2>1, <2>2 DEF Waiting
<1>3. CASE w < e
  <2>1. PICK r \in e .. Size - 1 : ring[r].op = "restore" /\ Row(ring, e, r)
    BY <1>1, <1>3 DEF Filled
  <2>2. Begin(ring, e, r) \in Seq(Cells) /\ Begin(ring, 0, w) \in Seq(Cells)
    <3>1. r \in Nat /\ e <= r /\ r <= Size /\ 0 <= w
      BY <1>1, <2>1
    <3> HIDE DEF ring, w
    <3> QED BY <1>1, <3>1, RingCells
  <2>3. Waiting(q, e) = Begin(ring, e, r) \o Begin(ring, 0, w)
    BY <1>3, <2>1, WaitingBack
  <2> HIDE DEF ring, w
  <2> QED BY <2>2, <2>3
<1> QED BY <1>1, <1>2, <1>3

LEMMA WaitingSame ==
  ASSUME NEW q \in Queues, NEW e \in 0 .. Size - 1, Filled(q, e), NEW p \in Queues,
         p.write = q.write,
         \A i \in 0 .. Size - 1 : InUse(q, e, i) => p.ring[i] = q.ring[i]
  PROVE  Waiting(p, e) = Waiting(q, e)
<1> DEFINE from == q.ring
           to == p.ring
           w == q.write
<1>1. w \in 0 .. Size - 1 /\ w \in Nat /\ Size \in Nat /\ e \in Nat
  BY SizeAssumption DEF Queues
<1>2. CASE e <= w
  <2>1. \A i \in e .. w - 1 : to[i] = from[i]
    BY <1>1, <1>2 DEF InUse
  <2>2. Begin(to, e, w) = Begin(from, e, w)
    <3> HIDE DEF from, to, w
    <3> QED BY <1>1, <1>2, <2>1, BeginSame
  <2>3. ~(w < e)
    BY <1>1, <1>2
  <2> QED BY <2>2, <2>3 DEF Waiting
<1>3. CASE w < e
  <2>1. PICK r \in e .. Size - 1 : from[r].op = "restore" /\ Row(from, e, r)
    BY <1>1, <1>3 DEF Filled
  <2>2. r \in Nat /\ e <= r /\ (\A i \in e .. r - 1 : to[i] = from[i])
        /\ (\A i \in 0 .. w - 1 : to[i] = from[i]) /\ to[r] = from[r]
    BY <1>1, <1>3, <2>1 DEF InUse
  <2>3. Begin(to, e, r) = Begin(from, e, r) /\ Begin(to, 0, w) = Begin(from, 0, w) /\ Row(to, e, r)
    <3> HIDE DEF from, to, w
    <3>1. Begin(to, e, r) = Begin(from, e, r)
      BY <1>1, <2>2, BeginSame
    <3>2. Begin(to, 0, w) = Begin(from, 0, w)
      BY <1>1, <2>2, BeginSame
    <3>3. Row(to, e, r)
      BY <1>1, <2>1, <2>2, RowSame
    <3> QED BY <3>1, <3>2, <3>3
  <2>4. Waiting(q, e) = Begin(from, e, r) \o Begin(from, 0, w)
    BY <1>3, <2>1, WaitingBack
  <2>5. Waiting(p, e) = Begin(to, e, r) \o Begin(to, 0, p.write)
    BY <1>3, <2>1, <2>2, <2>3, WaitingBack
  <2> QED BY <2>3, <2>4, <2>5
<1> QED BY <1>1, <1>2, <1>3

(* A group that is put in is behind all others.                            *)
LEMMA LaidBegins ==
  ASSUME NEW ring \in Rings, NEW group, IsGroup(group), NEW w \in Nat, w + Len(group) <= Size
  PROVE  Begin(Laid(ring, w, group), w, w + Len(group)) = Begin(group, 1, Len(group) + 1)
<1> DEFINE n == Len(group)
           to == Laid(ring, w, group)
<1>1. n \in Nat /\ group \in Seq(Cells)
  BY DEF IsGroup
<1>2. \A i \in 1 .. n : to[i + (w - 1)] = group[i]
  <2> TAKE i \in 1 .. n
  <2>1. i + (w - 1) \in 0 .. Size - 1 /\ i + (w - 1) \in w .. w + n - 1 /\ (i + (w - 1)) - w + 1 = i
    BY <1>1, SizeAssumption
  <2> QED BY <2>1 DEF Laid
<1> HIDE DEF n, to
<1> DEFINE d == w - 1
<1>3. Moved(group, 1, n + 1, d, to)
  <2>1. \A i \in 1 .. (n + 1) - 1 : i \in 1 .. n
    BY <1>1
  <2> QED BY <1>2, <2>1 DEF Moved
<1>4. d \in Int /\ w = 1 + d /\ w + n = (n + 1) + d /\ n + 1 \in Nat /\ 1 <= n + 1
  BY <1>1
<1> HIDE DEF d
<1>5. Begin(to, w, w + n) = Begin(group, 1, n + 1)
  BY <1>3, <1>4, BeginShift
<1> QED BY <1>5 DEF n, to

LEMMA PutWaits ==
  ASSUME NEW q \in Queues, ~q.full, NEW e \in 0 .. Size - 1, Filled(q, e),
         NEW group, IsGroup(group), ~Put(q, group).full
  PROVE  Waiting(Put(q, group), e) = Waiting(q, e) \o Begin(group, 1, Len(group) + 1)
<1> DEFINE w    == q.write
           n    == Len(group)
           from == q.ring
           p    == Put(q, group)
           back == [from EXCEPT ![w] = Restore]
           new  == Begin(group, 1, n + 1)
<1>1. /\ w \in 0 .. Size - 1 /\ Size \in Nat /\ e \in Nat /\ w \in Nat /\ from \in Rings
      /\ back \in Rings /\ n \in Nat /\ n # 0 /\ q.free \in 0 .. Size - 1
  <2>1. IsGroup(group) => group # <<>> /\ group \in Seq(Cells)
    BY DEF IsGroup
  <2> QED BY <2>1, OwnCells, SizeAssumption DEF Queues, Rings
<1>2. new \in Seq(Cells)
  <2>1. \A i \in 1 .. (n + 1) - 1 : group[i] \in Cells
    BY <1>1 DEF IsGroup
  <2>2. n + 1 \in Nat /\ 1 <= n + 1
    BY <1>1
  <2> HIDE DEF n
  <2> QED BY <2>1, <2>2, BeginCells
<1>3. p \in Queues
  <2>1. Follows(q, e, q)
    BY <1>1 DEF Follows
  <2> QED BY <2>1, PutFollows DEF Follows
(* In place. *)
<1>4. CASE /\ w + n < Size /\ n <= q.free
           /\ p.ring = Laid(from, w, group) /\ p.write = w + n
  <2> DEFINE to == Laid(from, w, group)
  <2>1. /\ to \in Rings
        /\ \A i \in 0 .. Size - 1 : i < w \/ i >= w + n => to[i] = from[i]
    BY <1>1, <1>4, LaidGroup
  <2>2. Begin(to, w, w + n) = new
    BY <1>1, <1>4, LaidBegins
  <2> HIDE DEF to, new
  <2>3. CASE e <= w
    <3>1. Waiting(q, e) = Begin(from, e, w)
      <4>1. ~(w < e)
        BY <1>1, <2>3
      <4> QED BY <4>1 DEF Waiting
    <3>2. Waiting(p, e) = Begin(to, e, w + n)
      <4>1. ~(w + n < e)
        BY <1>1, <2>3
      <4> HIDE DEF p, w, n
      <4> QED BY <1>4, <4>1 DEF Waiting, to
    <3>3. Begin(to, e, w + n) = Begin(to, e, w) \o Begin(to, w, w + n)
      <4>1. \A i \in e .. (w + n) - 1 : to[i] \in Cells
        <5>1. \A i \in e .. (w + n) - 1 : i \in 0 .. Size - 1
          BY <1>1, <1>4
        <5> HIDE DEF w, n
        <5> QED BY <2>1, <5>1 DEF Rings
      <4> DEFINE c == w + n
      <4>2. e \in Nat /\ w \in Nat /\ c \in Nat /\ w <= c /\ e <= w
        BY <1>1, <2>3
      <4>3. \A i \in e .. c - 1 : to[i] \in Cells
        BY <4>1
      <4> HIDE DEF c, w, n
      <4>4. Begin(to, e, c) = Begin(to, e, w) \o Begin(to, w, c)
        BY SMTT(30), <4>2, <4>3, BeginJoin
      <4> QED BY <4>4 DEF c
    <3>4. Begin(to, e, w) = Begin(from, e, w)
      <4>1. \A i \in e .. w - 1 : to[i] = from[i]
        BY <1>1, <2>1
      <4>2. e \in Nat /\ w \in Nat /\ e <= w
        BY <1>1, <2>3
      <4> HIDE DEF w, from
      <4> QED BY SMTT(30), <4>1, <4>2, BeginSame
    <3> HIDE DEF p, w, n, from
    <3> QED BY <2>2, <3>1, <3>2, <3>3, <3>4 DEF p, w, n, from, new
  <2>4. CASE w < e
    <3>1. q.free = e - 1 - w /\ w + n < e
      <4>1. q.free = e - 1 - w
        BY <1>1, <2>4 DEF Filled
      <4> QED BY <1>1, <1>4, <2>4, <4>1
    <3>2. PICK r \in e .. Size - 1 : from[r].op = "restore" /\ Row(from, e, r)
      BY <1>1, <2>4 DEF Filled
    <3>3. r \in Nat /\ e <= r /\ (\A i \in e .. r - 1 : to[i] = from[i])
          /\ (\A i \in 0 .. w - 1 : to[i] = from[i]) /\ to[r] = from[r]
      BY <1>1, <2>1, <3>1, <3>2
    <3>4. Begin(to, e, r) = Begin(from, e, r) /\ Begin(to, 0, w) = Begin(from, 0, w) /\ Row(to, e, r)
      <4> HIDE DEF from, w
      <4>1. Begin(to, e, r) = Begin(from, e, r)
        BY <1>1, <3>3, BeginSame
      <4>2. Begin(to, 0, w) = Begin(from, 0, w)
        <5>1. 0 \in Nat /\ 0 <= w /\ w \in Nat /\ \A i \in 0 .. w - 1 : to[i] = from[i]
          BY <1>1, <3>3
        <5> QED BY <5>1, BeginSame
      <4>3. Row(to, e, r)
        BY <1>1, <3>2, <3>3, RowSame
      <4> QED BY <4>1, <4>2, <4>3
    <3>5. Waiting(q, e) = Begin(from, e, r) \o Begin(from, 0, w)
      BY <2>4, <3>2, WaitingBack
    <3>6. Waiting(p, e) = Begin(to, e, r) \o Begin(to, 0, w + n)
      <4>1. p.ring = to /\ p.write = w + n /\ w + n < e /\ to[r].op = "restore"
        BY <1>4, <3>1, <3>2, <3>3 DEF to
      <4> HIDE DEF p, w, n, from
      <4> QED BY <1>3, <3>4, <4>1, WaitingBack
    <3>7. Begin(to, 0, w + n) = Begin(to, 0, w) \o Begin(to, w, w + n)
      <4> DEFINE c == w + n
      <4>1. c \in Nat /\ w <= c /\ 0 \in Nat /\ 0 <= w /\ \A i \in 0 .. c - 1 : i \in 0 .. Size - 1
        BY <1>1, <1>4
      <4> HIDE DEF c, w, n, from
      <4>2. \A i \in 0 .. c - 1 : to[i] \in Cells
        BY <2>1, <4>1 DEF Rings
      <4>3. Begin(to, 0, c) = Begin(to, 0, w) \o Begin(to, w, c)
        <5>1. w \in Nat
          BY <1>1
        <5> QED BY <4>1, <4>2, <5>1, BeginJoin
      <4> QED BY <4>3 DEF c
    <3>8. Begin(from, e, r) \in Seq(Cells) /\ Begin(from, 0, w) \in Seq(Cells)
      <4>1. r <= Size /\ w <= Size /\ 0 <= w
        BY <1>1, <3>2
      <4> HIDE DEF from, w
      <4> QED BY <1>1, <3>3, <4>1, RingCells
    <3>9. (Begin(from, e, r) \o Begin(from, 0, w)) \o new
            = Begin(from, e, r) \o (Begin(from, 0, w) \o new)
      BY SMTT(30), <1>2, <3>8, ThreeJoin
    <3> HIDE DEF p, w, n, from
    <3> QED BY <2>2, <3>4, <3>5, <3>6, <3>7, <3>9 DEF p, w, n, from, new
  <2> QED BY <1>1, <2>3, <2>4
(* At the start of the ring. *)
<1>5. CASE /\ w + n >= Size /\ n + (Size - w) <= q.free
           /\ p.ring = Laid(back, 0, group) /\ p.write = n
  <2> DEFINE to == Laid(back, 0, group)
  <2>1. e <= w
    <3> SUFFICES ASSUME w < e PROVE FALSE
      BY <1>1
    <3>1. q.free = e - 1 - w
      BY <1>1 DEF Filled
    <3> QED BY <1>1, <1>5, <3>1
  <2>2. q.free = Size - 1 - (w - e) /\ Row(from, e, w)
    BY <1>1, <2>1 DEF Filled
  <2>3. n < e /\ n < Size
    <3>1. n + (Size - w) <= Size - 1 - (w - e)
      BY <1>5, <2>2
    <3> HIDE DEF n, w
    <3> QED BY SMTT(30), <1>1, <3>1
  <2>4. /\ to \in Rings /\ (\A i \in 0 .. Size - 1 : i >= n => to[i] = back[i])
        /\ Begin(to, 0, n) = new
    <3>1. 0 + Len(group) <= Size /\ 0 + n = n
      BY <1>1, <2>3
    <3>2. to \in Rings /\ \A i \in 0 .. Size - 1 : i >= n => to[i] = back[i]
      <4>1. 0 \in Nat /\ 0 + Len(group) = n
        BY <3>1
      <4> HIDE DEF back
      <4>2. /\ Laid(back, 0, group) \in Rings
            /\ \A i \in 0 .. Size - 1 :
                 i < 0 \/ i >= 0 + Len(group) => Laid(back, 0, group)[i] = back[i]
        BY <1>1, <3>1, <4>1, LaidGroup
      <4> QED BY <4>1, <4>2
    <3>3. Begin(to, 0, 0 + Len(group)) = new
      BY <1>1, <3>1, LaidBegins
    <3> QED BY <3>1, <3>2, <3>3
  <2> HIDE DEF to, new
  <2>5. to[w].op = "restore" /\ \A i \in e .. w - 1 : to[i] = from[i]
    <3>1. back[w] = Restore /\ \A i \in 0 .. Size - 1 : i # w => back[i] = from[i]
      BY <1>1 DEF Rings
    <3>2. w >= n /\ \A i \in e .. w - 1 : i \in 0 .. Size - 1 /\ i >= n /\ i # w
      BY <1>1, <2>1, <2>3
    <3> HIDE DEF back, from, w
    <3> QED BY <1>1, <2>4, <3>1, <3>2, OwnCells
  <2>6. Begin(to, e, w) = Begin(from, e, w) /\ Row(to, e, w)
    <3> HIDE DEF from, w, back
    <3>1. Begin(to, e, w) = Begin(from, e, w)
      BY <1>1, <2>1, <2>5, BeginSame
    <3>2. Row(to, e, w)
      BY <1>1, <2>2, <2>5, RowSame
    <3> QED BY <3>1, <3>2
  <2>7. Waiting(q, e) = Begin(from, e, w)
    <3>1. ~(w < e)
      BY <1>1, <2>1
    <3> QED BY <3>1 DEF Waiting
  <2>8. Waiting(p, e) = Begin(to, e, w) \o Begin(to, 0, n)
    <3>1. p.ring = to /\ p.write = n /\ n < e /\ w \in e .. Size - 1
      BY <1>1, <1>5, <2>1, <2>3 DEF to
    <3> HIDE DEF p, w, n, from
    <3> QED BY <1>3, <2>5, <2>6, <3>1, WaitingBack
  <2> HIDE DEF p, w, n, from
  <2> QED BY <2>4, <2>6, <2>7, <2>8 DEF p, w, n, from, new
<1> QED
  <2>1. \/ p = [q EXCEPT !.full = TRUE]
        \/ p = [q EXCEPT !.ring = back, !.write = 0, !.full = TRUE]
        \/ /\ w + n < Size /\ n <= q.free
           /\ p = [q EXCEPT !.ring = Laid(from, w, group), !.write = w + n,
                            !.free = q.free - n]
        \/ /\ w + n >= Size /\ n + (Size - w) <= q.free
           /\ p = [q EXCEPT !.ring = Laid(back, 0, group), !.write = n,
                            !.free = q.free - n - (Size - w)]
    BY PutIs
  <2> HIDE DEF p, back, w, n, from
  <2>2. p # [q EXCEPT !.full = TRUE] /\ p # [q EXCEPT !.ring = back, !.write = 0, !.full = TRUE]
    BY DEF p, Queues
  <2> QED BY <1>4, <1>5, <2>1, <2>2 DEF Queues

(* So is a batch, if all of it fits; otherwise nothing is.                 *)
LEMMA AllPutWaits ==
  ASSUME NEW q \in Queues, ~q.full, NEW e \in 0 .. Size - 1, Filled(q, e),
         NEW batch, IsBatch(batch), ~AllPut(q, batch).full
  PROVE  Waiting(AllPut(q, batch), e) = Waiting(q, e) \o Commands(batch)
<1> DEFINE m == Len(batch)
           Is(f) == f = [k \in 0 .. m |-> IF k = 0 THEN q ELSE Put(f[k - 1], batch[k])]
           put == CHOOSE f : Is(f)
<1>1. m \in Nat /\ \A k \in 1 .. m : IsGroup(batch[k]) /\ batch[k] \in Seq(Cells)
  BY DEF IsBatch
<1>2. \E f : Is(f)
  <2> HIDE DEF m
  <2>1. PICK f : IsPut(f, q, batch, m)
    BY <1>1, PutExists
  <2> QED BY <2>1 DEF IsPut
<1>3. Is(put)
  BY <1>2
<1>4. AllPut(q, batch) = put[m]
  BY DEF AllPut
<1>5. PICK flat \in [0 .. m -> Seq(Cells)] :
        /\ flat[0] = <<>> /\ FlattenSeq(batch) = flat[m]
        /\ \A k \in 1 .. m : flat[k] = flat[k - 1] \o batch[k]
  BY FlatFunction DEF IsBatch
<1> HIDE DEF m, put
<1>6. \A k \in 0 .. m : put[k] = IF k = 0 THEN q ELSE Put(put[k - 1], batch[k])
  BY <1>3
<1>7. Follows(q, e, q)
  <2>1. q.write \in 0 .. Size - 1 /\ Size \in Nat
    BY SizeAssumption DEF Queues
  <2> QED BY <2>1 DEF Follows
<1> DEFINE Sofar(k) == Begin(flat[k], 1, Len(flat[k]) + 1)
           Right(k) == /\ Follows(q, e, put[k])
                       /\ ~put[k].full => Waiting(put[k], e) = Waiting(q, e) \o Sofar(k)
           Bad == {k \in 0 .. m : ~Right(k)}
<1>8. Waiting(q, e) \in Seq(Cells)
  BY WaitingCells
<1>9. Bad = {}
  <2> SUFFICES ASSUME Bad # {} PROVE FALSE
    OBVIOUS
  <2>1. PICK l \in Bad : \A k \in Bad : l <= k
    <3>1. Bad \subseteq Nat
      OBVIOUS
    <3> HIDE DEF Bad
    <3> QED BY <3>1, Smallest
  <2>2. CASE l = 0
    <3>1. put[0] = q
      BY <1>1, <1>6
    <3>2. Sofar(0) = <<>>
      <4>1. Len(flat[0]) + 1 = 1
        BY <1>5
      <4>2. Begin(flat[0], 1, 1) = <<>>
        BY BeginIs
      <4> QED BY <4>1, <4>2
    <3>3. Waiting(q, e) \o <<>> = Waiting(q, e)
      BY <1>8, EmptyJoin
    <3> HIDE DEF Sofar
    <3>4. Right(0)
      BY <1>7, <3>1, <3>2, <3>3
    <3> QED BY <2>1, <2>2, <3>4
  <2>3. CASE l # 0
    <3>1. l - 1 \in 0 .. m /\ l - 1 \notin Bad /\ l \in 1 .. m /\ l \in 0 .. m
      <4> HIDE DEF Right
      <4> QED BY <1>1, <2>1, <2>3
    <3> DEFINE p == put[l - 1]
               group == batch[l]
               begun == Begin(group, 1, Len(group) + 1)
    <3>2. Right(l - 1) /\ IsGroup(group) /\ group \in Seq(Cells) /\ flat[l - 1] \in Seq(Cells)
      BY <1>1, <1>5, <3>1
    <3>3. put[l] = Put(p, group) /\ flat[l] = flat[l - 1] \o group
      BY <1>5, <1>6, <3>1, <2>3
    <3>4. Follows(q, e, put[l])
      BY <3>2, <3>3, PutFollows
    <3>5. ASSUME ~put[l].full PROVE Waiting(put[l], e) = Waiting(q, e) \o Sofar(l)
      <4>1. ~p.full
        BY <3>3, <3>5 DEF Put
      <4>2. p \in Queues /\ Filled(p, e)
        BY <3>2, <4>1 DEF Follows
      <4>3. Waiting(put[l], e) = Waiting(p, e) \o begun
        <5> HIDE DEF p, group
        <5> QED BY <3>2, <3>3, <3>5, <4>1, <4>2, PutWaits
      <4>4. Waiting(p, e) = Waiting(q, e) \o Sofar(l - 1)
        BY <3>2, <4>1
      <4>5. Sofar(l) = Sofar(l - 1) \o begun
        BY <3>2, <3>3, BeginConcat
      <4>6. Sofar(l - 1) \in Seq(Cells) /\ begun \in Seq(Cells)
        <5>1. ASSUME NEW s \in Seq(Cells) PROVE Begin(s, 1, Len(s) + 1) \in Seq(Cells)
          <6>1. Len(s) + 1 \in Nat /\ 1 <= Len(s) + 1
                /\ \A i \in 1 .. (Len(s) + 1) - 1 : s[i] \in Cells
            OBVIOUS
          <6> QED BY <6>1, BeginCells
        <5> QED BY <3>2, <5>1
      <4> HIDE DEF p, group, begun, Sofar
      <4>7. (Waiting(q, e) \o Sofar(l - 1)) \o begun = Waiting(q, e) \o (Sofar(l - 1) \o begun)
        <5> DEFINE s == Waiting(q, e)
                   t == Sofar(l - 1)
        <5>1. s \in Seq(Cells) /\ t \in Seq(Cells) /\ begun \in Seq(Cells)
          BY <1>8, <4>6
        <5> HIDE DEF s, t
        <5>2. (s \o t) \o begun = s \o (t \o begun)
          BY SMTT(30), <5>1, ThreeJoin
        <5> QED BY <5>2 DEF s, t
      <4> QED BY <4>3, <4>4, <4>5, <4>7
    <3>6. Right(l)
      BY <3>4, <3>5
    <3> QED BY <2>1, <3>6
  <2> QED BY <2>2, <2>3
<1>10. Right(m)
  <2>1. m \in 0 .. m
    BY <1>1
  <2> HIDE DEF Right
  <2> QED BY <1>9, <2>1
<1>11. Commands(batch) = Sofar(m)
  BY <1>5 DEF Commands
<1> QED BY <1>4, <1>10, <1>11

LEMMA PutAllWaits ==
  ASSUME NEW q \in Queues, ~q.full, NEW e \in 0 .. Size - 1, Filled(q, e),
         NEW batch, IsBatch(batch)
  PROVE  Waiting(PutAll(q, batch), e)
           = IF Accepted(q, batch) THEN Waiting(q, e) \o Commands(batch) ELSE Waiting(q, e)
<1> DEFINE q1 == AllPut(q, batch)
           p  == PutAll(q, batch)
           r1 == [q1.ring EXCEPT ![q.write] = ToNormal]
           r2 == [q1.ring EXCEPT ![q1.write] = ToNormal]
<1>1. Follows(q, e, q1)
  BY AllPutFollows
<1>2. p = IF q1.full THEN [q EXCEPT !.ring = r1] ELSE [q1 EXCEPT !.ring = r2]
  BY DEF PutAll
<1>3. p \in Queues /\ \A i \in 0 .. Size - 1 : InUse(q, e, i) => p.ring[i] = q.ring[i]
  BY PutAllHolds
<1>4. Accepted(q, batch) <=> ~q1.full
  BY DEF Accepted
<1>5. ~q1.full => Waiting(q1, e) = Waiting(q, e) \o Commands(batch)
  BY AllPutWaits
<1> HIDE DEF q1, p
<1>6. CASE q1.full
  <2>1. p.write = q.write
    BY <1>2, <1>6 DEF Queues
  <2>2. Waiting(p, e) = Waiting(q, e)
    BY <1>3, <2>1, WaitingSame
  <2> QED BY <1>4, <1>6, <2>2 DEF p
<1>7. CASE ~q1.full
  <2>1. q1 \in Queues /\ Filled(q1, e) /\ q1.write \in 0 .. Size - 1 /\ q1.ring \in Rings
    BY <1>1, <1>7 DEF Follows, Queues
  <2>2. \A i \in 0 .. Size - 1 : i # q1.write => r2[i] = q1.ring[i]
    BY <2>1 DEF Rings
  <2>3. ~InUse(q1, e, q1.write)
    BY <2>1 DEF InUse
  <2> HIDE DEF r2
  <2>4. p.ring = r2 /\ p.write = q1.write
    BY <1>2, <1>7, <2>1 DEF Queues
  <2>5. \A i \in 0 .. Size - 1 : InUse(q1, e, i) => p.ring[i] = q1.ring[i]
    BY <2>2, <2>3, <2>4
  <2>6. Waiting(p, e) = Waiting(q1, e)
    BY <1>3, <2>1, <2>4, <2>5, WaitingSame
  <2> QED BY <1>4, <1>5, <1>7, <2>6 DEF p
<1> QED BY <1>6, <1>7

(* A command that is done was the first of those that waited.              *)
LEMMA AdvancedWaits ==
  ASSUME NEW q \in Queues, NEW e \in 0 .. Size - 1, Filled(q, e),
         q.ring[q.write] = ToNormal, q.ring[e].op \in DOMAIN Words,
         NEW p \in Queues, p.ring = q.ring, p.write = q.write
  PROVE  Waiting(q, e) = <<q.ring[e]>> \o Waiting(p, e + Words[q.ring[e].op])
<1> DEFINE ring == q.ring
           w == q.write
           n == Words[ring[e].op]
<1>1. /\ w \in 0 .. Size - 1 /\ Size \in Nat /\ e \in Nat /\ w \in Nat /\ ring \in Rings
      /\ ring[e].op # "rest" /\ ring[e] \in Cells
  BY SizeAssumption, WordCounts DEF Queues, Rings
<1>2. n \in 1 .. 5
  BY WordCounts
<1>3. e # w
  BY WordCounts, OwnCells
(* In a row: it is the first, the others are behind it.                    *)
<1>4. ASSUME NEW b \in 0 .. Size - 1, e < b, Row(ring, e, b)
      PROVE  /\ e + n <= b /\ Row(ring, e + n, b)
             /\ Begin(ring, e, b) = <<ring[e]>> \o Begin(ring, e + n, b)
  <2>1. b \in Nat
    BY <1>1
  <2>2. e + n <= b /\ Row(ring, e + n, b) /\ Rested(ring, e, e + n)
    <3> HIDE DEF ring
    <3> USE DEF n
    <3> QED BY <1>1, <1>4, <2>1, RowGoesOn
  <2> DEFINE c == e + n
  <2>3. c \in Nat /\ e < c /\ e <= c /\ c <= b
    BY <1>1, <1>2, <2>2
  <2>4. \A i \in e .. b - 1 : ring[i] \in Cells
    <3>1. \A i \in e .. b - 1 : i \in 0 .. Size - 1
      BY <1>1
    <3> HIDE DEF ring
    <3> QED BY <1>1, <3>1 DEF Rings
  <2> HIDE DEF ring, n
  <2>5. Rested(ring, e, c)
    BY <2>2
  <2> HIDE DEF c
  <2>6. Begin(ring, e, b) = Begin(ring, e, c) \o Begin(ring, c, b)
    BY <1>1, <2>1, <2>3, <2>4, BeginJoin
  <2>7. Begin(ring, e, c) = <<ring[e]>>
    BY <1>1, <2>3, <2>5, BeginOne
  <2> QED BY <2>2, <2>6, <2>7 DEF c
<1>5. CASE e <= w
  <2>1. Row(ring, e, w) /\ e < w
    BY <1>1, <1>3, <1>5 DEF Filled
  <2>2. e + n <= w /\ Begin(ring, e, w) = <<ring[e]>> \o Begin(ring, e + n, w)
    <3> HIDE DEF ring, w, n
    <3> QED BY <1>1, <1>4, <2>1
  <2>3. Waiting(q, e) = Begin(ring, e, w) /\ Waiting(p, e + n) = Begin(ring, e + n, w)
    <3>1. ~(w < e) /\ ~(w < e + n)
      BY <1>1, <1>2, <1>5, <2>2
    <3> HIDE DEF n
    <3> QED BY <3>1 DEF Waiting
  <2> HIDE DEF ring, w, n
  <2>4. Waiting(q, e) = <<ring[e]>> \o Waiting(p, e + n)
    BY <2>2, <2>3
  <2> QED BY <2>4 DEF ring, n
<1>6. CASE w < e
  <2>1. PICK r \in e .. Size - 1 : ring[r].op = "restore" /\ Row(ring, e, r)
    BY <1>1, <1>6 DEF Filled
  <2>2. e < r /\ r \in 0 .. Size - 1 /\ r \in Nat
    BY <1>1, <2>1, WordCounts
  <2>3. /\ e + n <= r /\ Row(ring, e + n, r)
        /\ Begin(ring, e, r) = <<ring[e]>> \o Begin(ring, e + n, r)
    <3> HIDE DEF ring, w, n
    <3> QED BY <1>1, <1>4, <2>1, <2>2
  <2>4. Waiting(q, e) = Begin(ring, e, r) \o Begin(ring, 0, w)
    BY <1>6, <2>1, WaitingBack
  <2>5. Waiting(p, e + n) = Begin(ring, e + n, r) \o Begin(ring, 0, w)
    <3> DEFINE c == e + n
    <3>1. c \in 0 .. Size - 1 /\ r \in c .. Size - 1 /\ p.write < c
      <4>1. e + n \in 0 .. Size - 1 /\ r \in e + n .. Size - 1 /\ w < e + n /\ p.write = w
        <5> HIDE DEF n, ring
        <5> QED BY <1>1, <1>2, <1>6, <2>2, <2>3
      <4> QED BY <4>1
    <3>2. Row(p.ring, c, r) /\ p.ring[r].op = "restore"
      BY <2>1, <2>3
    <3> HIDE DEF c
    <3>3. Waiting(p, c) = Begin(p.ring, c, r) \o Begin(p.ring, 0, p.write)
      BY <3>1, <3>2, WaitingBack
    <3> QED BY <3>3 DEF c
  <2>6. <<ring[e]>> \in Seq(Cells) /\ Begin(ring, e + n, r) \in Seq(Cells)
        /\ Begin(ring, 0, w) \in Seq(Cells)
    <3>1. <<ring[e]>> \in Seq(Cells)
      BY <1>1
    <3> DEFINE c == e + n
    <3>2. c \in Nat /\ c <= r /\ r <= Size /\ w <= Size /\ 0 <= w /\ 0 \in Nat
      <4>1. e + n \in Nat /\ e + n <= r /\ r <= Size /\ w <= Size /\ 0 <= w /\ 0 \in Nat
        <5> HIDE DEF n, ring
        <5> QED BY <1>1, <1>2, <2>2, <2>3
      <4> QED BY <4>1
    <3> HIDE DEF c, ring, w, n
    <3>3. Begin(ring, c, r) \in Seq(Cells)
      BY <1>1, <2>2, <3>2, RingCells
    <3>4. Begin(ring, 0, w) \in Seq(Cells)
      BY <1>1, <3>2, RingCells
    <3> QED BY <3>1, <3>3, <3>4 DEF c
  <2> HIDE DEF ring, w, n
  <2>7. (<<ring[e]>> \o Begin(ring, e + n, r)) \o Begin(ring, 0, w)
          = <<ring[e]>> \o (Begin(ring, e + n, r) \o Begin(ring, 0, w))
    BY <2>6, ThreeJoin
  <2>8. Waiting(q, e) = <<ring[e]>> \o Waiting(p, e + n)
    BY <2>3, <2>4, <2>5, <2>7
  <2> QED BY <2>8 DEF ring, n
<1> QED BY <1>1, <1>5, <1>6

(* What the steps of the driver are to the queue of commands.              *)
InQueue == IF mode = "queue" THEN Waiting(queue, exec) ELSE <<>>

LEMMA AbstractIs ==
  /\ Abstract!Init <=> InQueue = <<>> /\ asked = <<>>
  /\ Abstract!queueVars = <<InQueue, asked>>
  /\ InQueue' = InQueue /\ asked' = asked => UNCHANGED Abstract!queueVars
  /\ Abstract!Accept <=> /\ asked' \in KeyBatches \cup MouseBatches \cup {<<>>}
                         /\ InQueue' = InQueue \o Commands(asked')
  /\ Abstract!Refuse <=> /\ asked' \in KeyBatches \cup MouseBatches \cup {<<>>}
                         /\ InQueue' = InQueue
  /\ Abstract!Execute <=> InQueue # <<>> /\ InQueue' = Tail(InQueue) /\ asked' = asked
  /\ Abstract!PassOver <=> /\ Len(InQueue) > 1
                           /\ InQueue[2] \in {cell \in Cells : cell.op = "RecieveCheck"}
                           /\ InQueue' = Tail(Tail(InQueue)) /\ asked' = asked
<1> DEFINE P == IF mode = "queue" THEN Pending ELSE <<>>
<1>1. P = InQueue
  BY PendingIs DEF InQueue
<1>2. P' = InQueue'
  <2>1. Pending' = Waiting(queue', exec')
    BY DEF Pending, Waiting, Back, Wrapped
  <2> QED BY <2>1 DEF InQueue
<1> QED
  BY <1>1, <1>2 DEF Abstract!Init, Abstract!queueVars, Abstract!Accept, Abstract!Refuse,
       Abstract!Execute, Abstract!PassOver

LEMMA FirstAndOthers ==
  ASSUME NEW c, NEW s \in Seq(Cells), c \in Cells
  PROVE  /\ <<c>> \o s # <<>> /\ Tail(<<c>> \o s) = s
         /\ (<<c>> \o s)[1] = c /\ Len(<<c>> \o s) = Len(s) + 1
         /\ \A i \in 1 .. Len(s) : (<<c>> \o s)[i + 1] = s[i]
<1> DEFINE t == <<c>> \o s
<1>1. <<c>> \in Seq(Cells) /\ Len(<<c>>) = 1 /\ <<c>>[1] = c
  OBVIOUS
<1>2. t \in Seq(Cells) /\ Len(t) = 1 + Len(s)
      /\ \A i \in 1 .. 1 + Len(s) : t[i] = IF i <= 1 THEN <<c>>[i] ELSE s[i - 1]
  BY <1>1, ConcatProperties
<1>3. Len(s) \in Nat
  OBVIOUS
<1> HIDE DEF t
<1>4. t # <<>> /\ t[1] = c /\ Len(t) = Len(s) + 1 /\ \A i \in 1 .. Len(s) : t[i + 1] = s[i]
  <2>1. t[1] = c
    BY <1>1, <1>2, <1>3
  <2>2. \A i \in 1 .. Len(s) : i + 1 \in 1 .. 1 + Len(s) /\ ~(i + 1 <= 1) /\ (i + 1) - 1 = i
    BY <1>3
  <2>3. \A i \in 1 .. Len(s) : t[i + 1] = s[i]
    BY <1>2, <2>2
  <2>4. t # <<>>
    BY <1>2, <1>3
  <2> QED BY <1>2, <1>3, <2>1, <2>3, <2>4
<1>5. Tail(t) = s
  <2>1. Tail(t) \in Seq(Cells) /\ Len(Tail(t)) = Len(t) - 1
        /\ \A i \in 1 .. Len(Tail(t)) : Tail(t)[i] = t[i + 1]
    BY <1>2, <1>4, HeadTailProperties
  <2>2. Len(Tail(t)) = Len(s) /\ \A i \in 1 .. Len(s) : Tail(t)[i] = s[i]
    BY <1>3, <1>4, <2>1
  <2> QED BY <2>1, <2>2, SeqEqual
<1> QED BY <1>4, <1>5 DEF t

LEMMA NowWaiting ==
  ASSUME QInv, mode = "queue"
  PROVE  InQueue = Waiting(queue, exec) /\ InQueue \in Seq(Cells)
<1>1. queue \in Queues /\ exec \in 0 .. Size - 1 /\ Filled(queue, exec)
  BY DEF QInv, Shapes, QueueHolds
<1> QED BY <1>1, WaitingCells DEF InQueue

(* One command is done.                                                    *)
LEMMA ExecuteStep ==
  ASSUME QInv, QInv', mode = "queue", mode' = "queue", Command.op \in DOMAIN Words,
         Advance(queue, exec), asked' = asked
  PROVE  Abstract!Execute
<1> DEFINE n == Words[queue.ring[exec].op]
<1>1. queue' = [queue EXCEPT !.free = @ + n] /\ exec' = exec + n
  BY DEF Advance
<1>2. /\ queue \in Queues /\ exec \in 0 .. Size - 1 /\ Filled(queue, exec)
      /\ queue.ring[queue.write] = ToNormal /\ queue.ring[exec].op \in DOMAIN Words
      /\ queue' \in Queues /\ Filled(queue', exec') /\ exec' \in 0 .. Size - 1
  BY DEF QInv, Shapes, QueueHolds, Command
<1>3. queue'.ring = queue.ring /\ queue'.write = queue.write
  BY <1>1, <1>2 DEF Queues
<1>4. Waiting(queue, exec) = <<queue.ring[exec]>> \o Waiting(queue', exec + n)
  BY <1>2, <1>3, AdvancedWaits
<1>5. Waiting(queue', exec') \in Seq(Cells)
  BY <1>2, WaitingCells
<1>6. queue.ring[exec] \in Cells
  BY <1>2 DEF Queues, Rings
<1> HIDE DEF n
<1>7. InQueue = <<queue.ring[exec]>> \o InQueue' /\ InQueue' \in Seq(Cells)
  BY <1>1, <1>4, <1>5 DEF InQueue
<1>8. InQueue # <<>> /\ Tail(InQueue) = InQueue'
  BY <1>6, <1>7, FirstAndOthers
<1> QED BY <1>8, AbstractIs

(* A command is done, and the check behind it with it.                     *)
LEMMA PassOverStep ==
  ASSUME QInv, QInv', mode = "queue", mode' = "queue", Command.op \in DOMAIN Words,
         queue.ring[exec + Words[Command.op]].op = "RecieveCheck",
         Advance([queue EXCEPT !.free = @ + Words[Command.op]], exec + Words[Command.op]),
         asked' = asked
  PROVE  Abstract!PassOver
<1> DEFINE n == Words[queue.ring[exec].op]
           behind == exec + n
           p == [queue EXCEPT !.free = @ + n]
           m == Words[p.ring[behind].op]
<1>1. queue' = [p EXCEPT !.free = @ + m] /\ exec' = behind + m
      /\ queue.ring[behind].op = "RecieveCheck"
  BY DEF Advance, Command
<1>2. /\ queue \in Queues /\ exec \in 0 .. Size - 1 /\ Filled(queue, exec)
      /\ queue.ring[queue.write] = ToNormal /\ queue.ring[exec].op \in DOMAIN Words
      /\ queue' \in Queues /\ Filled(queue', exec') /\ exec' \in 0 .. Size - 1
  BY DEF QInv, Shapes, QueueHolds, Command
<1>3. /\ behind \in 0 .. Size - 1
      /\ p \in Queues /\ p.ring = queue.ring /\ p.write = queue.write
      /\ Filled(p, behind)
  BY <1>2, Advanced
<1>4. Waiting(queue, exec) = <<queue.ring[exec]>> \o Waiting(p, behind)
  <2> HIDE DEF p
  <2> QED BY <1>2, <1>3, AdvancedWaits
<1> HIDE DEF p, behind, n
<1>5. "RecieveCheck" \in DOMAIN Words
  BY DEF Words
<1>6. queue'.ring = p.ring /\ queue'.write = p.write
  <2> HIDE DEF m
  <2> QED BY <1>1, <1>3 DEF Queues
<1>7. Waiting(p, behind) = <<p.ring[behind]>> \o Waiting(queue', behind + m)
  BY <1>1, <1>2, <1>3, <1>5, <1>6, AdvancedWaits
<1>8. Waiting(queue', exec') \in Seq(Cells)
  BY <1>2, WaitingCells
<1>9. queue.ring[exec] \in Cells /\ queue.ring[behind] \in Cells
  BY <1>2, <1>3 DEF Queues, Rings
<1> DEFINE w == Waiting(p, behind)
           c == queue.ring[exec]
           d == queue.ring[behind]
<1> HIDE DEF m
<1>10. InQueue = <<c>> \o w /\ w = <<d>> \o InQueue' /\ InQueue' \in Seq(Cells)
  BY <1>1, <1>3, <1>4, <1>7, <1>8 DEF InQueue
<1>11. c \in Cells /\ d \in Cells /\ d.op = "RecieveCheck"
  BY <1>1, <1>9
<1> HIDE DEF w, c, d
<1>12. w \in Seq(Cells) /\ w # <<>> /\ Tail(w) = InQueue' /\ w[1] = d /\ Len(w) = Len(InQueue') + 1
  <2>1. <<d>> \o InQueue' \in Seq(Cells)
    BY <1>10, <1>11
  <2> QED BY <1>10, <1>11, <2>1, FirstAndOthers
<1>13. Tail(InQueue) = w /\ Len(InQueue) = Len(w) + 1 /\ \A i \in 1 .. Len(w) : InQueue[i + 1] = w[i]
  BY <1>10, <1>11, <1>12, FirstAndOthers
<1>14. Len(InQueue) > 1 /\ InQueue[2] = d
  <2>1. Len(w) \in Nat /\ Len(InQueue') \in Nat
    BY <1>10, <1>12
  <2>2. 1 \in 1 .. Len(w) /\ 1 + 1 = 2
    BY <1>12, <2>1
  <2>3. InQueue[1 + 1] = w[1]
    BY <1>13, <2>2
  <2> QED BY <1>12, <1>13, <2>1, <2>2, <2>3
<1> QED BY <1>11, <1>12, <1>13, <1>14, AbstractIs

LEMMA SubmitImplements ==
  ASSUME QInv, NEW batch \in Batches, Submit(batch)
  PROVE  Abstract!Accept \/ Abstract!Refuse
<1>1. IsBatch(batch)
  BY BatchAssumption DEF Batches, IsBatch
<1>2. /\ queue \in Queues /\ ~queue.full /\ exec \in 0 .. Size - 1 /\ Filled(queue, exec)
  BY DEF QInv, Shapes, QueueHolds
<1>3. queue' = PutAll(queue, batch) /\ asked' = batch
  BY DEF Submit
<1>4. Waiting(queue', exec) = IF Accepted(queue, batch) THEN Waiting(queue, exec) \o Commands(batch)
                              ELSE Waiting(queue, exec)
  BY <1>1, <1>2, <1>3, PutAllWaits
<1>5. asked' \in KeyBatches \cup MouseBatches \cup {<<>>}
  BY <1>3 DEF Batches
<1>6. CASE mode = "queue"
  <2>1. exec' = exec /\ mode' = mode
    BY <1>6 DEF Submit
  <2>2. InQueue = Waiting(queue, exec) /\ InQueue' = Waiting(queue', exec)
    BY <1>6, <2>1 DEF InQueue
  <2> QED BY <1>3, <1>4, <1>5, <2>2, AbstractIs
<1>7. CASE mode # "queue" /\ Accepted(queue, batch)
  <2>1. exec' = 0 /\ mode' = "queue" /\ exec = 0 /\ queue.write = 0
    BY <1>7 DEF Submit, QInv, IInv, StartsEmpty
  <2>2. Waiting(queue, exec) = <<>>
    <3>1. Begin(queue.ring, 0, 0) = <<>>
      BY BeginIs
    <3> QED BY <2>1, <3>1 DEF Waiting
  <2>3. InQueue = <<>> /\ InQueue' = Waiting(queue', exec)
    BY <1>7, <2>1 DEF InQueue
  <2> QED BY <1>3, <1>4, <1>5, <1>7, <2>2, <2>3, AbstractIs
<1>8. CASE mode # "queue" /\ ~Accepted(queue, batch)
  <2>1. mode' = mode
    BY <1>8 DEF Submit
  <2>2. InQueue = <<>> /\ InQueue' = <<>>
    BY <1>8, <2>1 DEF InQueue
  <2> QED BY <1>5, <2>2, AbstractIs
<1> QED BY <1>6, <1>7, <1>8

(* The end of the queue comes behind the last command.                     *)
LEMMA EndWaits ==
  ASSUME QInv, mode = "queue", Command.op = "tonormal"
  PROVE  Waiting(queue, exec) = <<>>
<1> DEFINE ring == queue.ring
           w == queue.write
<1>1. /\ queue \in Queues /\ exec \in 0 .. Size - 1 /\ Filled(queue, exec)
      /\ w \in 0 .. Size - 1 /\ ring[exec].op = "tonormal" /\ Size \in Nat /\ exec \in Nat /\ w \in Nat
  BY SizeAssumption DEF QInv, Shapes, QueueHolds, Queues, Command
<1>2. ASSUME NEW b \in Nat, exec < b, Row(ring, exec, b) PROVE FALSE
  <2>1. ring[exec].op \in DOMAIN Words
    <3> HIDE DEF ring
    <3> QED BY <1>1, <1>2, RowGoesOn
  <2> QED BY <1>1, <2>1, WordCounts
<1>3. CASE w < exec
  <2>1. PICK r \in exec .. Size - 1 : ring[r].op = "restore" /\ Row(ring, exec, r)
    BY <1>1, <1>3 DEF Filled
  <2>2. exec < r /\ r \in Nat
    <3>1. exec # r
      BY <1>1, <2>1
    <3> QED BY <1>1, <2>1, <3>1
  <2> QED BY <1>2, <2>1, <2>2
<1>4. CASE exec <= w
  <2>1. Row(ring, exec, w)
    BY <1>1, <1>4 DEF Filled
  <2>2. exec = w
    <3> HIDE DEF ring, w
    <3> QED BY <1>1, <1>2, <1>4, <2>1
  <2>3. Begin(ring, exec, exec) = <<>>
    BY <1>1, BeginIs
  <2>4. ~(w < exec)
    BY <1>1, <2>2
  <2> QED BY <2>2, <2>3, <2>4 DEF Waiting
<1> QED BY <1>1, <1>3, <1>4

(* Back at the start the same commands wait.                               *)
LEMMA RestoreWaits ==
  ASSUME QInv, RestoreStart
  PROVE  InQueue' = InQueue
<1>1. mode = "queue" /\ mode' = "queue" /\ Command.op = "restore" /\ exec' = 0
      /\ queue' = [queue EXCEPT !.free = @ + Size - exec]
  BY DEF RestoreStart, QInv, IInv, OnlyQueueRuns
<1>2. queue \in Queues /\ exec \in 0 .. Size - 1 /\ queue.write \in 0 .. Size - 1
      /\ queue.ring \in Rings
  BY DEF QInv, Shapes, Queues
<1>3. queue.write < exec
  BY <1>1, RestoreIsThere
<1>4. queue'.ring = queue.ring /\ queue'.write = queue.write
  BY <1>1, <1>2 DEF Queues
<1>5. Waiting(queue, exec) = Begin(queue.ring, exec, exec) \o Begin(queue.ring, 0, queue.write)
  <2>1. queue.ring[exec].op = "restore" /\ exec \in exec .. Size - 1 /\ Row(queue.ring, exec, exec)
    BY <1>1, <1>2 DEF Command, Row
  <2> QED BY <1>2, <1>3, <2>1, WaitingBack
<1>6. Begin(queue.ring, exec, exec) = <<>> /\ Begin(queue.ring, 0, queue.write) \in Seq(Cells)
  <2>1. Begin(queue.ring, exec, exec) = <<>>
    BY <1>2, BeginIs
  <2> DEFINE w == queue.write
             ring == queue.ring
  <2>2. w \in Nat /\ 0 \in Nat /\ 0 <= w /\ w <= Size /\ ring \in Rings
    BY <1>2, SizeAssumption
  <2> HIDE DEF w, ring
  <2>3. Begin(ring, 0, w) \in Seq(Cells)
    BY <2>2, RingCells
  <2> QED BY <2>1, <2>3 DEF w, ring
<1>7. Waiting(queue, exec) = Begin(queue.ring, 0, queue.write)
  BY <1>5, <1>6, EmptyJoin
<1>8. Waiting(queue', 0) = Begin(queue.ring, 0, queue.write)
  <2>1. ~(queue.write < 0)
    BY <1>2
  <2> QED BY <1>4, <2>1 DEF Waiting
<1> QED BY <1>1, <1>7, <1>8 DEF InQueue

LEMMA StepImplements == QInv /\ [Next]_vars => [Abstract!Next]_(Abstract!queueVars)
<1> SUFFICES ASSUME QInv, [Next]_vars PROVE [Abstract!Next]_(Abstract!queueVars)
  OBVIOUS
<1>1. QInv'
  BY QNext
<1>2. Abstract!Next <=> Abstract!Accept \/ Abstract!Refuse \/ Abstract!Execute \/ Abstract!PassOver
  BY DEF Abstract!Next
<1>3. ASSUME InQueue' = InQueue, asked' = asked PROVE UNCHANGED Abstract!queueVars
  BY <1>3, AbstractIs
<1>4. running # "no" => mode = "queue"
  BY DEF QInv, IInv, OnlyQueueRuns
<1>5. CASE \E batch \in Batches : Submit(batch)
  BY <1>2, <1>5, SubmitImplements
<1>6. CASE ToNormalMode
  <2>1. mode = "queue" /\ Command.op = "tonormal" /\ mode' = "normal" /\ asked' = asked
    BY <1>4, <1>6 DEF ToNormalMode, histories
  <2>2. InQueue = <<>> /\ InQueue' = <<>>
    BY <2>1, EndWaits DEF InQueue
  <2> QED BY <1>3, <2>1, <2>2
<1>7. CASE RestoreStart
  <2>1. asked' = asked
    BY <1>7 DEF RestoreStart, histories
  <2> QED BY <1>3, <1>7, <2>1, RestoreWaits
<1>8. CASE WaitBufEmpty \/ NoAnswer
  <2>1. /\ mode = "queue" /\ mode' = "queue" /\ asked' = asked
        /\ Command.op \in DOMAIN Words /\ Advance(queue, exec)
    BY <1>4, <1>8 DEF WaitBufEmpty, NoAnswer, histories, Words
  <2> QED BY <1>1, <1>2, <2>1, ExecuteStep
<1>9. CASE GetAnswer
  <2>1. /\ mode = "queue" /\ mode' = "queue" /\ asked' = asked /\ running = "no"
        /\ Advance(queue, exec)
    BY <1>9 DEF GetAnswer, Comes, histories
  <2>2. Command.op \in DOMAIN Words
    BY <2>1, AwaitsAre DEF QInv, QueueHolds
  <2> QED BY <1>1, <1>2, <2>1, <2>2, ExecuteStep
<1>10. ASSUME NEW byte, GetOther(byte) PROVE [Abstract!Next]_(Abstract!queueVars)
  <2>1. mode = "queue" /\ mode' = "queue" /\ asked' = asked /\ running = "no"
    BY <1>10 DEF GetOther, Comes
  <2>2. Command.op \in DOMAIN Words
    BY <2>1, AwaitsAre DEF QInv, QueueHolds
  <2>3. CASE UNCHANGED <<queue, exec>>
    BY <1>3, <2>1, <2>3 DEF InQueue
  <2>4. CASE Advance(queue, exec)
    BY <1>1, <1>2, <2>1, <2>2, <2>4, ExecuteStep
  <2>5. CASE /\ queue.ring[exec + Words[Command.op]].op = "RecieveCheck"
             /\ Advance([queue EXCEPT !.free = @ + Words[Command.op]], exec + Words[Command.op])
    BY <1>1, <1>2, <2>1, <2>2, <2>5, PassOverStep
  <2>6. CASE waiting = "check"
    BY <1>10, <2>3, <2>6 DEF GetOther
  <2>7. CASE waiting # "check" /\ device = "mouse"
    BY <1>10, <2>3, <2>7 DEF GetOther
  <2>8. CASE waiting # "check" /\ device # "mouse"
    <3>1. IF queue.ring[exec + Words[Command.op]].op = "RecieveCheck"
          THEN Advance([queue EXCEPT !.free = @ + Words[Command.op]], exec + Words[Command.op])
          ELSE Advance(queue, exec)
      BY <1>10, <2>8 DEF GetOther
    <3> QED BY <2>4, <2>5, <3>1
  <2> QED BY <2>6, <2>7, <2>8
<1>11. ASSUME NEW byte, Key(byte) \/ MouseByte(byte) PROVE [Abstract!Next]_(Abstract!queueVars)
  <2>1. mode # "queue" /\ mode' # "queue" /\ asked' = asked
    BY <1>11 DEF Key, MouseByte, histories, queueVars
  <2> QED BY <1>3, <2>1 DEF InQueue
<1>12. CASE SendAndWait \/ WaitForByte \/ GetNack \/ Take \/ Use \/ UNCHANGED vars
  <2>1. UNCHANGED <<queue, exec, mode, asked>>
    BY <1>12 DEF SendAndWait, WaitForByte, GetNack, Take, Use, vars, queueVars, histories
  <2> QED BY <1>3, <2>1 DEF InQueue
<1> QED
  BY <1>5, <1>6, <1>7, <1>8, <1>9, <1>10, <1>11, <1>12 DEF Next

(* The driver implements its abstract specification, for rings of every    *)
(* size and all batches of whole commands: a batch is taken or refused as  *)
(* a whole, what was taken is executed in order, and only a check is       *)
(* passed over, with the command before it (keymos0.ask,                   *)
(* KeyboardQueueExecute, MouseQueueExecute and the micro commands).        *)
THEOREM QueueOfCommands == Spec => ImplementsQueue
<1>1. Init => Abstract!Init
  <2> SUFFICES ASSUME Init PROVE Abstract!Init
    OBVIOUS
  <2>1. InQueue = <<>> /\ asked = <<>>
    BY DEF Init, InQueue
  <2> QED BY <2>1, AbstractIs
<1>2. QInv /\ [Next]_vars => [Abstract!Next]_(Abstract!queueVars)
  BY StepImplements
<1> QED BY <1>1, <1>2, QInvariance, PTL DEF Spec, ImplementsQueue, Abstract!Spec

-----------------------------------------------------------------------------
(* What the commands of clients do, one behind the other: how far a batch  *)
(* has come, and what the LEDs show. A queue that starts is "new", if no   *)
(* batch was handed in before, or "done", or, for the mouse, "dirty",      *)
(* since bytes of a report may still come; "led" behind a byte that        *)
(* announces one for the LEDs; "check" behind a reset.                     *)
Stages == {"new", "dirty", "done", "led", "check"}
Labels == [stage : Stages, lamps : {"none", "on", "off"}]
Label(stage, value) == [stage |-> stage, lamps |-> value]

Between == {"new", "dirty", "done"}

KeyGoes(c, l, m) ==
  \/ c = Cell("WaitBufEmpty", "none") /\ l.stage \in {"new", "done"} /\ m = l
  \/ c = Cell("AckSendData", "FF") /\ l.stage = "new" /\ m = Label("check", "none")
  \/ c = Cell("RecieveCheck", "AA") /\ l.stage = "check" /\ m = Label("done", l.lamps)
  \/ c = Cell("AckSendData", "ED") /\ l.stage \in {"new", "done"} /\ m = Label("led", l.lamps)
  \/ \E v \in {"on", "off"} :
       c = Cell("AckSendData", v) /\ l.stage = "led" /\ m = Label("done", v)
  \/ /\ c \in {Cell("WriteCmdReg", "D1"), Cell("SendData", "DF")}
     /\ l.stage \in {"new", "done"} /\ m = Label("done", l.lamps)

MouseGoes(c, l, m) ==
  \/ c = Cell("WaitBufEmpty", "none") /\ l.stage \in Between /\ m = l
  \/ c = Cell("ResetCommand", "FF") /\ l.stage = "new" /\ m = Label("done", l.lamps)
  \/ c = Cell("AckSendData", "F4") /\ l.stage \in Between /\ m = Label("done", l.lamps)

Goes(dev, c, l, m) == IF dev = "keyboard" THEN KeyGoes(c, l, m) ELSE MouseGoes(c, l, m)

(* Each word of the ring at which a command begins has a label, and the    *)
(* commands lead from one to the other; no group is split by the end of    *)
(* the ring.                                                               *)
Marked(dev, lab, ring, a, b) ==
  \A i \in a .. b - 1 : Starts(ring, i) => Goes(dev, ring[i], lab[i], lab[i + Words[ring[i].op]])

MarkedFilled(dev, lab, q, e) ==
  IF e <= q.write THEN Marked(dev, lab, q.ring, e, q.write)
  ELSE /\ Marked(dev, lab, q.ring, 0, q.write)
       /\ \E r \in e .. Size - 1 : /\ q.ring[r].op = "restore" /\ Row(q.ring, e, r)
                                   /\ Marked(dev, lab, q.ring, e, r)
                                   /\ lab[0] = lab[r] /\ lab[r].stage \in Between

Leads(dev, q, e, l, m) ==
  \E lab \in [0 .. Size -> Labels] :
    MarkedFilled(dev, lab, q, e) /\ lab[e] = l /\ lab[q.write] = m

(* Labels hold where the words are, and where the labels are the same.     *)
LEMMA MarkedSame ==
  ASSUME NEW dev, NEW lab, NEW r1, NEW r2, NEW a \in Nat, NEW b \in Nat,
         Marked(dev, lab, r1, a, b), \A i \in a .. b - 1 : r2[i] = r1[i]
  PROVE  Marked(dev, lab, r2, a, b)
<1> SUFFICES ASSUME NEW i \in a .. b - 1, Starts(r2, i)
             PROVE  Goes(dev, r2[i], lab[i], lab[i + Words[r2[i].op]])
  BY DEF Marked
<1>1. r2[i] = r1[i] /\ Starts(r1, i)
  BY DEF Starts
<1> QED BY <1>1 DEF Marked

LEMMA MarksSame ==
  ASSUME NEW dev, NEW la, NEW lb, NEW r, NEW a \in Nat, NEW b \in Nat, Row(r, a, b),
         Marked(dev, la, r, a, b), \A i \in a .. b : lb[i] = la[i]
  PROVE  Marked(dev, lb, r, a, b)
<1> SUFFICES ASSUME NEW i \in a .. b - 1, Starts(r, i)
             PROVE  Goes(dev, r[i], lb[i], lb[i + Words[r[i].op]])
  BY DEF Marked
<1> DEFINE next == i + Words[r[i].op]
<1>1. r[i].op \in DOMAIN Words /\ next <= b
  BY DEF Row
<1>2. next \in a .. b
  BY <1>1, WordCounts
<1>3. Goes(dev, r[i], la[i], la[next])
  BY DEF Marked
<1>4. lb[i] = la[i] /\ lb[next] = la[next]
  BY <1>2
<1> QED BY <1>3, <1>4

LEMMA MarkedJoin ==
  ASSUME NEW dev, NEW lab, NEW r, NEW a \in Nat, NEW b \in Nat, NEW c \in Nat,
         Marked(dev, lab, r, a, b), Marked(dev, lab, r, b, c)
  PROVE  Marked(dev, lab, r, a, c)
<1> SUFFICES ASSUME NEW i \in a .. c - 1, Starts(r, i)
             PROVE  Goes(dev, r[i], lab[i], lab[i + Words[r[i].op]])
  BY DEF Marked
<1>1. i \in a .. b - 1 \/ i \in b .. c - 1
  OBVIOUS
<1> QED BY <1>1 DEF Marked

(* The labels of a queue stay while the words in use do.                   *)
LEMMA LeadsSame ==
  ASSUME NEW dev, NEW q \in Queues, NEW e \in 0 .. Size - 1, NEW l, NEW m,
         Leads(dev, q, e, l, m), NEW p, p.write = q.write,
         \A i \in 0 .. Size - 1 : InUse(q, e, i) => p.ring[i] = q.ring[i]
  PROVE  Leads(dev, p, e, l, m)
<1>1. q.write \in 0 .. Size - 1 /\ Size \in Nat /\ q.write \in Nat /\ e \in Nat
  BY SizeAssumption DEF Queues
<1> DEFINE from == q.ring  to == p.ring  w == q.write
<1>2. PICK lab \in [0 .. Size -> Labels] :
        MarkedFilled(dev, lab, q, e) /\ lab[e] = l /\ lab[w] = m
  BY DEF Leads
<1>3. CASE e <= w
  <2>1. \A i \in e .. w - 1 : to[i] = from[i]
    BY <1>1, <1>3 DEF InUse
  <2>2. Marked(dev, lab, from, e, w)
    BY <1>2, <1>3 DEF MarkedFilled
  <2>3. Marked(dev, lab, to, e, w)
    <3> HIDE DEF from, to, w
    <3> USE DEF w
    <3> QED BY <1>1, <2>1, <2>2, MarkedSame
  <2> QED BY <1>2, <1>3, <2>3 DEF Leads, MarkedFilled
<1>4. CASE w < e
  <2>1. Marked(dev, lab, from, 0, w)
    BY <1>1, <1>2, <1>4 DEF MarkedFilled
  <2>2. PICK r \in e .. Size - 1 : /\ q.ring[r].op = "restore" /\ Row(q.ring, e, r)
                                   /\ Marked(dev, lab, q.ring, e, r)
                                   /\ lab[0] = lab[r] /\ lab[r].stage \in Between
    BY <1>1, <1>2, <1>4 DEF MarkedFilled
  <2>3. \A i \in 0 .. w - 1 : to[i] = from[i]
    BY <1>1, <1>4 DEF InUse
  <2>4. \A i \in e .. r : to[i] = from[i]
    BY <1>1, <1>4 DEF InUse
  <2>5. \A i \in e .. r - 1 : to[i] = from[i]
    BY <2>4
  <2>6. r \in Nat /\ r \in e .. r
    BY <1>1, <2>2
  <2>7. Marked(dev, lab, to, 0, w)
    <3> HIDE DEF from, to
    <3> QED BY <1>1, <2>1, <2>3, MarkedSame
  <2>8. Marked(dev, lab, to, e, r)
    <3>1. Marked(dev, lab, from, e, r)
      BY <2>2
    <3> HIDE DEF from, to
    <3> QED BY <1>1, <2>5, <2>6, <3>1, MarkedSame
  <2>9. Row(to, e, r)
    <3>1. Row(from, e, r)
      BY <2>2
    <3> HIDE DEF from, to
    <3> QED BY <1>1, <2>5, <2>6, <3>1, RowSame
  <2>10. to[r].op = "restore"
    BY <2>2, <2>4, <2>6
  <2>11. MarkedFilled(dev, lab, p, e)
    BY <1>1, <1>4, <2>2, <2>7, <2>8, <2>9, <2>10 DEF MarkedFilled
  <2> QED BY <1>2, <2>11 DEF Leads
<1> QED BY <1>1, <1>3, <1>4

(* Behind the command that is executed the next one has the label it       *)
(* leads to.                                                               *)
LEMMA MarkedGoesOn ==
  ASSUME NEW dev, NEW lab, NEW r, NEW a \in Nat, NEW b \in Nat, a < b, Row(r, a, b),
         Marked(dev, lab, r, a, b)
  PROVE  /\ Goes(dev, r[a], lab[a], lab[a + Words[r[a].op]])
         /\ Marked(dev, lab, r, a + Words[r[a].op], b)
<1>1. r[a].op \in DOMAIN Words /\ Words[r[a].op] \in 1 .. 5 /\ a + Words[r[a].op] <= b
  BY RowGoesOn
<1>2. Starts(r, a)
  BY DEF Row
<1>3. Goes(dev, r[a], lab[a], lab[a + Words[r[a].op]])
  BY <1>2 DEF Marked
<1>4. Marked(dev, lab, r, a + Words[r[a].op], b)
  BY <1>1 DEF Marked
<1> QED BY <1>3, <1>4

LEMMA LeadsOn ==
  ASSUME NEW dev, NEW q \in Queues, NEW e \in 0 .. Size - 1, Filled(q, e),
         q.ring[q.write] = ToNormal, q.ring[e].op \in DOMAIN Words,
         NEW l, NEW m, Leads(dev, q, e, l, m)
  PROVE  \E x \in Labels : /\ Goes(dev, q.ring[e], l, x)
                           /\ Leads(dev, q, e + Words[q.ring[e].op], x, m)
<1> DEFINE ring == q.ring
           w == q.write
           n == Words[ring[e].op]
<1>1. w \in 0 .. Size - 1 /\ Size \in Nat /\ e \in Nat /\ w \in Nat
  BY SizeAssumption DEF Queues
<1>2. n \in 1 .. 5
  BY WordCounts
<1>3. e # w
  BY WordCounts, OwnCells
<1>4. PICK lab \in [0 .. Size -> Labels] :
        MarkedFilled(dev, lab, q, e) /\ lab[e] = l /\ lab[w] = m
  BY DEF Leads
<1>5. CASE e <= w
  <2>1. Row(ring, e, w) /\ e < w
    BY <1>1, <1>3, <1>5 DEF Filled
  <2>2. Marked(dev, lab, ring, e, w)
    BY <1>4, <1>5 DEF MarkedFilled
  <2>3. e + n <= w
    <3> HIDE DEF ring
    <3> USE DEF n
    <3> QED BY <1>1, <2>1, RowGoesOn
  <2>4. Goes(dev, ring[e], lab[e], lab[e + n]) /\ Marked(dev, lab, ring, e + n, w)
    <3> HIDE DEF ring, w
    <3> USE DEF n
    <3> QED BY <1>1, <2>1, <2>2, MarkedGoesOn
  <2>5. lab[e + n] \in Labels
    <3> HIDE DEF n
    <3> QED BY <1>1, <1>2, <2>3
  <2>6. Leads(dev, q, e + n, lab[e + n], m)
    <3> HIDE DEF n
    <3> QED BY <1>4, <2>3, <2>4 DEF Leads, MarkedFilled
  <2> QED BY <1>4, <2>4, <2>5, <2>6
<1>6. CASE w < e
  <2>1. Marked(dev, lab, ring, 0, w)
    BY <1>1, <1>4, <1>6 DEF MarkedFilled
  <2>2. PICK r \in e .. Size - 1 : /\ ring[r].op = "restore" /\ Row(ring, e, r)
                                   /\ Marked(dev, lab, ring, e, r)
                                   /\ lab[0] = lab[r] /\ lab[r].stage \in Between
    BY <1>1, <1>4, <1>6 DEF MarkedFilled
  <2>3. e < r /\ r \in Nat
    BY <1>1, <2>2, WordCounts
  <2>4. e + n <= r /\ Row(ring, e + n, r)
    <3> HIDE DEF ring
    <3> USE DEF n
    <3> QED BY <1>1, <2>2, <2>3, RowGoesOn
  <2>5. Goes(dev, ring[e], lab[e], lab[e + n]) /\ Marked(dev, lab, ring, e + n, r)
    <3> HIDE DEF ring, w
    <3> USE DEF n
    <3> QED BY <1>1, <2>2, <2>3, MarkedGoesOn
  <2> HIDE DEF n
  <2>6. lab[e + n] \in Labels /\ w < e + n /\ ~(e + n <= w) /\ r \in e + n .. Size - 1
    BY <1>1, <1>2, <1>6, <2>2, <2>4
  <2>7. MarkedFilled(dev, lab, q, e + n)
    BY <2>1, <2>2, <2>4, <2>5, <2>6 DEF MarkedFilled
  <2>8. Leads(dev, q, e + n, lab[e + n], m)
    BY <1>4, <2>7 DEF Leads
  <2> QED BY <1>4, <2>5, <2>6, <2>8 DEF n
<1> QED BY <1>1, <1>5, <1>6

(* At the end of the ring it goes on at the start, with the same label.    *)
LEMMA LeadsBack ==
  ASSUME NEW dev, NEW q \in Queues, NEW e \in 0 .. Size - 1, q.write < e,
         q.ring[e].op = "restore", NEW l, NEW m, Leads(dev, q, e, l, m)
  PROVE  Leads(dev, q, 0, l, m) /\ l.stage \in Between
<1> DEFINE ring == q.ring
           w == q.write
<1>1. w \in 0 .. Size - 1 /\ Size \in Nat /\ e \in Nat /\ w \in Nat /\ ~(e <= w) /\ 0 <= w
  BY SizeAssumption DEF Queues
<1>2. PICK lab \in [0 .. Size -> Labels] :
        MarkedFilled(dev, lab, q, e) /\ lab[e] = l /\ lab[w] = m
  BY DEF Leads
<1>3. PICK r \in e .. Size - 1 : /\ ring[r].op = "restore" /\ Row(ring, e, r)
                                 /\ lab[0] = lab[r] /\ lab[r].stage \in Between
  BY <1>1, <1>2 DEF MarkedFilled
<1>4. r = e
  <2> SUFFICES ASSUME r # e PROVE FALSE
    OBVIOUS
  <2>1. e < r /\ r \in Nat
    BY <1>1, <1>3
  <2>2. ring[e].op \in DOMAIN Words
    <3> HIDE DEF ring
    <3> QED BY <1>1, <1>3, <2>1, RowGoesOn
  <2> QED BY <2>2, WordCounts
<1>5. Marked(dev, lab, ring, 0, w)
  BY <1>1, <1>2 DEF MarkedFilled
<1>6. MarkedFilled(dev, lab, q, 0)
  BY <1>1, <1>5 DEF MarkedFilled
<1> QED BY <1>2, <1>3, <1>4, <1>6 DEF Leads

(* A queue at its end is where it leads to, and one that is empty leads to *)
(* where it is.                                                            *)
LEMMA LeadsEnd ==
  ASSUME NEW dev, NEW q, NEW e, NEW l, NEW m, Leads(dev, q, e, l, m), e = q.write
  PROVE  l = m
BY DEF Leads

LEMMA LeadsStart ==
  ASSUME NEW dev, NEW q, q.write = 0, NEW l \in Labels
  PROVE  Leads(dev, q, 0, l, l)
<1> DEFINE lab == [i \in 0 .. Size |-> l]
<1>1. lab \in [0 .. Size -> Labels] /\ lab[0] = l
  BY SizeAssumption
<1>2. MarkedFilled(dev, lab, q, 0)
  BY DEF MarkedFilled, Marked
<1> HIDE DEF lab
<1> QED BY <1>1, <1>2 DEF Leads

(* What a group makes of a label: the commands lead from the one before it *)
(* to the one behind it.                                                   *)
Makes(dev, group, m, k) ==
  \E g \in [1 .. Len(group) + 1 -> Labels] :
    /\ g[1] = m /\ g[Len(group) + 1] = k
    /\ \A i \in 1 .. Len(group) :
         group[i].op # "rest" => Goes(dev, group[i], g[i], g[i + Words[group[i].op]])

LEMMA MarkedGroup ==
  ASSUME NEW dev, NEW group, IsGroup(group), NEW g,
         \A i \in 1 .. Len(group) :
           group[i].op # "rest" => Goes(dev, group[i], g[i], g[i + Words[group[i].op]]),
         NEW w \in Nat, NEW r, NEW lab,
         \A i \in w .. w + Len(group) - 1 : r[i] = group[i - w + 1],
         \A i \in w .. w + Len(group) : lab[i] = g[i - w + 1]
  PROVE  Marked(dev, lab, r, w, w + Len(group))
<1> DEFINE n == Len(group)
<1>1. n \in Nat
  BY DEF IsGroup
<1> SUFFICES ASSUME NEW i \in w .. w + n - 1, Starts(r, i)
             PROVE  Goes(dev, r[i], lab[i], lab[i + Words[r[i].op]])
  BY DEF Marked
<1> DEFINE j == i - w + 1
           k == Words[group[j].op]
<1>2. j \in 1 .. n /\ r[i] = group[j] /\ group[j].op # "rest"
  BY <1>1 DEF Starts
<1>3. group[j].op \in DOMAIN Words /\ j + k <= n + 1
  BY <1>2 DEF IsGroup
<1>4. k \in 1 .. 5
  BY <1>3, WordCounts
<1>5. Goes(dev, group[j], g[j], g[j + k])
  BY <1>2
<1>6. i + k \in w .. w + n /\ (i + k) - w + 1 = j + k /\ i \in w .. w + n
  <2>1. j = i - w + 1 /\ i \in Int /\ i >= w /\ i <= w + n - 1
    BY <1>1
  <2> HIDE DEF j, k, n
  <2> QED BY <1>1, <1>3, <1>4, <2>1, SMTT(30)
<1>7. lab[i] = g[j] /\ lab[i + k] = g[j + k]
  <2>1. lab[i + k] = g[(i + k) - w + 1]
    <3> HIDE DEF k
    <3> QED BY <1>6
  <2>2. lab[i] = g[j]
    BY <1>6
  <2> HIDE DEF j, k
  <2> QED BY <1>6, <2>1, <2>2
<1> QED BY <1>2, <1>5, <1>7

(* A group that is put in leads on from where the queue led to.            *)
LEMMA LeadsPut ==
  ASSUME NEW dev, NEW q \in Queues, ~q.full, NEW e \in 0 .. Size - 1, Filled(q, e),
         NEW l, NEW m, Leads(dev, q, e, l, m), m.stage \in Between,
         NEW group, IsGroup(group), NEW k, Makes(dev, group, m, k), ~Put(q, group).full
  PROVE  Leads(dev, Put(q, group), e, l, k)
<1> DEFINE w    == q.write
           n    == Len(group)
           from == q.ring
           p    == Put(q, group)
           back == [from EXCEPT ![w] = Restore]
<1>1. /\ w \in 0 .. Size - 1 /\ Size \in Nat /\ e \in Nat /\ w \in Nat /\ from \in Rings
      /\ back \in Rings /\ n \in Nat /\ n # 0
  BY OwnCells, SizeAssumption DEF IsGroup, Queues, Rings
<1>2. PICK lab \in [0 .. Size -> Labels] :
        MarkedFilled(dev, lab, q, e) /\ lab[e] = l /\ lab[w] = m
  BY DEF Leads
<1>3. PICK g \in [1 .. n + 1 -> Labels] :
        /\ g[1] = m /\ g[n + 1] = k
        /\ \A i \in 1 .. n :
             group[i].op # "rest" => Goes(dev, group[i], g[i], g[i + Words[group[i].op]])
  BY DEF Makes
(* In place. *)
<1>4. CASE /\ w + n < Size /\ n <= q.free
           /\ p.ring = Laid(from, w, group) /\ p.write = w + n
  <2> DEFINE to == Laid(from, w, group)
             new == [i \in 0 .. Size |-> IF i \in w .. w + n THEN g[i - w + 1] ELSE lab[i]]
  <2>1. new \in [0 .. Size -> Labels]
    <3>1. \A i \in w .. w + n : i - w + 1 \in 1 .. n + 1
      BY <1>1
    <3> HIDE DEF n, w
    <3> QED BY <1>2, <1>3, <3>1
  <2>2. \A i \in w .. w + n : new[i] = g[i - w + 1]
    BY <1>1, <1>4
  <2>3. \A i \in 0 .. Size : i <= w \/ i > w + n => new[i] = lab[i]
    <3> SUFFICES ASSUME NEW i \in 0 .. Size, i <= w \/ i > w + n PROVE new[i] = lab[i]
      OBVIOUS
    <3>1. CASE i = w
      <4>1. new[w] = g[w - w + 1] /\ w - w + 1 = 1
        BY <1>1, <2>2
      <4> HIDE DEF new
      <4> QED BY <1>2, <1>3, <3>1, <4>1
    <3>2. CASE i # w
      BY <1>1, <3>2
    <3> QED BY <3>1, <3>2
  <2>4. new[w + n] = k
    <3>1. w + n \in w .. w + n /\ (w + n) - w + 1 = n + 1
      <4> HIDE DEF n, w
      <4> QED BY <1>1
    <3>2. new[w + n] = g[(w + n) - w + 1]
      <4> HIDE DEF new, n, w
      <4> QED BY <2>2, <3>1
    <3> HIDE DEF new, n, w
    <3> USE <3>2
    <3> QED BY <1>3, <3>1
  <2>5. /\ \A i \in 0 .. Size - 1 : i < w \/ i >= w + n => to[i] = from[i]
        /\ \A i \in w .. w + n - 1 : to[i] = group[i - w + 1]
    BY <1>1, <1>4, LaidGroup, SMTT(30) DEF Laid
  <2> HIDE DEF new, to
  <2>6. Marked(dev, new, to, w, w + n)
    <3> HIDE DEF w
    <3> QED BY <1>1, <1>3, <2>2, <2>5, MarkedGroup
  <2>7. CASE e <= w
    <3>1. Row(from, e, w) /\ Marked(dev, lab, from, e, w)
      BY <1>1, <1>2, <2>7 DEF Filled, MarkedFilled
    <3>2. \A i \in e .. w : new[i] = lab[i]
      BY <1>1, <2>3
    <3>3. \A i \in e .. w - 1 : to[i] = from[i]
      BY <1>1, <2>5
    <3>4. Marked(dev, new, from, e, w)
      <4> HIDE DEF w, from
      <4> QED BY <1>1, <3>1, <3>2, MarksSame
    <3>5. Marked(dev, new, to, e, w)
      <4> HIDE DEF w, from
      <4> QED BY <1>1, <3>3, <3>4, MarkedSame
    <3>6. Marked(dev, new, to, e, w + n)
      <4> HIDE DEF w, from, n
      <4> QED BY <1>1, <2>6, <3>5, MarkedJoin
    <3>7. e <= w + n /\ e \in 0 .. Size /\ new[e] = l
      BY <1>1, <1>2, <1>4, <2>3, <2>7
    <3> QED BY <1>4, <2>1, <2>4, <3>6, <3>7 DEF Leads, MarkedFilled, to
  <2>8. CASE w < e
    <3>1. q.free = e - 1 - w
      BY <1>1, <2>8 DEF Filled
    <3>2. w + n < e
      BY <1>1, <1>4, <3>1
    <3>3. Row(from, 0, w) /\ Marked(dev, lab, from, 0, w)
      BY <1>1, <1>2, <2>8 DEF Filled, MarkedFilled
    <3>4. PICK r \in e .. Size - 1 : /\ from[r].op = "restore" /\ Row(from, e, r)
                                     /\ Marked(dev, lab, from, e, r)
                                     /\ lab[0] = lab[r] /\ lab[r].stage \in Between
      BY <1>1, <1>2, <2>8 DEF MarkedFilled
    <3>5. /\ \A i \in 0 .. w : new[i] = lab[i]
          /\ \A i \in e .. r : new[i] = lab[i]
          /\ \A i \in 0 .. w - 1 : to[i] = from[i]
          /\ \A i \in e .. r - 1 : to[i] = from[i]
          /\ to[r] = from[r] /\ r \in Nat
      <4>1. r \in Nat /\ e <= r /\ r < Size
        BY <1>1, <3>4
      <4>2. \A i \in 0 .. w : i \in 0 .. Size /\ i <= w
        BY <1>1
      <4>3. \A i \in e .. r : i \in 0 .. Size /\ i \in 0 .. Size - 1 /\ i > w + n /\ i >= w + n
        <5> HIDE DEF w, n
        <5> QED BY <1>1, <3>2, <4>1
      <4>4. \A i \in 0 .. w - 1 : i \in 0 .. Size - 1 /\ i < w
        BY <1>1
      <4>5. r \in e .. r /\ \A i \in e .. r - 1 : i \in e .. r
        BY <1>1, <4>1
      <4> HIDE DEF w, n, from
      <4> QED BY <2>3, <2>5, <4>1, <4>2, <4>3, <4>4, <4>5
    <3>6. Marked(dev, new, to, 0, w)
      <4>1. Marked(dev, new, from, 0, w)
        <5> HIDE DEF w, from
        <5> QED BY <1>1, <3>3, <3>5, MarksSame
      <4> HIDE DEF w, from
      <4> QED BY <1>1, <3>5, <4>1, MarkedSame
    <3>7. Marked(dev, new, to, 0, w + n)
      <4> HIDE DEF w, from, n
      <4> QED BY <1>1, <2>6, <3>6, MarkedJoin
    <3>8. Marked(dev, new, to, e, r)
      <4>1. Marked(dev, new, from, e, r)
        <5> HIDE DEF w, from
        <5> QED BY <1>1, <3>4, <3>5, MarksSame
      <4> HIDE DEF w, from
      <4> QED BY <1>1, <3>5, <4>1, MarkedSame
    <3>9. Row(to, e, r)
      <4> HIDE DEF w, from
      <4> QED BY <1>1, <3>4, <3>5, RowSame
    <3>10. new[0] = new[r] /\ new[r].stage \in Between /\ new[e] = l
      BY <1>1, <1>2, <3>4, <3>5
    <3>11. ~(e <= w + n)
      BY <1>1, <3>2
    <3>12. MarkedFilled(dev, new, p, e)
      BY <1>4, <3>4, <3>5, <3>7, <3>8, <3>9, <3>10, <3>11 DEF MarkedFilled, to
    <3> QED BY <1>4, <2>1, <2>4, <3>10, <3>12 DEF Leads
  <2> QED BY <1>1, <2>7, <2>8
(* At the start of the ring. *)
<1>5. CASE /\ w + n >= Size /\ n + (Size - w) <= q.free
           /\ p.ring = Laid(back, 0, group) /\ p.write = n
  <2> DEFINE to == Laid(back, 0, group)
             new == [i \in 0 .. Size |-> IF i \in 0 .. n THEN g[i + 1] ELSE lab[i]]
  <2>1. e <= w
    BY <1>1, <1>5 DEF Filled
  <2>2. n < e
    <3>1. q.free = Size - 1 - (w - e)
      BY <1>1, <2>1 DEF Filled
    <3> HIDE DEF n
    <3> QED BY <1>1, <1>5, <2>1, <3>1
  <2>3. new \in [0 .. Size -> Labels]
    <3> HIDE DEF n, w
    <3> QED BY <1>1, <1>2, <1>3
  <2>4. /\ \A i \in 0 .. n : new[i] = g[i + 1]
        /\ \A i \in e .. w : new[i] = lab[i]
    <3> HIDE DEF n
    <3> QED BY <1>1, <2>2
  <2>5. /\ \A i \in e .. w - 1 : to[i] = from[i]
        /\ \A i \in 0 .. n - 1 : to[i] = group[i + 1]
        /\ to[w] = Restore
    <3>1. /\ \A i \in 0 .. Size - 1 : i >= n => to[i] = back[i]
          /\ \A i \in 0 .. n - 1 : to[i] = group[i - 0 + 1]
      <4> HIDE DEF back, n
      <4> USE DEF n
      <4> QED BY <1>1, <2>1, <2>2 DEF Laid
    <3>2. back[w] = Restore /\ \A i \in 0 .. Size - 1 : i # w => back[i] = from[i]
      BY <1>1 DEF Rings
    <3>3. \A i \in 0 .. n - 1 : i - 0 + 1 = i + 1
      OBVIOUS
    <3> HIDE DEF to, back, n
    <3> QED BY <1>1, <2>1, <2>2, <3>1, <3>2, <3>3
  <2> HIDE DEF new, to
  <2>6. Marked(dev, new, to, 0, n)
    <3>1. /\ \A i \in 0 .. 0 + n - 1 : to[i] = group[i - 0 + 1]
          /\ \A i \in 0 .. 0 + n : new[i] = g[i - 0 + 1]
      <4> HIDE DEF n
      <4> QED BY <1>1, <2>4, <2>5
    <3>2. Marked(dev, new, to, 0, 0 + n)
      BY <1>3, <3>1, MarkedGroup
    <3> QED BY <1>1, <3>2
  <2>7. Row(from, e, w) /\ Marked(dev, lab, from, e, w)
    BY <1>1, <1>2, <2>1 DEF Filled, MarkedFilled
  <2>8. Marked(dev, new, to, e, w)
    <3>1. Marked(dev, new, from, e, w)
      <4> HIDE DEF w, from
      <4> QED BY <1>1, <2>4, <2>7, MarksSame
    <3> HIDE DEF w, from
    <3> QED BY <1>1, <2>5, <3>1, MarkedSame
  <2>9. Row(to, e, w)
    <3> HIDE DEF w, from
    <3> QED BY <1>1, <2>5, <2>7, RowSame
  <2>10. /\ new[0] = m /\ new[w] = m /\ new[e] = l /\ new[n] = k
         /\ w \in e .. Size - 1 /\ ~(e <= n)
    <3>1. new[0] = g[1] /\ new[n] = g[n + 1] /\ new[w] = lab[w] /\ new[e] = lab[e]
      <4>1. 0 \in 0 .. n /\ n \in 0 .. n /\ w \in e .. w /\ e \in e .. w /\ 0 + 1 = 1
        <5> HIDE DEF w, n
        <5> QED BY <1>1, <2>1
      <4> HIDE DEF w, n
      <4> QED BY <2>4, <4>1
    <3>2. w \in e .. Size - 1 /\ ~(e <= n)
      <4> HIDE DEF n
      <4> QED BY <1>1, <2>1, <2>2
    <3> QED BY <1>2, <1>3, <3>1, <3>2
  <2>11. MarkedFilled(dev, new, p, e)
    BY <1>5, <2>5, <2>6, <2>8, <2>9, <2>10, OwnCells DEF MarkedFilled, to
  <2> QED BY <1>5, <2>3, <2>10, <2>11 DEF Leads
<1> QED
  <2>1. \/ p = [q EXCEPT !.full = TRUE]
        \/ p = [q EXCEPT !.ring = back, !.write = 0, !.full = TRUE]
        \/ /\ w + n < Size /\ n <= q.free
           /\ p = [q EXCEPT !.ring = Laid(from, w, group), !.write = w + n, !.free = q.free - n]
        \/ /\ w + n >= Size /\ n + (Size - w) <= q.free
           /\ p = [q EXCEPT !.ring = Laid(back, 0, group), !.write = n,
                            !.free = q.free - n - (Size - w)]
    BY PutIs
  <2>2. ~p.full
    OBVIOUS
  <2> HIDE DEF p
  <2>3. p # [q EXCEPT !.full = TRUE] /\ p # [q EXCEPT !.ring = back, !.write = 0, !.full = TRUE]
    BY <2>2 DEF Queues
  <2>4. CASE /\ w + n < Size /\ n <= q.free
             /\ p = [q EXCEPT !.ring = Laid(from, w, group), !.write = w + n, !.free = q.free - n]
    <3>1. p.ring = Laid(from, w, group) /\ p.write = w + n
      BY <2>4 DEF Queues
    <3> QED BY <1>4, <2>4, <3>1 DEF p
  <2>5. CASE /\ w + n >= Size /\ n + (Size - w) <= q.free
             /\ p = [q EXCEPT !.ring = Laid(back, 0, group), !.write = n,
                              !.free = q.free - n - (Size - w)]
    <3>1. p.ring = Laid(back, 0, group) /\ p.write = n
      BY <2>5 DEF Queues
    <3> QED BY <1>5, <2>5, <3>1 DEF p
  <2> QED BY <2>1, <2>3, <2>4, <2>5

(* A batch of one group: put in as a whole, or refused.                    *)
LEMMA LeadsPutAll ==
  ASSUME NEW dev, NEW q \in Queues, ~q.full, NEW e \in 0 .. Size - 1, Filled(q, e),
         NEW l, NEW m, Leads(dev, q, e, l, m), m.stage \in Between,
         NEW group, IsBatch(<<group>>), NEW k, Makes(dev, group, m, k)
  PROVE  Leads(dev, PutAll(q, <<group>>), e, l, IF Accepted(q, <<group>>) THEN k ELSE m)
<1> DEFINE batch == <<group>>
           q1 == AllPut(q, batch)
           p  == PutAll(q, batch)
           r1 == [q1.ring EXCEPT ![q.write] = ToNormal]
           r2 == [q1.ring EXCEPT ![q1.write] = ToNormal]
<1>1. IsGroup(group)
  BY DEF IsBatch
<1>2. q1 = Put(q, group)
  <2> DEFINE put == [j \in 0 .. 1 |-> IF j = 0 THEN q ELSE Put(q, group)]
             Is(f) == f = [j \in 0 .. Len(batch) |-> IF j = 0 THEN q ELSE Put(f[j - 1], batch[j])]
  <2>1. Len(batch) = 1 /\ batch[1] = group
    OBVIOUS
  <2>2. Is(put)
    <3>1. \A j \in 0 .. 1 : put[j] = IF j = 0 THEN q ELSE Put(put[j - 1], batch[j])
      <4> SUFFICES ASSUME NEW j \in 0 .. 1
                   PROVE  put[j] = IF j = 0 THEN q ELSE Put(put[j - 1], batch[j])
        OBVIOUS
      <4>1. j = 0 \/ j = 1
        OBVIOUS
      <4> QED BY <2>1, <4>1
    <3> QED BY <2>1, <3>1
  <2>3. \A f : Is(f) => f[1] = Put(q, group)
    <3> SUFFICES ASSUME NEW f, Is(f) PROVE f[1] = Put(q, group)
      OBVIOUS
    <3>1. 0 \in 0 .. Len(batch) /\ 1 \in 0 .. Len(batch)
      BY <2>1
    <3>2. f[0] = q /\ f[1] = Put(f[0], batch[1])
      <4>1. \A j \in 0 .. Len(batch) : f[j] = IF j = 0 THEN q ELSE Put(f[j - 1], batch[j])
        OBVIOUS
      <4> HIDE DEF batch, Is
      <4> QED BY <3>1, <4>1
    <3> QED BY <2>1, <3>2
  <2>4. q1 = (CHOOSE f : Is(f))[Len(batch)]
    BY DEF AllPut
  <2>5. Is(CHOOSE f : Is(f))
    BY <2>2
  <2> HIDE DEF q1, Is
  <2> QED BY <2>1, <2>3, <2>4, <2>5
<1>3. Follows(q, e, q1)
  BY AllPutFollows
<1>4. p = IF q1.full THEN [q EXCEPT !.ring = r1] ELSE [q1 EXCEPT !.ring = r2]
  BY DEF PutAll
<1>5. Accepted(q, batch) <=> ~q1.full
  BY DEF Accepted
<1> HIDE DEF q1, p
<1>6. q1 \in Queues /\ \A i \in 0 .. Size - 1 : InUse(q, e, i) => q1.ring[i] = q.ring[i]
  BY <1>3 DEF Follows
<1>7. /\ q.write \in 0 .. Size - 1 /\ q1.write \in 0 .. Size - 1 /\ q1.ring \in Rings
      /\ ToNormal \in Cells
  BY <1>6, OwnCells DEF Queues
<1>8. CASE q1.full
  <2>1. \A i \in 0 .. Size - 1 : i # q.write => r1[i] = q1.ring[i]
    BY <1>7 DEF Rings
  <2>2. ~InUse(q, e, q.write)
    BY <1>7 DEF InUse
  <2> HIDE DEF r1
  <2>3. p.ring = r1 /\ p.write = q.write
    BY <1>4, <1>8 DEF Queues
  <2>4. \A i \in 0 .. Size - 1 : InUse(q, e, i) => p.ring[i] = q.ring[i]
    BY <1>6, <2>1, <2>2, <2>3
  <2>5. Leads(dev, p, e, l, m)
    BY <2>3, <2>4, LeadsSame
  <2> QED BY <1>5, <1>8, <2>5 DEF p
<1>9. CASE ~q1.full
  <2>1. \A i \in 0 .. Size - 1 : i # q1.write => r2[i] = q1.ring[i]
    BY <1>7 DEF Rings
  <2>2. ~InUse(q1, e, q1.write)
    BY <1>7 DEF InUse
  <2> HIDE DEF r2
  <2>3. p.ring = r2 /\ p.write = q1.write
    BY <1>4, <1>6, <1>9 DEF Queues
  <2>4. \A i \in 0 .. Size - 1 : InUse(q1, e, i) => p.ring[i] = q1.ring[i]
    BY <2>1, <2>2, <2>3
  <2>5. Leads(dev, q1, e, l, k)
    BY <1>1, <1>2, <1>9, LeadsPut
  <2>6. Leads(dev, p, e, l, k)
    BY <1>6, <2>3, <2>4, <2>5, LeadsSame
  <2> QED BY <1>5, <1>9, <2>6 DEF p
<1> QED BY <1>8, <1>9

(* What the batches of the clients make of a label.                        *)
LEMMA CommandWords ==
  /\ Words["WaitBufEmpty"] = 1 /\ Words["AckSendData"] = 2 /\ Words["RecieveCheck"] = 2
  /\ Words["WriteCmdReg"] = 2 /\ Words["SendData"] = 2 /\ Words["ResetCommand"] = 1
BY DEF Words

LEMMA CellParts == ASSUME NEW op, NEW arg PROVE Cell(op, arg).op = op /\ Cell(op, arg).arg = arg
BY DEF Cell

LEMMA LabelParts ==
  ASSUME NEW s \in Stages, NEW v \in {"none", "on", "off"}
  PROVE  Label(s, v) \in Labels /\ Label(s, v).stage = s /\ Label(s, v).lamps = v
BY DEF Label, Labels

LEMMA ResetMakes ==
  ASSUME NEW m \in Labels, m.stage = "new"
  PROVE  Makes("keyboard", Reset[1], m, Label("done", "none"))
<1> DEFINE group == Reset[1]
           g == [i \in 1 .. 6 |-> IF i <= 2 THEN m ELSE IF i <= 4 THEN Label("check", "none")
                                  ELSE Label("done", "none")]
<1>1. /\ Len(group) = 5 /\ group[1] = Cell("WaitBufEmpty", "none") /\ group[2] = Cell("AckSendData", "FF")
      /\ group[3].op = "rest" /\ group[4] = Cell("RecieveCheck", "AA") /\ group[5].op = "rest"
  BY OwnCells DEF Reset
<1>2. g \in [1 .. 6 -> Labels]
  BY LabelParts DEF Stages
<1>3. /\ g[1] = m /\ g[2] = m /\ g[3] = Label("check", "none") /\ g[4] = Label("check", "none")
      /\ g[5] = Label("done", "none") /\ g[6] = Label("done", "none")
  OBVIOUS
<1>4. Label("check", "none").stage = "check" /\ Label("check", "none").lamps = "none"
  BY LabelParts DEF Stages
<1> HIDE DEF group, g
<1>5. ASSUME NEW i \in 1 .. 5, group[i].op # "rest"
      PROVE  Goes("keyboard", group[i], g[i], g[i + Words[group[i].op]])
  <2>1. CASE i = 1
    <3>1. i + Words[group[i].op] = 2
      BY <1>1, <2>1, CommandWords, CellParts
    <3> QED BY <1>1, <1>3, <2>1, <3>1 DEF Goes, KeyGoes
  <2>2. CASE i = 2
    <3>1. i + Words[group[i].op] = 4
      BY <1>1, <2>2, CommandWords, CellParts
    <3> QED BY <1>1, <1>3, <2>2, <3>1 DEF Goes, KeyGoes
  <2>3. CASE i = 4
    <3>1. i + Words[group[i].op] = 6
      BY <1>1, <2>3, CommandWords, CellParts
    <3> QED BY <1>1, <1>3, <1>4, <2>3, <3>1 DEF Goes, KeyGoes
  <2> QED BY <1>1, <1>5, <2>1, <2>2, <2>3
<1>6. Len(group) + 1 = 6 /\ 1 .. Len(group) = 1 .. 5
  BY <1>1
<1>7. Makes("keyboard", group, m, Label("done", "none"))
  BY <1>2, <1>3, <1>5, <1>6 DEF Makes
<1> QED BY <1>7 DEF group

LEMMA LedMakes ==
  ASSUME NEW m \in Labels, m.stage \in {"new", "done"}, NEW v \in {"on", "off"}
  PROVE  Makes("keyboard", Led(v)[1], m, Label("done", v))
<1> DEFINE group == Led(v)[1]
           led == Label("led", m.lamps)
           g == [i \in 1 .. 6 |-> IF i <= 2 THEN m ELSE IF i <= 4 THEN led ELSE Label("done", v)]
<1>1. /\ Len(group) = 5 /\ group[1] = Cell("WaitBufEmpty", "none") /\ group[2] = Cell("AckSendData", "ED")
      /\ group[3].op = "rest" /\ group[4] = Cell("AckSendData", v) /\ group[5].op = "rest"
  BY OwnCells DEF Led
<1>2. led \in Labels /\ led.stage = "led" /\ Label("done", v) \in Labels
  <2>1. m.lamps \in {"none", "on", "off"}
    BY DEF Labels
  <2> QED BY <2>1, LabelParts DEF Stages
<1>3. g \in [1 .. 6 -> Labels]
  <2> HIDE DEF led
  <2> QED BY <1>2
<1>4. /\ g[1] = m /\ g[2] = m /\ g[3] = led /\ g[4] = led
      /\ g[5] = Label("done", v) /\ g[6] = Label("done", v)
  OBVIOUS
<1>5. led = Label("led", m.lamps)
  OBVIOUS
<1> HIDE DEF group, g, led
<1>6. ASSUME NEW i \in 1 .. 5, group[i].op # "rest"
      PROVE  Goes("keyboard", group[i], g[i], g[i + Words[group[i].op]])
  <2>1. CASE i = 1
    <3>1. i + Words[group[i].op] = 2
      BY <1>1, <2>1, CommandWords, CellParts
    <3> QED BY <1>1, <1>4, <2>1, <3>1 DEF Goes, KeyGoes
  <2>2. CASE i = 2
    <3>1. i + Words[group[i].op] = 4
      BY <1>1, <2>2, CommandWords, CellParts
    <3> QED BY <1>1, <1>4, <1>5, <2>2, <3>1 DEF Goes, KeyGoes
  <2>3. CASE i = 4
    <3>1. i + Words[group[i].op] = 6
      BY <1>1, <2>3, CommandWords, CellParts
    <3> QED BY <1>1, <1>2, <1>4, <2>3, <3>1 DEF Goes, KeyGoes
  <2> QED BY <1>1, <1>6, <2>1, <2>2, <2>3
<1>7. Len(group) + 1 = 6 /\ 1 .. Len(group) = 1 .. 5
  BY <1>1
<1>8. Makes("keyboard", group, m, Label("done", v))
  BY <1>3, <1>4, <1>6, <1>7 DEF Makes
<1> QED BY <1>8 DEF group

LEMMA A20Makes ==
  ASSUME NEW m \in Labels, m.stage \in {"new", "done"}
  PROVE  Makes("keyboard", A20[1], m, Label("done", m.lamps))
<1> DEFINE group == A20[1]
           last == Label("done", m.lamps)
           g == [i \in 1 .. 7 |-> IF i <= 2 THEN m ELSE last]
<1>1. /\ Len(group) = 6 /\ group[1] = Cell("WaitBufEmpty", "none") /\ group[2] = Cell("WriteCmdReg", "D1")
      /\ group[3].op = "rest" /\ group[4] = Cell("WaitBufEmpty", "none")
      /\ group[5] = Cell("SendData", "DF") /\ group[6].op = "rest"
  BY OwnCells DEF A20
<1>2. last \in Labels /\ last.stage = "done" /\ last.lamps = m.lamps
  <2>1. m.lamps \in {"none", "on", "off"}
    BY DEF Labels
  <2> QED BY <2>1, LabelParts DEF Stages
<1>3. g \in [1 .. 7 -> Labels]
  <2> HIDE DEF last
  <2> QED BY <1>2
<1>4. g[1] = m /\ g[2] = m /\ g[4] = last /\ g[5] = last /\ g[7] = last
  OBVIOUS
<1>5. last = Label("done", m.lamps) /\ last = Label("done", last.lamps)
  BY <1>2
<1> HIDE DEF group, g, last
<1>6. ASSUME NEW i \in 1 .. 6, group[i].op # "rest"
      PROVE  Goes("keyboard", group[i], g[i], g[i + Words[group[i].op]])
  <2>1. CASE i = 1
    <3>1. i + Words[group[i].op] = 2
      BY <1>1, <2>1, CommandWords, CellParts
    <3> QED BY <1>1, <1>4, <2>1, <3>1 DEF Goes, KeyGoes
  <2>2. CASE i = 2
    <3>1. i + Words[group[i].op] = 4
      BY <1>1, <2>2, CommandWords, CellParts
    <3> QED BY <1>1, <1>4, <1>5, <2>2, <3>1 DEF Goes, KeyGoes
  <2>3. CASE i = 4
    <3>1. i + Words[group[i].op] = 5
      BY <1>1, <2>3, CommandWords, CellParts
    <3> QED BY <1>1, <1>2, <1>4, <2>3, <3>1 DEF Goes, KeyGoes
  <2>4. CASE i = 5
    <3>1. i + Words[group[i].op] = 7
      BY <1>1, <2>4, CommandWords, CellParts
    <3> QED BY <1>1, <1>2, <1>4, <1>5, <2>4, <3>1 DEF Goes, KeyGoes
  <2> QED BY <1>1, <1>6, <2>1, <2>2, <2>3, <2>4
<1>7. Len(group) + 1 = 7 /\ 1 .. Len(group) = 1 .. 6
  BY <1>1
<1>8. Makes("keyboard", group, m, last)
  BY <1>3, <1>4, <1>6, <1>7 DEF Makes
<1> QED BY <1>8 DEF group, last

LEMMA MouseResetMakes ==
  ASSUME NEW m \in Labels, m.stage = "new"
  PROVE  Makes("mouse", MouseReset[1], m, Label("done", m.lamps))
<1> DEFINE group == MouseReset[1]
           last == Label("done", m.lamps)
           g == [i \in 1 .. 3 |-> IF i <= 2 THEN m ELSE last]
<1>1. /\ Len(group) = 2 /\ group[1] = Cell("WaitBufEmpty", "none")
      /\ group[2] = Cell("ResetCommand", "FF")
  BY DEF MouseReset
<1>2. last \in Labels
  <2>1. m.lamps \in {"none", "on", "off"}
    BY DEF Labels
  <2> QED BY <2>1, LabelParts DEF Stages
<1>3. g \in [1 .. 3 -> Labels]
  <2> HIDE DEF last
  <2> QED BY <1>2
<1>4. g[1] = m /\ g[2] = m /\ g[3] = last
  OBVIOUS
<1> HIDE DEF group, g
<1>6. ASSUME NEW i \in 1 .. 2
      PROVE  Goes("mouse", group[i], g[i], g[i + Words[group[i].op]])
  <2>1. CASE i = 1
    <3>1. i + Words[group[i].op] = 2
      BY <1>1, <2>1, CommandWords, CellParts
    <3> QED BY <1>1, <1>4, <2>1, <3>1 DEF Goes, MouseGoes, Between
  <2>2. CASE i = 2
    <3>1. i + Words[group[i].op] = 3
      BY <1>1, <2>2, CommandWords, CellParts
    <3> QED BY <1>1, <1>4, <2>2, <3>1 DEF Goes, MouseGoes
  <2> QED BY <2>1, <2>2
<1>7. Len(group) + 1 = 3 /\ 1 .. Len(group) = 1 .. 2
  BY <1>1
<1>8. Makes("mouse", group, m, last)
  <2> HIDE DEF last
  <2> QED BY <1>3, <1>4, <1>6, <1>7 DEF Makes
<1> QED BY <1>8 DEF group

LEMMA MouseEnableMakes ==
  ASSUME NEW m \in Labels, m.stage \in Between
  PROVE  Makes("mouse", MouseEnable[1], m, Label("done", m.lamps))
<1> DEFINE group == MouseEnable[1]
           last == Label("done", m.lamps)
           g == [i \in 1 .. 4 |-> IF i <= 2 THEN m ELSE last]
<1>1. /\ Len(group) = 3 /\ group[1] = Cell("WaitBufEmpty", "none")
      /\ group[2] = Cell("AckSendData", "F4") /\ group[3].op = "rest"
  BY OwnCells DEF MouseEnable
<1>2. last \in Labels
  <2>1. m.lamps \in {"none", "on", "off"}
    BY DEF Labels
  <2> QED BY <2>1, LabelParts DEF Stages
<1>3. g \in [1 .. 4 -> Labels]
  <2> HIDE DEF last
  <2> QED BY <1>2
<1>4. g[1] = m /\ g[2] = m /\ g[4] = last
  OBVIOUS
<1> HIDE DEF group, g
<1>6. ASSUME NEW i \in 1 .. 3, group[i].op # "rest"
      PROVE  Goes("mouse", group[i], g[i], g[i + Words[group[i].op]])
  <2>1. CASE i = 1
    <3>1. i + Words[group[i].op] = 2
      BY <1>1, <2>1, CommandWords, CellParts
    <3> QED BY <1>1, <1>4, <2>1, <3>1 DEF Goes, MouseGoes
  <2>2. CASE i = 2
    <3>1. i + Words[group[i].op] = 4
      BY <1>1, <2>2, CommandWords, CellParts
    <3> QED BY <1>1, <1>4, <2>2, <3>1 DEF Goes, MouseGoes
  <2> QED BY <1>1, <1>6, <2>1, <2>2
<1>7. Len(group) + 1 = 4 /\ 1 .. Len(group) = 1 .. 3
  BY <1>1
<1>8. Makes("mouse", group, m, last)
  <2> HIDE DEF last
  <2> QED BY <1>3, <1>4, <1>6, <1>7 DEF Makes
<1> QED BY <1>8 DEF group

(* What the LEDs should show behind the batches of the keyboard.           *)
LEMMA FlatGroup == ASSUME NEW group PROVE FlattenSeq(<<group>>) = group
<1>1. Len(<<group>>) = 1
  OBVIOUS
<1> QED BY <1>1 DEF FlattenSeq

LEMMA ClientLamps ==
  /\ Lamps(Reset) = "none" /\ Lamps(A20) = wanted
  /\ \A v \in {"on", "off"} : Lamps(Led(v)) = v
<1>1. Lamps(Reset) = "none"
  <2> DEFINE group == Reset[1]
             sent == {cell.arg : cell \in Range(group)}
  <2>1. Reset = <<group>> /\ Len(group) = 5 /\ DOMAIN group = 1 .. 5
    BY DEF Reset
  <2>2. /\ group[1].arg = "none" /\ group[2].arg = "FF" /\ group[3].arg = "none"
        /\ group[4].arg = "AA" /\ group[5].arg = "none"
    BY DEF Reset, Cell, Rest
  <2> HIDE DEF group
  <2>3. "ED" \notin sent /\ "FF" \in sent
    <3>1. \A x \in sent : \E i \in 1 .. 5 : x = group[i].arg
      BY <2>1 DEF Range
    <3>2. "FF" \in sent
      BY <2>1, <2>2 DEF Range
    <3> HIDE DEF sent
    <3>3. \A i \in 1 .. 5 : group[i].arg # "ED"
      BY <2>2
    <3> QED BY <3>1, <3>2, <3>3
  <2>4. FlattenSeq(Reset) = group
    BY <2>1, FlatGroup
  <2> QED BY <2>3, <2>4 DEF Lamps
<1>2. Lamps(A20) = wanted
  <2> DEFINE group == A20[1]
             sent == {cell.arg : cell \in Range(group)}
  <2>1. A20 = <<group>> /\ Len(group) = 6 /\ DOMAIN group = 1 .. 6
    BY DEF A20
  <2>2. /\ group[1].arg = "none" /\ group[2].arg = "D1" /\ group[3].arg = "none"
        /\ group[4].arg = "none" /\ group[5].arg = "DF" /\ group[6].arg = "none"
    BY DEF A20, Cell, Rest
  <2> HIDE DEF group
  <2>3. "ED" \notin sent /\ "FF" \notin sent
    <3>1. \A x \in sent : \E i \in 1 .. 6 : x = group[i].arg
      BY <2>1 DEF Range
    <3> HIDE DEF sent
    <3>3. \A i \in 1 .. 6 : group[i].arg # "ED" /\ group[i].arg # "FF"
      BY <2>2
    <3> QED BY <3>1, <3>3
  <2>4. FlattenSeq(A20) = group
    BY <2>1, FlatGroup
  <2> QED BY <2>3, <2>4 DEF Lamps
<1>3. ASSUME NEW v \in {"on", "off"} PROVE Lamps(Led(v)) = v
  <2> DEFINE group == Led(v)[1]
             sent == {cell.arg : cell \in Range(group)}
  <2>1. Led(v) = <<group>> /\ Len(group) = 5 /\ DOMAIN group = 1 .. 5
    BY DEF Led
  <2>2. /\ group[1].arg = "none" /\ group[2].arg = "ED" /\ group[3].arg = "none"
        /\ group[4].arg = v /\ group[5].arg = "none"
    BY DEF Led, Cell, Rest
  <2> HIDE DEF group
  <2>3. "ED" \in sent /\ v \in sent /\ \A x \in sent : x \in {"on", "off"} => x = v
    <3>1. \A x \in sent : \E i \in 1 .. 5 : x = group[i].arg
      BY <2>1 DEF Range
    <3>2. "ED" \in sent /\ v \in sent
      BY <2>1, <2>2 DEF Range
    <3> HIDE DEF sent
    <3>3. \A i \in 1 .. 5 : group[i].arg \in {"on", "off"} => group[i].arg = v
      BY <2>2
    <3> QED BY <3>1, <3>2, <3>3
  <2>4. FlattenSeq(Led(v)) = group
    BY <2>1, FlatGroup
  <2>5. (CHOOSE x \in sent : x \in {"on", "off"}) = v
    <3> HIDE DEF sent
    <3> QED BY <2>3
  <2>6. Lamps(Led(v)) = CHOOSE x \in sent : x \in {"on", "off"}
    BY <2>3, <2>4 DEF Lamps
  <2> QED BY <2>5, <2>6
<1> QED BY <1>1, <1>2, <1>3

-----------------------------------------------------------------------------
(* What device, driver and user say to each other, while nothing was taken *)
(* for what it is not.                                                     *)
WireBytes == {"key", "p1", "p2", "p3", "AA", "00", "ACK", "NACK"}
Lights    == {"none", "on", "off"}

KeysOnly(w)    == \A i \in 1 .. Len(w) : w[i] = "key"
EndsWith(w, b) == Len(w) > 0 /\ w[Len(w)] = b /\ \A i \in 1 .. Len(w) - 1 : w[i] = "key"
EndsReset(w)   == /\ Len(w) > 1 /\ w[Len(w) - 1] = "ACK" /\ w[Len(w)] = "AA"
                  /\ \A i \in 1 .. Len(w) - 2 : w[i] = "key"

Quiet(l)   == lamps = l.lamps /\ (option <=> l.stage = "led")
Unanswered == out \notin Answered

(* The keyboard: it has nothing to answer, or has a byte of a command, or  *)
(* has asked for it again, or has answered it.                             *)
KeyAsked(l) ==
  \/ Quiet(l) /\ out = Command.arg /\ KeysOnly(wire)
  \/ Quiet(l) /\ out = "none" /\ EndsWith(wire, "NACK")
  \/ /\ out = "none"
     /\ \E x \in Labels : /\ Goes("keyboard", Command, l, x) /\ Quiet(x)
                          /\ IF Command.arg = "FF" THEN EndsReset(wire) ELSE EndsWith(wire, "ACK")
KeyTalks(l) ==
  /\ strays > 0 => l.stage \notin {"new", "check"}
  /\ strays = 0 /\ running = "yes" =>
       Quiet(l) /\ Unanswered /\ (IF l.stage = "check" THEN wire = <<"AA">> ELSE KeysOnly(wire))
  /\ strays = 0 /\ running = "no" =>
       IF Command.op = "RecieveCheck" THEN Quiet(l) /\ Unanswered /\ wire = <<"AA">> ELSE KeyAsked(l)
KeyRests == strays = 0 => KeysOnly(wire) /\ Unanswered /\ lamps = wanted /\ ~option

(* The mouse: reports are whole from byte j + 1 on, of which k bytes came  *)
(* before; or there is one that was plugged in. What comes before an       *)
(* answer does not matter.                                                 *)
Reports(w, j, k) ==
  /\ \A i \in j + 1 .. Len(w) : w[i] = Report[((k + i - j - 1) % 3) + 1]
  /\ (k + Len(w) - j) % 3 = 0
Plug == wire = <<"AA", "00">> /\ ~enabled
NoAnswers(w, i, j) == \A k \in i .. j : w[k] \notin {"ACK", "NACK"}

MouseAsked ==
  IF Command.op = "ResetCommand"
  THEN ~enabled /\ \/ out = "FF" /\ wire = <<>>
                   \/ out = "none" /\ wire \in {<<"ACK", "AA", "00">>, <<"AA", "00">>, <<"00">>, <<"NACK">>}
  ELSE \/ out = "F4" /\ NoAnswers(wire, 1, Len(wire))
       \/ /\ out = "none"
          /\ \E j \in 1 .. Len(wire) :
               /\ NoAnswers(wire, 1, j - 1)
               /\ \/ wire[j] = "ACK" /\ Reports(wire, j, 0)
                  \/ wire[j] = "NACK" /\ NoAnswers(wire, j + 1, Len(wire))
MouseTalks(l) ==
  /\ running = "yes" =>
       /\ out = "none"
       /\ l.stage = "done"  => Reports(wire, 0, 0) \/ Plug
       /\ l.stage = "dirty" => NoAnswers(wire, 1, Len(wire))
       /\ l.stage = "new"   => wire = <<>> /\ ~enabled
  /\ running = "no" => MouseAsked
MouseRests ==
  /\ out = "none"
  /\ mode = "plugged" => wire = <<"00">> /\ ~enabled /\ phase = 0
  /\ mode = "normal"  => Reports(wire, 0, phase) \/ (Plug /\ phase = 0)

Talks(l) == IF device = "keyboard" THEN KeyTalks(l) ELSE MouseTalks(l)
Rests    == IF device = "keyboard" THEN KeyRests ELSE MouseRests

Goal(m) == m.stage = "done" /\ (device = "keyboard" => m.lamps = wanted)
Leading ==
  mode = "queue" => \E l, m \in Labels : Leads(device, queue, exec, l, m) /\ Goal(m) /\ Talks(l)
Resting == mode # "queue" => Rests

(* Ranges; a queue waits for what its command does; before the first batch *)
(* nothing was sent.                                                       *)
Basics ==
  /\ device \in {"keyboard", "mouse"}
  /\ wire \in Seq(WireBytes)
  /\ lamps \in Lights /\ wanted \in Lights /\ option \in BOOLEAN /\ enabled \in BOOLEAN
  /\ count \in Nat /\ strays \in Nat
  /\ device = "mouse" => strays = 0
  /\ device = "keyboard" => phase = 0 /\ mode # "plugged"
WaitsRight ==
  mode = "queue" /\ running = "no" => /\ Command.op = "AckSendData"  => waiting = "ack"
                                      /\ Command.op = "RecieveCheck" => waiting = "check"
                                      /\ Command.op = "ResetCommand" => waiting = "reset"
Untouched ==
  count = 0 => /\ mode = "normal" /\ running = "no" /\ out = "none"
               /\ lamps = "none" /\ wanted = "none" /\ ~enabled /\ ~option /\ strays = 0
               /\ device = "mouse" => wire = <<>> /\ phase = 0

CInv == QInv /\ Basics /\ WaitsRight /\ Untouched /\ NoBreakpoint /\ Leading /\ Resting

(* A byte less on the wire, or some more.                                  *)
LEMMA TailBytes ==
  ASSUME NEW S, NEW w \in Seq(S), w # <<>>
  PROVE  /\ Len(w) \in Nat /\ Len(w) > 0 /\ Head(w) = w[1] /\ Head(w) \in S
         /\ Tail(w) \in Seq(S) /\ Len(Tail(w)) = Len(w) - 1
         /\ \A i \in 1 .. Len(w) - 1 : Tail(w)[i] = w[i + 1]
<1>1. Len(w) \in Nat /\ Len(w) > 0 /\ Head(w) = w[1] /\ w[1] \in S
  OBVIOUS
<1>2. Tail(w) \in Seq(S) /\ Len(Tail(w)) = Len(w) - 1 /\ \A i \in 1 .. Len(Tail(w)) : Tail(w)[i] = w[i + 1]
  BY HeadTailProperties
<1> QED BY <1>1, <1>2

LEMMA MoreBytes ==
  ASSUME NEW S, NEW w \in Seq(S), NEW v \in Seq(S)
  PROVE  /\ w \o v \in Seq(S) /\ Len(w \o v) = Len(w) + Len(v)
         /\ \A i \in 1 .. Len(w) : (w \o v)[i] = w[i]
         /\ \A i \in 1 .. Len(v) : (w \o v)[Len(w) + i] = v[i]
<1>1. w \o v \in Seq(S) /\ Len(w \o v) = Len(w) + Len(v)
  BY ConcatProperties
<1>2. \A i \in 1 .. Len(w) + Len(v) : (w \o v)[i] = IF i <= Len(w) THEN w[i] ELSE v[i - Len(w)]
  BY ConcatProperties
<1>3. Len(w) \in Nat /\ Len(v) \in Nat
  OBVIOUS
<1>4. \A i \in 1 .. Len(w) : (w \o v)[i] = w[i]
  <2> SUFFICES ASSUME NEW i \in 1 .. Len(w) PROVE (w \o v)[i] = w[i]
    OBVIOUS
  <2>1. i \in 1 .. Len(w) + Len(v) /\ i <= Len(w)
    BY <1>3
  <2> QED BY <1>2, <2>1
<1>5. \A i \in 1 .. Len(v) : (w \o v)[Len(w) + i] = v[i]
  <2> SUFFICES ASSUME NEW i \in 1 .. Len(v) PROVE (w \o v)[Len(w) + i] = v[i]
    OBVIOUS
  <2>1. Len(w) + i \in 1 .. Len(w) + Len(v) /\ ~(Len(w) + i <= Len(w)) /\ (Len(w) + i) - Len(w) = i
    BY <1>3
  <2> QED BY <1>2, <2>1
<1> QED BY <1>1, <1>4, <1>5

LEMMA OneByte ==
  ASSUME NEW S, NEW w \in Seq(S), NEW b \in S
  PROVE  /\ Append(w, b) \in Seq(S) /\ Len(Append(w, b)) = Len(w) + 1
         /\ \A i \in 1 .. Len(w) : Append(w, b)[i] = w[i]
         /\ Append(w, b)[Len(w) + 1] = b
BY AppendProperties

(* Everything stays in its range. *)
LEMMA AcceptedLamps ==
  ASSUME Basics, NEW batch \in Batches
  PROVE  Lamps(batch) \in Lights
<1>1. CASE device = "keyboard"
  <2>1. batch \in OfKeyboard
    BY <1>1, ClientAssumption DEF Batches
  <2> QED BY <2>1, ClientLamps DEF OfKeyboard, Lights, Basics
<1>2. CASE device = "mouse"
  <2>1. batch \in OfMouse
    BY <1>2, ClientAssumption DEF Batches
  <2> DEFINE group == batch[1]
             sent == {cell.arg : cell \in Range(group)}
  <2>2. FlattenSeq(batch) = group
    BY <2>1, FlatGroup DEF OfMouse, MouseReset, MouseEnable
  <2>3. "ED" \notin sent
    <3>1. CASE batch = MouseReset
      <4>1. DOMAIN group = 1 .. 2 /\ group[1].arg = "none" /\ group[2].arg = "FF"
        BY <3>1 DEF MouseReset, Cell
      <4> HIDE DEF group
      <4>2. \A x \in sent : \E i \in 1 .. 2 : x = group[i].arg
        BY <4>1 DEF Range
      <4> HIDE DEF sent
      <4>3. \A i \in 1 .. 2 : group[i].arg # "ED"
        BY <4>1
      <4> QED BY <4>2, <4>3
    <3>2. CASE batch = MouseEnable
      <4>1. DOMAIN group = 1 .. 3 /\ group[1].arg = "none" /\ group[2].arg = "F4" /\ group[3].arg = "none"
        BY <3>2 DEF MouseEnable, Cell, Rest
      <4> HIDE DEF group
      <4>2. \A x \in sent : \E i \in 1 .. 3 : x = group[i].arg
        BY <4>1 DEF Range
      <4> HIDE DEF sent
      <4>3. \A i \in 1 .. 3 : group[i].arg # "ED"
        BY <4>1
      <4> QED BY <4>2, <4>3
    <3> QED BY <2>1, <3>1, <3>2 DEF OfMouse
  <2> HIDE DEF group, sent
  <2>4. Lamps(batch) \in {"none", wanted}
    <3> USE DEF sent
    <3> QED BY <2>2, <2>3 DEF Lamps
  <2> QED BY <2>4 DEF Basics, Lights
<1> QED BY <1>1, <1>2 DEF Basics

(* What the device does: it takes a byte, or is used. *)
LEMMA TakeIs ==
  ASSUME Take
  PROVE  /\ out # "none" /\ out' = "none"
         /\ UNCHANGED <<device, queue, exec, mode, waiting, running, phase, asked, wanted, count, strays, keys>>
         /\ \/ out \notin Answered /\ UNCHANGED <<wire, lamps, enabled, option>>
            \/ /\ out \in {"ED", "FF", "F4"} \/ (option /\ out \in {"on", "off"})
               /\ option' = (out = "ED")
               /\ lamps' = (IF option /\ out \in {"on", "off"} THEN out
                            ELSE IF out = "FF" THEN "none" ELSE lamps)
               /\ enabled' = (out = "F4" \/ (out # "FF" /\ enabled))
               /\ wire' = wire \o (IF out # "FF" THEN <<"ACK">>
                                   ELSE IF device = "keyboard" THEN <<"ACK", "AA">> ELSE <<"ACK", "AA", "00">>)
            \/ out \in Answered /\ wire' = Append(wire, "NACK") /\ UNCHANGED <<lamps, enabled, option>>
BY DEF Take, Answered, deviceVars, queueVars

LEMMA UseIs ==
  ASSUME Use
  PROVE  /\ UNCHANGED <<device, queue, exec, mode, waiting, running, phase, out, lamps, option,
                        asked, wanted, count, strays>>
         /\ \/ /\ device = "keyboard" /\ ~option /\ Range(wire) \cap Answers = {}
               /\ wire' = Append(wire, "key") /\ UNCHANGED enabled
            \/ device = "mouse" /\ enabled /\ wire' = wire \o Report /\ UNCHANGED enabled
            \/ /\ device = "mouse" /\ enabled /\ wire = <<>> /\ phase = 0
               /\ wire' = <<"AA", "00">> /\ enabled' = FALSE
BY DEF Use, queueVars

LEMMA BasicsKeep ==
  ASSUME QInv, Basics, ClientNext
  PROVE  Basics'
<1>1. CASE \E batch \in Batches : Submit(batch)
  <2>1. PICK batch \in Batches : Submit(batch)
    BY <1>1
  <2>2. Lamps(batch) \in Lights
    BY AcceptedLamps
  <2>3. /\ wanted' \in {wanted, Lamps(batch)} /\ count' = count + 1
        /\ UNCHANGED <<device, phase, wire, lamps, enabled, option, strays>>
        /\ mode' \in {mode, "queue"}
    BY <2>1 DEF Submit, deviceVars
  <2> QED BY <2>2, <2>3 DEF Basics
<1>2. CASE ToNormalMode \/ RestoreStart \/ WaitBufEmpty \/ NoAnswer \/ SendAndWait \/ WaitForByte
  BY <1>2 DEF Basics, ToNormalMode, RestoreStart, WaitBufEmpty, NoAnswer, SendAndWait, WaitForByte,
              deviceVars, histories
<1>3. ASSUME NEW byte, Comes(byte), UNCHANGED <<device, deviceVars, count, wanted>>,
             strays' = strays \/ (strays' = strays + 1 /\ device # "mouse"),
             device = "keyboard" => UNCHANGED <<phase, mode>>
      PROVE  Basics'
  <2>1. wire' \in Seq(WireBytes)
    BY <1>3, TailBytes DEF Basics, Comes
  <2> QED BY <1>3, <2>1 DEF Basics, deviceVars
<1>4. CASE GetAnswer
  BY <1>3, <1>4 DEF GetAnswer, histories
<1>5. CASE GetNack
  BY <1>3, <1>5 DEF GetNack, histories
<1>6. ASSUME NEW byte, GetOther(byte) PROVE Basics'
  <2>1. Comes(byte) /\ UNCHANGED <<device, deviceVars, count, wanted, phase, mode>>
    BY <1>6 DEF GetOther
  <2>2. strays' = strays \/ (strays' = strays + 1 /\ device # "mouse")
    <3>1. CASE waiting = "check"
      BY <1>6, <3>1 DEF GetOther
    <3>2. CASE waiting # "check" /\ device = "mouse"
      BY <1>6, <3>2 DEF GetOther
    <3>3. CASE waiting # "check" /\ device # "mouse"
      BY <1>6, <3>3 DEF GetOther
    <3> QED BY <3>1, <3>2, <3>3
  <2> QED BY <1>3, <2>1, <2>2
<1>7. ASSUME NEW byte, Key(byte) \/ MouseByte(byte) PROVE Basics'
  <2>1. CASE Key(byte)
    BY <1>3, <2>1 DEF Key, queueVars, histories
  <2>2. CASE MouseByte(byte)
    BY <1>3, <2>2 DEF MouseByte, histories
  <2> QED BY <1>7, <2>1, <2>2
<1>8. CASE Take
  <2>1. wire \in Seq(WireBytes) /\ <<"ACK">> \in Seq(WireBytes) /\ <<"ACK", "AA">> \in Seq(WireBytes)
        /\ <<"ACK", "AA", "00">> \in Seq(WireBytes) /\ "NACK" \in WireBytes
    BY DEF Basics, WireBytes
  <2>2. wire' \in Seq(WireBytes)
    <3>1. CASE wire' = wire
      BY <2>1, <3>1
    <3>2. \A v \in Seq(WireBytes) : wire' = wire \o v => wire' \in Seq(WireBytes)
      BY <2>1, MoreBytes
    <3>3. wire' = Append(wire, "NACK") => wire' \in Seq(WireBytes)
      BY <2>1, OneByte
    <3>4. \/ wire' = wire \/ wire' = Append(wire, "NACK")
          \/ wire' = wire \o <<"ACK">> \/ wire' = wire \o <<"ACK", "AA">>
          \/ wire' = wire \o <<"ACK", "AA", "00">>
      BY <1>8, TakeIs
    <3> QED BY <2>1, <3>1, <3>2, <3>3, <3>4
  <2>3. lamps' \in Lights /\ option' \in BOOLEAN /\ enabled' \in BOOLEAN
    <3>1. lamps \in Lights /\ option \in BOOLEAN /\ enabled \in BOOLEAN
      BY DEF Basics
    <3> QED BY <1>8, <3>1, TakeIs DEF Lights
  <2> QED BY <1>8, <2>2, <2>3, TakeIs DEF Basics
<1>9. CASE Use
  <2>1. wire \in Seq(WireBytes) /\ Report \in Seq(WireBytes) /\ <<"AA", "00">> \in Seq(WireBytes)
        /\ "key" \in WireBytes
    BY DEF Basics, WireBytes, Report
  <2>2. wire' \in Seq(WireBytes)
    <3>1. wire' = wire \o Report => wire' \in Seq(WireBytes)
      BY <2>1, MoreBytes
    <3>2. wire' = Append(wire, "key") => wire' \in Seq(WireBytes)
      BY <2>1, OneByte
    <3>3. \/ wire' = wire \o Report \/ wire' = Append(wire, "key") \/ wire' = <<"AA", "00">>
      BY <1>9, UseIs
    <3> QED BY <2>1, <3>1, <3>2, <3>3
  <2> QED BY <1>9, <2>2, UseIs DEF Basics
<1> QED BY <1>1, <1>2, <1>4, <1>5, <1>6, <1>7, <1>8, <1>9 DEF ClientNext

(* What is at the head of the wire, and what is left behind it. *)
LEMMA ShortWires ==
  /\ <<>> \in Seq(WireBytes) /\ Len(<<>>) = 0
  /\ \A b : Len(<<b>>) = 1 /\ <<b>>[1] = b /\ Head(<<b>>) = b /\ Tail(<<b>>) = <<>> /\ <<b>> # <<>>
  /\ \A a, b : Len(<<a, b>>) = 2 /\ <<a, b>>[1] = a /\ <<a, b>>[2] = b
  /\ \A a, b : Head(<<a, b>>) = a /\ Tail(<<a, b>>) = <<b>> /\ <<a, b>> # <<>>
  /\ \A a, b, c : Head(<<a, b, c>>) = a /\ Tail(<<a, b, c>>) = <<b, c>> /\ <<a, b, c>> # <<>>
OBVIOUS

LEMMA KeysOnlyWire ==
  /\ KeysOnly(<<>>)
  /\ \A w \in Seq(WireBytes) : w # <<>> /\ KeysOnly(w) => Head(w) = "key" /\ KeysOnly(Tail(w))
  /\ \A w \in Seq(WireBytes) : KeysOnly(w) => KeysOnly(Append(w, "key"))
<1>1. KeysOnly(<<>>)
  BY DEF KeysOnly
<1>2. ASSUME NEW w \in Seq(WireBytes), w # <<>>, KeysOnly(w)
      PROVE  Head(w) = "key" /\ KeysOnly(Tail(w))
  <2>1. /\ Len(w) \in Nat /\ Len(w) > 0 /\ Head(w) = w[1] /\ Len(Tail(w)) = Len(w) - 1
        /\ \A i \in 1 .. Len(w) - 1 : Tail(w)[i] = w[i + 1]
    BY <1>2, TailBytes
  <2>2. \A i \in 1 .. Len(w) : w[i] = "key"
    BY <1>2 DEF KeysOnly
  <2>3. \A i \in 1 .. Len(w) - 1 : i + 1 \in 1 .. Len(w)
    BY <2>1
  <2>4. Head(w) = "key"
    BY <2>1, <2>2
  <2> QED BY <2>1, <2>2, <2>3, <2>4 DEF KeysOnly
<1>3. ASSUME NEW w \in Seq(WireBytes), KeysOnly(w)
      PROVE  KeysOnly(Append(w, "key"))
  <2>1. "key" \in WireBytes /\ Len(w) \in Nat
    BY DEF WireBytes
  <2>2. /\ Len(Append(w, "key")) = Len(w) + 1
        /\ \A i \in 1 .. Len(w) : Append(w, "key")[i] = w[i]
        /\ Append(w, "key")[Len(w) + 1] = "key"
    BY <2>1, OneByte
  <2>3. \A i \in 1 .. Len(w) : w[i] = "key"
    BY <1>3 DEF KeysOnly
  <2>4. \A i \in 1 .. Len(w) + 1 : i \in 1 .. Len(w) \/ i = Len(w) + 1
    BY <2>1
  <2> HIDE DEF KeysOnly
  <2>5. \A i \in 1 .. Len(w) + 1 : Append(w, "key")[i] = "key"
    BY <2>2, <2>3, <2>4
  <2> QED BY <2>2, <2>5 DEF KeysOnly
<1> QED BY <1>1, <1>2, <1>3

(* Keys and, behind them, an answer. *)
LEMMA EndsWithWire ==
  ASSUME NEW b \in Answers, b \in WireBytes, NEW w \in Seq(WireBytes)
  PROVE  /\ KeysOnly(w) => EndsWith(Append(w, b), b) /\ EndsWith(w \o <<b>>, b)
         /\ EndsWith(w, b) => /\ w # <<>> /\ Head(w) \in {"key", b} /\ b \in Range(w)
                              /\ Head(w) = b => KeysOnly(Tail(w))
<1>1. ASSUME KeysOnly(w)
      PROVE  EndsWith(Append(w, b), b) /\ EndsWith(w \o <<b>>, b)
  <2>1. w \o <<b>> = Append(w, b)
    OBVIOUS
  <2>2. /\ Len(Append(w, b)) = Len(w) + 1 /\ Append(w, b)[Len(w) + 1] = b
        /\ \A i \in 1 .. Len(w) : Append(w, b)[i] = w[i]
    BY OneByte
  <2>3. Len(w) \in Nat /\ \A i \in 1 .. Len(w) : w[i] = "key"
    BY <1>1 DEF KeysOnly
  <2>4. Len(w) + 1 > 0 /\ (Len(w) + 1) - 1 = Len(w)
    BY <2>3
  <2>5. \A i \in 1 .. Len(w) : Append(w, b)[i] = "key"
    BY <2>2, <2>3
  <2>6. EndsWith(Append(w, b), b)
    BY <2>2, <2>4, <2>5 DEF EndsWith
  <2> QED BY <2>1, <2>6
<1>2. ASSUME EndsWith(w, b)
      PROVE  /\ w # <<>> /\ Head(w) \in {"key", b} /\ b \in Range(w)
             /\ Head(w) = b => KeysOnly(Tail(w))
  <2>1. w # <<>> /\ Len(w) > 0 /\ w[Len(w)] = b /\ \A i \in 1 .. Len(w) - 1 : w[i] = "key"
    BY <1>2 DEF EndsWith
  <2>2. Len(w) \in Nat /\ Head(w) = w[1] /\ Len(Tail(w)) = Len(w) - 1
    BY <2>1, TailBytes
  <2>3. b # "key"
    BY DEF Answers
  <2>4. CASE Len(w) = 1
    <3>1. Len(Tail(w)) = 0 /\ w[1] = b
      BY <2>1, <2>2, <2>4
    <3>2. KeysOnly(Tail(w))
      BY <3>1 DEF KeysOnly
    <3>3. b \in Range(w)
      BY <2>4, <3>1 DEF Range
    <3> QED BY <2>1, <2>2, <3>1, <3>2, <3>3
  <2>5. CASE Len(w) # 1
    <3>1. 1 \in 1 .. Len(w) - 1 /\ Len(w) \in DOMAIN w
      BY <2>1, <2>2, <2>5
    <3>2. b \in Range(w)
      BY <2>1, <3>1 DEF Range
    <3> QED BY <2>1, <2>2, <2>3, <3>1, <3>2
  <2> QED BY <2>4, <2>5
<1> QED BY <1>1, <1>2

LEMMA EndsResetWire ==
  ASSUME NEW w \in Seq(WireBytes)
  PROVE  /\ KeysOnly(w) => EndsReset(w \o <<"ACK", "AA">>)
         /\ EndsReset(w) => /\ w # <<>> /\ Head(w) \in {"key", "ACK"} /\ "ACK" \in Range(w)
                            /\ Head(w) = "ACK" => Tail(w) = <<"AA">>
<1>1. ASSUME KeysOnly(w) PROVE EndsReset(w \o <<"ACK", "AA">>)
  <2> DEFINE v == w \o <<"ACK", "AA">>
             n == Len(w)
  <2>1. <<"ACK", "AA">> \in Seq(WireBytes) /\ Len(<<"ACK", "AA">>) = 2
        /\ <<"ACK", "AA">>[1] = "ACK" /\ <<"ACK", "AA">>[2] = "AA"
    BY DEF WireBytes
  <2>2. /\ Len(v) = n + 2 /\ \A i \in 1 .. n : v[i] = w[i]
        /\ \A i \in 1 .. 2 : v[n + i] = <<"ACK", "AA">>[i]
    BY <2>1, MoreBytes
  <2>3. v[n + 1] = "ACK" /\ v[n + 2] = "AA"
    BY <2>1, <2>2
  <2>4. n \in Nat /\ \A i \in 1 .. n : w[i] = "key"
    BY <1>1 DEF KeysOnly
  <2> HIDE DEF v, n
  <2>5. Len(v) > 1 /\ Len(v) - 1 = n + 1 /\ Len(v) - 2 = n
    BY <2>2, <2>4
  <2>6. \A i \in 1 .. n : v[i] = "key"
    BY <2>2, <2>4
  <2>7. EndsReset(v)
    BY <2>2, <2>3, <2>5, <2>6 DEF EndsReset
  <2> QED BY <2>7 DEF v
<1>2. ASSUME EndsReset(w)
      PROVE  /\ w # <<>> /\ Head(w) \in {"key", "ACK"} /\ "ACK" \in Range(w)
             /\ Head(w) = "ACK" => Tail(w) = <<"AA">>
  <2>1. /\ w # <<>> /\ Len(w) > 1 /\ w[Len(w) - 1] = "ACK" /\ w[Len(w)] = "AA"
        /\ \A i \in 1 .. Len(w) - 2 : w[i] = "key"
    BY <1>2 DEF EndsReset
  <2>2. /\ Len(w) \in Nat /\ Head(w) = w[1] /\ Tail(w) \in Seq(WireBytes) /\ Len(Tail(w)) = Len(w) - 1
        /\ \A i \in 1 .. Len(w) - 1 : Tail(w)[i] = w[i + 1]
    BY <2>1, TailBytes
  <2>3. Len(w) - 1 \in DOMAIN w
    BY <2>1, <2>2
  <2>4. "ACK" \in Range(w)
    BY <2>1, <2>3 DEF Range
  <2>5. CASE Len(w) = 2
    <3>1. w[1] = "ACK" /\ w[2] = "AA" /\ Len(Tail(w)) = 1 /\ Tail(w)[1] = w[2]
      BY <2>1, <2>2, <2>5
    <3> DEFINE t == Tail(w)
    <3>2. t \in Seq(WireBytes) /\ Len(t) = 1 /\ t[1] = "AA"
      BY <2>2, <3>1
    <3> HIDE DEF t
    <3>3. t = <<"AA">>
      BY <3>2
    <3> QED BY <2>1, <2>2, <2>4, <3>1, <3>3 DEF t
  <2>6. CASE Len(w) # 2
    <3>1. 1 \in 1 .. Len(w) - 2
      BY <2>1, <2>2, <2>6
    <3>2. w[1] = "key"
      BY <2>1, <3>1
    <3> QED BY <2>1, <2>2, <2>4, <3>2
  <2> QED BY <2>5, <2>6
<1> QED BY <1>1, <1>2

(* Reports and what is no answer. *)
LEMMA Mod3 ==
  /\ \A n \in Nat : n % 3 \in 0 .. 2 /\ (n + 3) % 3 = n % 3
  /\ \A n \in Nat : (n + 1) % 3 = ((n % 3) + 1) % 3
  /\ 0 % 3 = 0 /\ 1 % 3 = 1 /\ 2 % 3 = 2 /\ 3 % 3 = 0 /\ 4 % 3 = 1 /\ 5 % 3 = 2
OBVIOUS

LEMMA ReportParts ==
  /\ Report \in Seq(WireBytes) /\ Len(Report) = 3
  /\ Report[1] = "p1" /\ Report[2] = "p2" /\ Report[3] = "p3"
  /\ \A i \in 1 .. 3 : Report[i] \notin {"ACK", "NACK", "AA", "00"}
BY DEF Report, WireBytes

LEMMA ReportsEnd ==
  /\ Reports(<<>>, 0, 0)
  /\ \A w \in Seq(WireBytes) : Reports(w, Len(w), 0)
<1>1. ASSUME NEW w \in Seq(WireBytes) PROVE Reports(w, Len(w), 0)
  <2>1. Len(w) \in Nat
    OBVIOUS
  <2>2. (0 + Len(w) - Len(w)) % 3 = 0 /\ Len(w) + 1 .. Len(w) = {}
    BY <2>1
  <2> QED BY <2>2 DEF Reports
<1>2. <<>> \in Seq(WireBytes) /\ Len(<<>>) = 0
  OBVIOUS
<1> QED BY <1>1, <1>2

LEMMA ReportsHead ==
  ASSUME NEW w \in Seq(WireBytes), w # <<>>, NEW k \in 0 .. 2, Reports(w, 0, k)
  PROVE  Head(w) = Report[k + 1] /\ Reports(Tail(w), 0, (k + 1) % 3)
<1> DEFINE n == Len(w)
           m == (k + 1) % 3
<1>1. /\ n \in Nat /\ n > 0 /\ Head(w) = w[1] /\ Len(Tail(w)) = n - 1
      /\ \A i \in 1 .. n - 1 : Tail(w)[i] = w[i + 1]
  BY TailBytes
<1>2. /\ \A i \in 1 .. n : w[i] = Report[((k + i - 0 - 1) % 3) + 1]
      /\ (k + n - 0) % 3 = 0
  BY DEF Reports
<1>3. \A i \in Int : (m + i) % 3 = (k + 1 + i) % 3
  OBVIOUS
<1> HIDE DEF n, m
<1>4. Head(w) = Report[k + 1]
  <2>1. 1 \in 1 .. n /\ (k + 1 - 0 - 1) % 3 = k
    BY <1>1
  <2> QED BY <1>1, <1>2, <2>1
<1>5. \A i \in 1 .. n - 1 : Tail(w)[i] = Report[((m + i - 0 - 1) % 3) + 1]
  <2> SUFFICES ASSUME NEW i \in 1 .. n - 1
               PROVE  Tail(w)[i] = Report[((m + i - 0 - 1) % 3) + 1]
    OBVIOUS
  <2>1. i + 1 \in 1 .. n /\ i - 1 \in Int
    BY <1>1
  <2>2. m \in Int
    BY DEF m
  <2>3. (m + i - 0 - 1) = m + (i - 1) /\ k + (i + 1) - 0 - 1 = k + 1 + (i - 1)
    BY <2>2
  <2>4. (m + (i - 1)) % 3 = (k + 1 + (i - 1)) % 3
    BY <1>3, <2>1
  <2> QED BY <1>1, <1>2, <2>1, <2>3, <2>4
<1>6. (m + (n - 1) - 0) % 3 = 0
  <2>1. m \in Int
    BY DEF m
  <2>2. m + (n - 1) - 0 = m + (n - 1) /\ k + n - 0 = k + 1 + (n - 1) /\ n - 1 \in Int
    BY <1>1, <2>1
  <2>3. (m + (n - 1)) % 3 = (k + 1 + (n - 1)) % 3
    BY <1>3, <2>2
  <2> QED BY <1>2, <2>2, <2>3
<1> QED BY <1>1, <1>4, <1>5, <1>6 DEF Reports, m

LEMMA ReportsTail ==
  ASSUME NEW w \in Seq(WireBytes), w # <<>>, NEW j \in 1 .. Len(w), Reports(w, j, 0)
  PROVE  Reports(Tail(w), j - 1, 0)
<1> DEFINE n == Len(w)
<1>1. /\ n \in Nat /\ n > 0 /\ Len(Tail(w)) = n - 1
      /\ \A i \in 1 .. n - 1 : Tail(w)[i] = w[i + 1]
  BY TailBytes
<1>2. /\ \A i \in j + 1 .. n : w[i] = Report[((0 + i - j - 1) % 3) + 1]
      /\ (0 + n - j) % 3 = 0
  BY DEF Reports
<1>3. j \in Int /\ j >= 1
  OBVIOUS
<1> HIDE DEF n
<1>4. \A i \in (j - 1) + 1 .. n - 1 : Tail(w)[i] = Report[((0 + i - (j - 1) - 1) % 3) + 1]
  <2> SUFFICES ASSUME NEW i \in (j - 1) + 1 .. n - 1
               PROVE  Tail(w)[i] = Report[((0 + i - (j - 1) - 1) % 3) + 1]
    OBVIOUS
  <2>1. i + 1 \in j + 1 .. n /\ i \in 1 .. n - 1
    BY <1>1, <1>3
  <2>2. 0 + (i + 1) - j - 1 = 0 + i - (j - 1) - 1
    BY <1>1, <1>3
  <2>3. Tail(w)[i] = w[i + 1] /\ w[i + 1] = Report[((0 + (i + 1) - j - 1) % 3) + 1]
    BY <1>1, <1>2, <2>1
  <2> QED BY <2>2, <2>3
<1>5. 0 + (n - 1) - (j - 1) = 0 + n - j
  BY <1>1, <1>3
<1> QED BY <1>1, <1>2, <1>4, <1>5 DEF Reports

LEMMA ReportsMore ==
  ASSUME NEW w \in Seq(WireBytes), NEW j \in 0 .. Len(w), NEW k \in 0 .. 2, Reports(w, j, k)
  PROVE  Reports(w \o Report, j, k)
<1> DEFINE n == Len(w)
           v == w \o Report
<1>1. /\ n \in Nat /\ Len(v) = n + 3 /\ j \in Int /\ j <= n /\ j >= 0
      /\ \A i \in 1 .. n : v[i] = w[i]
      /\ \A i \in 1 .. 3 : v[n + i] = Report[i]
  <2>1. /\ Len(v) = n + Len(Report) /\ \A i \in 1 .. n : v[i] = w[i]
        /\ \A i \in 1 .. Len(Report) : v[n + i] = Report[i]
    <3>1. Report \in Seq(WireBytes)
      BY ReportParts
    <3> QED BY <3>1, MoreBytes
  <2>2. n \in Nat /\ j \in 0 .. n
    OBVIOUS
  <2> HIDE DEF v, n
  <2> QED BY <2>1, <2>2, ReportParts
<1>2. /\ \A i \in j + 1 .. n : w[i] = Report[((k + i - j - 1) % 3) + 1]
      /\ (k + n - j) % 3 = 0
  BY DEF Reports
<1> HIDE DEF n, v
<1>3. (k + (n + 3) - j) % 3 = 0
  BY <1>1, <1>2
<1>4. ASSUME NEW i \in 1 .. 3
      PROVE  v[n + i] = Report[((k + (n + i) - j - 1) % 3) + 1]
  <2>1. (k + (n + i) - j - 1) % 3 = i - 1
    <3> DEFINE d == k + n - j
    <3>1. d \in Int /\ d % 3 = 0 /\ k + (n + i) - j - 1 = d + (i - 1) /\ i - 1 \in 0 .. 2
      BY <1>1, <1>2
    <3> HIDE DEF d
    <3>2. \A x \in 0 .. 2 : (d + x) % 3 = x
      BY <3>1
    <3> QED BY <3>1, <3>2
  <2>2. (i - 1) + 1 = i
    OBVIOUS
  <2> QED BY <1>1, <2>1, <2>2
<1>5. ASSUME NEW i \in j + 1 .. n + 3
      PROVE  v[i] = Report[((k + i - j - 1) % 3) + 1]
  <2>1. CASE i <= n
    <3>1. i \in j + 1 .. n /\ i \in 1 .. n
      BY <1>1, <2>1
    <3> QED BY <1>1, <1>2, <3>1
  <2>2. CASE i > n
    <3>1. i - n \in 1 .. 3 /\ n + (i - n) = i
      BY <1>1, <2>2
    <3> QED BY <1>4, <3>1
  <2> QED BY <1>1, <2>1, <2>2
<1>6. Reports(v, j, k)
  BY <1>1, <1>3, <1>5 DEF Reports
<1> QED BY <1>6 DEF v

LEMMA ReportsNoAnswers ==
  ASSUME NEW w \in Seq(WireBytes), NEW k \in 0 .. 2, Reports(w, 0, k)
  PROVE  NoAnswers(w, 1, Len(w))
<1> SUFFICES ASSUME NEW i \in 1 .. Len(w) PROVE w[i] \notin {"ACK", "NACK"}
  BY DEF NoAnswers
<1>1. w[i] = Report[((k + i - 0 - 1) % 3) + 1]
  BY DEF Reports
<1>2. ((k + i - 0 - 1) % 3) + 1 \in 1 .. 3
  OBVIOUS
<1> QED BY <1>1, <1>2, ReportParts

LEMMA NoAnswersTail ==
  ASSUME NEW w \in Seq(WireBytes), w # <<>>, NEW a \in Nat, NEW b \in Int, b <= Len(w),
         NoAnswers(w, a, b), a > 0
  PROVE  /\ a = 1 /\ b > 0 => Head(w) \notin {"ACK", "NACK"} /\ NoAnswers(Tail(w), 1, b - 1)
         /\ a > 1 => NoAnswers(Tail(w), a - 1, b - 1)
<1>1. /\ Len(w) \in Nat /\ Len(w) > 0 /\ Head(w) = w[1]
      /\ \A i \in 1 .. Len(w) - 1 : Tail(w)[i] = w[i + 1]
  BY TailBytes
<1>2. \A i \in a .. b : w[i] \notin {"ACK", "NACK"}
  BY DEF NoAnswers
<1>3. ASSUME NEW i \in Nat, i > 0, i + 1 \in a .. b PROVE Tail(w)[i] \notin {"ACK", "NACK"}
  <2>1. i \in 1 .. Len(w) - 1
    BY <1>1, <1>3
  <2> QED BY <1>1, <1>2, <1>3, <2>1
<1>4. ASSUME a = 1, b > 0
      PROVE  Head(w) \notin {"ACK", "NACK"} /\ NoAnswers(Tail(w), 1, b - 1)
  <2>1. 1 \in a .. b
    BY <1>4
  <2>2. \A i \in 1 .. b - 1 : i \in Nat /\ i > 0 /\ i + 1 \in a .. b
    BY <1>4
  <2> QED BY <1>1, <1>2, <1>3, <2>1, <2>2 DEF NoAnswers
<1>5. ASSUME a > 1 PROVE NoAnswers(Tail(w), a - 1, b - 1)
  <2>1. \A i \in a - 1 .. b - 1 : i \in Nat /\ i > 0 /\ i + 1 \in a .. b
    BY <1>5
  <2> QED BY <1>3, <2>1 DEF NoAnswers
<1> QED BY <1>4, <1>5

(* What is added to a wire. *)
LEMMA NoAnswersMore ==
  ASSUME NEW w \in Seq(WireBytes), NEW v \in Seq(WireBytes), NEW a \in Nat, a > 0, NEW b \in Int
  PROVE  /\ NoAnswers(w, a, b) /\ b <= Len(w) => NoAnswers(w \o v, a, b)
         /\ NoAnswers(w, a, Len(w)) /\ NoAnswers(v, 1, Len(v)) => NoAnswers(w \o v, a, Len(w \o v))
<1> DEFINE u == w \o v
<1>1. /\ Len(u) = Len(w) + Len(v) /\ Len(w) \in Nat /\ Len(v) \in Nat
      /\ \A i \in 1 .. Len(w) : u[i] = w[i]
      /\ \A i \in 1 .. Len(v) : u[Len(w) + i] = v[i]
  BY MoreBytes
<1> HIDE DEF u
<1>2. ASSUME NoAnswers(w, a, b), b <= Len(w) PROVE NoAnswers(u, a, b)
  <2>1. \A i \in a .. b : i \in 1 .. Len(w)
    BY <1>1, <1>2
  <2> QED BY <1>1, <1>2, <2>1 DEF NoAnswers
<1>3. ASSUME NoAnswers(w, a, Len(w)), NoAnswers(v, 1, Len(v)) PROVE NoAnswers(u, a, Len(u))
  <2> SUFFICES ASSUME NEW i \in a .. Len(u) PROVE u[i] \notin {"ACK", "NACK"}
    BY DEF NoAnswers
  <2>1. CASE i <= Len(w)
    <3>1. i \in a .. Len(w) /\ i \in 1 .. Len(w)
      BY <1>1, <2>1
    <3> QED BY <1>1, <1>3, <3>1 DEF NoAnswers
  <2>2. CASE i > Len(w)
    <3>1. i - Len(w) \in 1 .. Len(v) /\ Len(w) + (i - Len(w)) = i
      BY <1>1, <2>2
    <3> QED BY <1>1, <1>3, <3>1 DEF NoAnswers
  <2> QED BY <1>1, <2>1, <2>2
<1> QED BY <1>2, <1>3 DEF u

LEMMA NoAnswersShort ==
  /\ NoAnswers(<<>>, 1, Len(<<>>)) /\ NoAnswers(Report, 1, Len(Report))
  /\ NoAnswers(<<"AA", "00">>, 1, Len(<<"AA", "00">>)) /\ NoAnswers(<<"00">>, 1, Len(<<"00">>))
<1>1. NoAnswers(<<>>, 1, Len(<<>>))
  BY DEF NoAnswers
<1>2. NoAnswers(Report, 1, Len(Report))
  BY ReportParts DEF NoAnswers
<1>3. NoAnswers(<<"AA", "00">>, 1, Len(<<"AA", "00">>))
  <2>1. \A i \in 1 .. 2 : i = 1 \/ i = 2
    OBVIOUS
  <2> QED BY <2>1 DEF NoAnswers
<1>4. NoAnswers(<<"00">>, 1, Len(<<"00">>))
  BY DEF NoAnswers
<1> QED BY <1>1, <1>2, <1>3, <1>4

(* What a command does to a label. *)
LEMMA KeyGoesIs ==
  ASSUME NEW c, NEW l \in Labels, NEW m, KeyGoes(c, l, m)
  PROVE  /\ c.op \in {"WaitBufEmpty", "AckSendData", "RecieveCheck", "WriteCmdReg", "SendData"}
         /\ m.stage \in Stages
         /\ c.op = "WaitBufEmpty" => l.stage \in {"new", "done"} /\ m = l
         /\ c.op \in {"WriteCmdReg", "SendData"} =>
              /\ c.arg \in {"D1", "DF"} /\ l.stage \in {"new", "done"}
              /\ m.stage = "done" /\ m.lamps = l.lamps
         /\ c.op = "RecieveCheck" =>
              c.arg = "AA" /\ l.stage = "check" /\ m.stage = "done" /\ m.lamps = l.lamps
         /\ c.op = "AckSendData" =>
              \/ c.arg = "FF" /\ l.stage = "new" /\ m.stage = "check" /\ m.lamps = "none"
              \/ /\ c.arg = "ED" /\ l.stage \in {"new", "done"}
                 /\ m.stage = "led" /\ m.lamps = l.lamps
              \/ /\ c.arg \in {"on", "off"} /\ l.stage = "led"
                 /\ m.stage = "done" /\ m.lamps = c.arg
<1> USE DEF Label
<1>1. CASE c = Cell("WaitBufEmpty", "none") /\ l.stage \in {"new", "done"} /\ m = l
  BY <1>1, CellParts DEF Labels
<1>2. CASE c = Cell("AckSendData", "FF") /\ l.stage = "new" /\ m = Label("check", "none")
  BY <1>2, CellParts DEF Stages
<1>3. CASE c = Cell("RecieveCheck", "AA") /\ l.stage = "check" /\ m = Label("done", l.lamps)
  BY <1>3, CellParts DEF Stages
<1>4. CASE c = Cell("AckSendData", "ED") /\ l.stage \in {"new", "done"} /\ m = Label("led", l.lamps)
  BY <1>4, CellParts DEF Stages
<1>5. CASE \E v \in {"on", "off"} :
             c = Cell("AckSendData", v) /\ l.stage = "led" /\ m = Label("done", v)
  BY <1>5, CellParts DEF Stages
<1>6. CASE /\ c \in {Cell("WriteCmdReg", "D1"), Cell("SendData", "DF")}
           /\ l.stage \in {"new", "done"} /\ m = Label("done", l.lamps)
  BY <1>6, CellParts DEF Stages
<1> QED BY <1>1, <1>2, <1>3, <1>4, <1>5, <1>6 DEF KeyGoes

LEMMA MouseGoesIs ==
  ASSUME NEW c, NEW l \in Labels, NEW m, MouseGoes(c, l, m)
  PROVE  /\ c.op \in {"WaitBufEmpty", "AckSendData", "ResetCommand"}
         /\ l.stage \in Between
         /\ c.op = "WaitBufEmpty" => m = l
         /\ c.op # "WaitBufEmpty" => m.stage = "done"
         /\ c.op = "AckSendData"  => c.arg = "F4"
         /\ c.op = "ResetCommand" => c.arg = "FF" /\ l.stage = "new"
<1> USE DEF Label, Between
<1>1. CASE c = Cell("WaitBufEmpty", "none") /\ l.stage \in Between /\ m = l
  BY <1>1, CellParts
<1>2. CASE c = Cell("ResetCommand", "FF") /\ l.stage = "new" /\ m = Label("done", l.lamps)
  BY <1>2, CellParts
<1>3. CASE c = Cell("AckSendData", "F4") /\ l.stage \in Between /\ m = Label("done", l.lamps)
  BY <1>3, CellParts
<1> QED BY <1>1, <1>2, <1>3 DEF MouseGoes

(* What a batch makes of a label.                                          *)
LEMMA BatchMakes ==
  ASSUME device \in {"keyboard", "mouse"}, NEW batch \in Batches,
         NEW l \in Labels, l.stage \in Between,
         device = "keyboard" => l.stage # "dirty" /\ l.lamps = wanted,
         batch \in {Reset, MouseReset} => l.stage = "new"
  PROVE  \E group : \E m \in Labels :
           /\ batch = <<group>> /\ Makes(device, group, l, m) /\ m.stage = "done"
           /\ device = "keyboard" => m.lamps = Lamps(batch)
<1>1. l.lamps \in {"none", "on", "off"}
  BY DEF Labels
<1>2. CASE device = "keyboard"
  <2>1. batch \in OfKeyboard
    BY <1>2, ClientAssumption DEF Batches
  <2>2. CASE batch = Reset
    <3>1. batch = <<Reset[1]>>
      BY <2>2 DEF Reset
    <3>2. Label("done", "none") \in Labels /\ Label("done", "none").stage = "done"
          /\ Label("done", "none").lamps = "none"
      BY LabelParts DEF Stages
    <3> QED BY <1>2, <2>2, <3>1, <3>2, ResetMakes, ClientLamps
  <2>3. ASSUME NEW v \in {"on", "off"}, batch = Led(v)
        PROVE  \E group : \E m \in Labels :
                 /\ batch = <<group>> /\ Makes(device, group, l, m) /\ m.stage = "done"
                 /\ device = "keyboard" => m.lamps = Lamps(batch)
    <3>1. batch = <<Led(v)[1]>>
      BY <2>3 DEF Led
    <3>2. Label("done", v) \in Labels /\ Label("done", v).stage = "done" /\ Label("done", v).lamps = v
      BY LabelParts DEF Stages
    <3>3. Makes("keyboard", Led(v)[1], l, Label("done", v))
      BY <1>2, LedMakes DEF Between
    <3> QED BY <1>2, <2>3, <3>1, <3>2, <3>3, ClientLamps
  <2>4. CASE batch = A20
    <3>1. batch = <<A20[1]>>
      BY <2>4 DEF A20
    <3>2. Label("done", l.lamps) \in Labels /\ Label("done", l.lamps).stage = "done"
          /\ Label("done", l.lamps).lamps = l.lamps
      BY <1>1, LabelParts DEF Stages
    <3>3. Makes("keyboard", A20[1], l, Label("done", l.lamps))
      BY <1>2, A20Makes DEF Between
    <3> QED BY <1>2, <2>4, <3>1, <3>2, <3>3, ClientLamps
  <2> QED BY <2>1, <2>2, <2>3, <2>4 DEF OfKeyboard
<1>3. CASE device = "mouse"
  <2>1. batch \in OfMouse
    BY <1>3, ClientAssumption DEF Batches
  <2>2. Label("done", l.lamps) \in Labels /\ Label("done", l.lamps).stage = "done"
    BY <1>1, LabelParts DEF Stages
  <2>3. CASE batch = MouseReset
    <3>1. batch = <<MouseReset[1]>>
      BY <2>3 DEF MouseReset
    <3> QED BY <1>3, <2>2, <2>3, <3>1, MouseResetMakes
  <2>4. CASE batch = MouseEnable
    <3>1. batch = <<MouseEnable[1]>>
      BY <2>4 DEF MouseEnable
    <3> QED BY <1>3, <2>2, <3>1, MouseEnableMakes
  <2> QED BY <2>1, <2>3, <2>4 DEF OfMouse
<1> QED BY <1>2, <1>3

(* Where a queue goes on.                                                  *)
LEMMA LeadsRing ==
  ASSUME NEW dev, NEW q, NEW p, p.ring = q.ring, p.write = q.write, NEW e, NEW l, NEW m
  PROVE  Leads(dev, p, e, l, m) <=> Leads(dev, q, e, l, m)
BY DEF Leads, MarkedFilled

LEMMA NextLeads ==
  ASSUME NEW q \in Queues, NEW e \in 0 .. Size - 1, Filled(q, e), q.ring[q.write] = ToNormal,
         q.ring[e].op \in DOMAIN Words, NEW l \in Labels, NEW m \in Labels,
         Leads(device, q, e, l, m)
  PROVE  LET n == Words[q.ring[e].op] IN
         \E x \in Labels : /\ Goes(device, q.ring[e], l, x)
                           /\ Leads(device, [q EXCEPT !.free = @ + n], e + n, x, m)
<1> DEFINE n == Words[q.ring[e].op]
           p == [q EXCEPT !.free = @ + n]
<1>1. p.ring = q.ring /\ p.write = q.write
  BY Advanced
<1> HIDE DEF p
<1>2. PICK x \in Labels : Goes(device, q.ring[e], l, x) /\ Leads(device, q, e + n, x, m)
  BY LeadsOn
<1>3. Leads(device, p, e + n, x, m)
  BY <1>1, <1>2, LeadsRing
<1> QED BY <1>2, <1>3 DEF p

(* A queue that is where it is written to has ended, and otherwise there   *)
(* is a command of a client, or the one that goes back to the start.       *)
LEMMA HereIs ==
  ASSUME NEW q \in Queues, NEW e \in 0 .. Size - 1, Filled(q, e), q.ring[q.write] = ToNormal
  PROVE  \/ e = q.write
         \/ q.ring[e].op \in DOMAIN Words
         \/ q.write < e /\ q.ring[e].op = "restore"
<1> DEFINE ring == q.ring
           w == q.write
<1>1. w \in Nat /\ e \in Nat
  BY SizeAssumption DEF Queues
<1>2. CASE e < w
  <2>1. Row(ring, e, w)
    BY <1>1, <1>2 DEF Filled
  <2> HIDE DEF ring, w
  <2>2. ring[e].op \in DOMAIN Words
    BY <1>1, <1>2, <2>1, RowGoesOn
  <2> QED BY <2>2 DEF ring
<1>3. CASE w < e
  <2>1. PICK r \in e .. Size - 1 : ring[r].op = "restore" /\ Row(ring, e, r)
    BY <1>1, <1>3 DEF Filled
  <2>2. CASE r = e
    BY <1>3, <2>1, <2>2
  <2>3. CASE r # e
    <3>1. r \in Nat /\ e < r
      BY <1>1, <2>1, <2>3
    <3> HIDE DEF ring, w
    <3>2. ring[e].op \in DOMAIN Words
      BY <1>1, <2>1, <3>1, RowGoesOn
    <3> QED BY <3>2 DEF ring
  <2> QED BY <2>2, <2>3
<1> QED BY <1>1, <1>2, <1>3

LEMMA EndIsThere ==
  ASSUME QInv, mode = "queue", Command.op = "tonormal"
  PROVE  exec = queue.write
<1>1. /\ queue \in Queues /\ exec \in 0 .. Size - 1 /\ Filled(queue, exec)
      /\ queue.ring[queue.write] = ToNormal
  BY DEF QInv, Shapes, QueueHolds
<1> QED BY <1>1, HereIs, WordCounts DEF Command

(* The byte behind a reset is waited for by the command behind it.         *)
LEMMA CheckBehind ==
  ASSUME NEW q \in Queues, NEW e \in 0 .. Size - 1, Filled(q, e), q.ring[q.write] = ToNormal,
         NEW l \in Labels, NEW m \in Labels, Leads("keyboard", q, e, l, m), l.stage = "check",
         m.stage = "done"
  PROVE  q.ring[e].op = "RecieveCheck"
<1>1. e # q.write
  BY LeadsEnd
<1>2. ~(q.write < e /\ q.ring[e].op = "restore")
  BY LeadsBack DEF Between
<1>3. q.ring[e].op \in DOMAIN Words
  BY <1>1, <1>2, HereIs
<1>4. PICK x \in Labels : Goes("keyboard", q.ring[e], l, x)
  BY <1>3, LeadsOn
<1>5. KeyGoes(q.ring[e], l, x)
  BY <1>4 DEF Goes
<1> QED BY <1>5, KeyGoesIs

(* The same in states of the queue. *)
LEMMA StepLeads ==
  ASSUME QInv, mode = "queue", Command.op \in DOMAIN Words, Advance(queue, exec),
         NEW l \in Labels, NEW m \in Labels, Leads(device, queue, exec, l, m)
  PROVE  \E x \in Labels : Goes(device, Command, l, x) /\ Leads(device, queue', exec', x, m)
<1>1. /\ queue \in Queues /\ exec \in 0 .. Size - 1 /\ Filled(queue, exec)
      /\ queue.ring[queue.write] = ToNormal /\ queue.ring[exec].op \in DOMAIN Words
  BY DEF QInv, Shapes, QueueHolds, Command
<1>2. queue' = [queue EXCEPT !.free = @ + Words[queue.ring[exec].op]]
      /\ exec' = exec + Words[queue.ring[exec].op]
  BY DEF Advance
<1> QED BY <1>1, <1>2, NextLeads DEF Command

-----------------------------------------------------------------------------
(* One step of the queue after the other: it is enough to say which label  *)
(* the command has where the queue is behind the step.                     *)
LEMMA StillLeading ==
  ASSUME NEW l \in Labels, NEW m \in Labels, Leads(device, queue', exec', l, m), Goal(m),
         Talks(l)', UNCHANGED <<device, wanted>>, mode' = "queue"
  PROVE  Leading' /\ Resting'
<1>1. Leads(device', queue', exec', l, m) /\ Goal(m)'
  BY DEF Goal
<1> QED BY <1>1 DEF Leading, Resting

(* While the driver runs the queue has the bytes. *)
LEMMA RunIs ==
  ASSUME CInv, running = "yes"
  PROVE  mode = "queue"
BY DEF CInv, QInv, IInv, OnlyQueueRuns

LEMMA DeviceIs == CInv => device \in {"keyboard", "mouse"}
BY DEF CInv, Basics

(* The end of the queue. *)
LEMMA ToNormalStep ==
  ASSUME CInv, ToNormalMode
  PROVE  Leading' /\ Resting'
<1>1. running = "yes" /\ Command.op = "tonormal" /\ mode = "queue"
  BY RunIs DEF ToNormalMode
<1>2. PICK l \in Labels : \E m \in Labels : Leads(device, queue, exec, l, m) /\ Goal(m) /\ Talks(l)
  BY <1>1 DEF CInv, Leading
<1>3. Goal(l) /\ Talks(l)
  BY <1>1, <1>2, EndIsThere, LeadsEnd DEF CInv
<1>4. /\ mode' = "normal" /\ phase' = 0
      /\ UNCHANGED <<device, out, wire, lamps, enabled, option, wanted, strays>>
  BY DEF ToNormalMode, deviceVars, histories
<1>5. CASE device = "keyboard"
  <2>1. KeyTalks(l) /\ l.stage = "done" /\ l.lamps = wanted
    BY <1>3, <1>5 DEF Goal, Talks
  <2>2. strays = 0 => lamps = wanted /\ ~option /\ Unanswered /\ KeysOnly(wire)
    BY <1>1, <2>1 DEF KeyTalks, Quiet
  <2>3. KeyRests'
    BY <1>4, <2>2 DEF KeyRests, Unanswered
  <2> QED BY <1>4, <1>5, <2>3 DEF Leading, Resting, Rests
<1>6. CASE device = "mouse"
  <2>1. MouseTalks(l) /\ l.stage = "done"
    BY <1>3, <1>6 DEF Goal, Talks
  <2>2. out = "none" /\ (Reports(wire, 0, 0) \/ Plug)
    BY <1>1, <2>1 DEF MouseTalks
  <2>3. MouseRests'
    BY <1>4, <2>2 DEF MouseRests, Plug
  <2> QED BY <1>4, <1>6, <2>3 DEF Leading, Resting, Rests
<1> QED BY <1>5, <1>6, DeviceIs

(* What runs on and says nothing. *)
LEMMA SilentTalks ==
  ASSUME NEW l, Talks(l), running = "yes", running' = "yes",
         UNCHANGED <<device, out, wire, lamps, enabled, option, strays>>
  PROVE  Talks(l)'
BY DEF Talks, KeyTalks, MouseTalks, Quiet, Unanswered, Plug

LEMMA RestoreStep ==
  ASSUME CInv, RestoreStart
  PROVE  Leading' /\ Resting'
<1>1. running = "yes" /\ Command.op = "restore" /\ mode = "queue"
  BY RunIs DEF RestoreStart
<1>2. PICK l \in Labels, m \in Labels : Leads(device, queue, exec, l, m) /\ Goal(m) /\ Talks(l)
  BY <1>1 DEF CInv, Leading
<1>3. /\ queue' = [queue EXCEPT !.free = @ + Size - exec] /\ exec' = 0
      /\ mode' = mode /\ running' = running
      /\ UNCHANGED <<device, out, wire, lamps, enabled, option, wanted, strays>>
  BY DEF RestoreStart, deviceVars, histories
<1>4. /\ queue \in Queues /\ exec \in 0 .. Size - 1 /\ queue.write < exec
      /\ queue.ring[exec].op = "restore"
  BY <1>1, RestoreIsThere DEF CInv, QInv, Shapes, Command
<1>5. Leads(device, queue, 0, l, m)
  BY <1>2, <1>4, LeadsBack
<1>6. queue'.ring = queue.ring /\ queue'.write = queue.write
  BY <1>3, <1>4 DEF Queues
<1>7. Leads(device, queue', exec', l, m)
  BY <1>3, <1>5, <1>6, LeadsRing
<1>8. Talks(l)'
  BY <1>1, <1>2, <1>3, SilentTalks
<1> QED BY <1>1, <1>2, <1>3, <1>7, <1>8, StillLeading

(* A command that ends no run. *)
LEMMA WaitBufEmptyStep ==
  ASSUME CInv, WaitBufEmpty
  PROVE  Leading' /\ Resting'
<1>1. running = "yes" /\ Command.op = "WaitBufEmpty" /\ mode = "queue" /\ Advance(queue, exec)
  BY RunIs DEF WaitBufEmpty
<1>2. PICK l \in Labels, m \in Labels : Leads(device, queue, exec, l, m) /\ Goal(m) /\ Talks(l)
  BY <1>1 DEF CInv, Leading
<1>3. mode' = mode /\ running' = running
      /\ UNCHANGED <<device, out, wire, lamps, enabled, option, wanted, strays>>
  BY DEF WaitBufEmpty, deviceVars, histories
<1>4. PICK x \in Labels : Goes(device, Command, l, x) /\ Leads(device, queue', exec', x, m)
  BY <1>1, <1>2, StepLeads DEF CInv, Words
<1>5. x = l
  <2>1. CASE device = "keyboard"
    <3>1. KeyGoes(Command, l, x)
      BY <1>4, <2>1 DEF Goes
    <3> QED BY <1>1, <1>2, <3>1, KeyGoesIs
  <2>2. CASE device # "keyboard"
    <3>1. MouseGoes(Command, l, x)
      BY <1>4, <2>2 DEF Goes
    <3> QED BY <1>1, <1>2, <3>1, MouseGoesIs
  <2> QED BY <2>1, <2>2
<1>6. Talks(x)'
  BY <1>1, <1>2, <1>3, <1>5, SilentTalks
<1> QED BY <1>1, <1>2, <1>3, <1>4, <1>6, StillLeading

LEMMA NoAnswerStep ==
  ASSUME CInv, NoAnswer
  PROVE  Leading' /\ Resting'
<1>1. /\ running = "yes" /\ mode = "queue" /\ Advance(queue, exec)
      /\ Command.op \in {"SendData", "WriteCmdReg", "SetErrSignal", "MakeFinishSignal"}
  BY RunIs DEF NoAnswer
<1>2. PICK l \in Labels, m \in Labels : Leads(device, queue, exec, l, m) /\ Goal(m) /\ Talks(l)
  BY <1>1 DEF CInv, Leading
<1>3. /\ mode' = mode /\ running' = running
      /\ UNCHANGED <<device, wire, lamps, enabled, option, wanted, strays>>
      /\ Command.op \in {"SendData", "WriteCmdReg"} => out' = Command.arg
  BY DEF NoAnswer, deviceVars, histories
<1>4. PICK x \in Labels : Goes(device, Command, l, x) /\ Leads(device, queue', exec', x, m)
  BY <1>1, <1>2, StepLeads DEF CInv, Words
<1>5. device = "keyboard" /\ KeyGoes(Command, l, x)
  BY <1>1, <1>4, DeviceIs, MouseGoesIs DEF Goes
<1>6. /\ out' \in {"D1", "DF"} /\ l.stage \in {"new", "done"}
      /\ x.stage = "done" /\ x.lamps = l.lamps
  BY <1>1, <1>3, <1>5, KeyGoesIs
<1>7. KeyTalks(l)
  BY <1>2, <1>5 DEF Talks
<1>8. strays = 0 => Quiet(x) /\ KeysOnly(wire)
  BY <1>1, <1>6, <1>7 DEF KeyTalks, Quiet
<1>9. KeyTalks(x)'
  BY <1>1, <1>3, <1>6, <1>8 DEF KeyTalks, Quiet, Unanswered, Answered
<1>10. Talks(x)'
  BY <1>3, <1>5, <1>9 DEF Talks
<1> QED BY <1>1, <1>2, <1>3, <1>4, <1>10, StillLeading

(* One that waits for an answer: what it sends is the only thing under way.*)
LEMMA SendStep ==
  ASSUME CInv, SendAndWait
  PROVE  Leading' /\ Resting'
<1>1. /\ running = "yes" /\ mode = "queue"
      /\ Command.op \in {"AckSendData", "ResetCommand"}
  BY RunIs DEF SendAndWait
<1>2. PICK l \in Labels, m \in Labels : Leads(device, queue, exec, l, m) /\ Goal(m) /\ Talks(l)
  BY <1>1 DEF CInv, Leading
<1>3. /\ mode' = mode /\ running' = "no" /\ out' = Command.arg
      /\ UNCHANGED <<device, queue, exec, wire, lamps, enabled, option, wanted, strays>>
  BY DEF SendAndWait, Out, deviceVars, histories
<1>4. PICK x \in Labels : Goes(device, Command, l, x)
  <2>1. /\ queue \in Queues /\ exec \in 0 .. Size - 1 /\ Filled(queue, exec)
        /\ queue.ring[queue.write] = ToNormal /\ queue.ring[exec].op \in DOMAIN Words
    BY <1>1 DEF CInv, QInv, Shapes, QueueHolds, Command, Words
  <2> QED BY <1>2, <2>1, LeadsOn DEF Command
<1>5. Command' = Command
  BY <1>3 DEF Command
<1>6. CASE device = "keyboard"
  <2>1. KeyTalks(l) /\ KeyGoes(Command, l, x)
    BY <1>2, <1>4, <1>6 DEF Talks, Goes
  <2>2. Command.op = "AckSendData" /\ l.stage # "check"
    BY <1>1, <2>1, KeyGoesIs
  <2>3. strays = 0 => Quiet(l) /\ KeysOnly(wire)
    BY <1>1, <2>1, <2>2 DEF KeyTalks
  <2>4. strays = 0 => KeyAsked(l)'
    BY <1>3, <1>5, <2>3 DEF KeyAsked, Quiet
  <2>5. KeyTalks(l)'
    BY <1>3, <1>5, <2>1, <2>2, <2>4 DEF KeyTalks
  <2>6. Talks(l)'
    BY <1>3, <1>6, <2>5 DEF Talks
  <2> QED BY <1>1, <1>2, <1>3, <2>6, StillLeading
<1>7. CASE device = "mouse"
  <2>1. MouseTalks(l) /\ MouseGoes(Command, l, x)
    BY <1>2, <1>4, <1>7 DEF Talks, Goes
  <2>2. /\ l.stage = "done"  => Reports(wire, 0, 0) \/ Plug
        /\ l.stage = "dirty" => NoAnswers(wire, 1, Len(wire))
        /\ l.stage = "new"   => wire = <<>> /\ ~enabled
    BY <1>1, <2>1 DEF MouseTalks
  <2>3. NoAnswers(wire, 1, Len(wire))
    <3>1. wire \in Seq(WireBytes) /\ 0 \in 0 .. 2
      BY DEF CInv, Basics
    <3>2. Reports(wire, 0, 0) => NoAnswers(wire, 1, Len(wire))
      BY <3>1, ReportsNoAnswers
    <3>3. Plug => NoAnswers(wire, 1, Len(wire))
      BY NoAnswersShort DEF Plug
    <3>4. wire = <<>> => NoAnswers(wire, 1, Len(wire))
      BY NoAnswersShort
    <3>5. l.stage \in Between
      BY <2>1, MouseGoesIs
    <3> QED BY <2>2, <3>2, <3>3, <3>4, <3>5 DEF Between
  <2>4. MouseAsked'
    <3>1. CASE Command.op = "ResetCommand"
      <4>1. Command.arg = "FF" /\ l.stage = "new"
        BY <2>1, <3>1, MouseGoesIs
      <4> QED BY <1>3, <1>5, <2>2, <3>1, <4>1 DEF MouseAsked
    <3>2. CASE Command.op = "AckSendData"
      <4>1. Command.arg = "F4"
        BY <2>1, <3>2, MouseGoesIs
      <4> QED BY <1>3, <1>5, <2>3, <3>2, <4>1 DEF MouseAsked
    <3> QED BY <1>1, <3>1, <3>2
  <2>5. MouseTalks(l)'
    BY <1>3, <2>4 DEF MouseTalks
  <2>6. Talks(l)'
    BY <1>3, <1>7, <2>5 DEF Talks
  <2> QED BY <1>1, <1>2, <1>3, <2>6, StillLeading
<1> QED BY <1>6, <1>7, DeviceIs

LEMMA WaitStep ==
  ASSUME CInv, WaitForByte
  PROVE  Leading' /\ Resting'
<1>1. running = "yes" /\ mode = "queue" /\ Command.op = "RecieveCheck"
  BY RunIs DEF WaitForByte
<1>2. PICK l \in Labels, m \in Labels : Leads(device, queue, exec, l, m) /\ Goal(m) /\ Talks(l)
  BY <1>1 DEF CInv, Leading
<1>3. /\ mode' = mode /\ running' = "no"
      /\ UNCHANGED <<device, queue, exec, out, wire, lamps, enabled, option, wanted, strays>>
  BY DEF WaitForByte, deviceVars, histories
<1>4. PICK x \in Labels : Goes(device, Command, l, x)
  <2>1. /\ queue \in Queues /\ exec \in 0 .. Size - 1 /\ Filled(queue, exec)
        /\ queue.ring[queue.write] = ToNormal /\ queue.ring[exec].op \in DOMAIN Words
    BY <1>1 DEF CInv, QInv, Shapes, QueueHolds, Command, Words
  <2> QED BY <1>2, <2>1, LeadsOn DEF Command
<1>5. Command' = Command
  BY <1>3 DEF Command
<1>6. device = "keyboard" /\ KeyGoes(Command, l, x)
  BY <1>1, <1>4, DeviceIs, MouseGoesIs DEF Goes
<1>7. KeyTalks(l) /\ l.stage = "check"
  BY <1>1, <1>2, <1>6, KeyGoesIs DEF Talks
<1>8. strays = 0 => Quiet(l) /\ Unanswered /\ wire = <<"AA">>
  BY <1>1, <1>7 DEF KeyTalks
<1>9. KeyTalks(l)'
  BY <1>1, <1>3, <1>5, <1>7, <1>8 DEF KeyTalks, Quiet, Unanswered
<1>10. Talks(l)'
  BY <1>3, <1>6, <1>9 DEF Talks
<1> QED BY <1>1, <1>2, <1>3, <1>10, StillLeading

(* What the queue waits for. *)
LEMMA WaitsFor ==
  ASSUME CInv, mode = "queue", running = "no"
  PROVE  /\ Command.op \in DOMAIN Words
         /\ queue \in Queues /\ exec \in 0 .. Size - 1 /\ Filled(queue, exec)
         /\ queue.ring[queue.write] = ToNormal
         /\ \E l, m \in Labels : Leads(device, queue, exec, l, m) /\ Goal(m) /\ Talks(l)
         /\ \/ Command.op = "AckSendData" /\ waiting = "ack" /\ Expected = "ACK"
            \/ Command.op = "RecieveCheck" /\ waiting = "check" /\ Expected = Command.arg
            \/ Command.op = "ResetCommand" /\ waiting = "reset" /\ Expected = "00"
<1>1. Command.op \in Awaits /\ Command.op \in DOMAIN Words
  BY AwaitsAre DEF CInv, QInv, QueueHolds
<1>2. /\ Command.op = "AckSendData"  => waiting = "ack"
      /\ Command.op = "RecieveCheck" => waiting = "check"
      /\ Command.op = "ResetCommand" => waiting = "reset"
  BY DEF CInv, WaitsRight
<1>3. \/ Command.op = "AckSendData" /\ waiting = "ack" /\ Expected = "ACK"
      \/ Command.op = "RecieveCheck" /\ waiting = "check" /\ Expected = Command.arg
      \/ Command.op = "ResetCommand" /\ waiting = "reset" /\ Expected = "00"
  BY <1>1, <1>2 DEF Awaits, Expected
<1> QED BY <1>1, <1>3 DEF CInv, QInv, Shapes, QueueHolds, Leading

(* An answer comes to the keyboard. *)
LEMMA KeyAnswer ==
  ASSUME CInv, GetAnswer, device = "keyboard",
         NEW l \in Labels, Talks(l), NEW x \in Labels, Goes(device, Command, l, x)
  PROVE  Talks(x)'
<1>1. /\ mode = "queue" /\ running = "no" /\ running' = "yes" /\ wire # <<>>
      /\ Head(wire) = Expected /\ wire' = Tail(wire)
      /\ UNCHANGED <<device, out, lamps, enabled, option, strays>>
  BY DEF GetAnswer, Comes, deviceVars, histories
<1>2. KeyTalks(l) /\ KeyGoes(Command, l, x) /\ wire \in Seq(WireBytes)
  BY DEF Talks, Goes, CInv, Basics
<1>3. CASE Command.op = "RecieveCheck"
  <2>1. l.stage = "check" /\ x.stage = "done" /\ x.lamps = l.lamps /\ strays = 0
    BY <1>2, <1>3, KeyGoesIs DEF KeyTalks, CInv, Basics
  <2>2. Quiet(l) /\ Unanswered /\ wire = <<"AA">>
    BY <1>1, <1>2, <1>3, <2>1 DEF KeyTalks
  <2>3. wire' = <<>> /\ KeysOnly(<<>>)
    BY <1>1, <2>2, ShortWires, KeysOnlyWire
  <2>4. Quiet(x)' /\ Unanswered' /\ KeysOnly(wire')
    BY <1>1, <2>1, <2>2, <2>3 DEF Quiet, Unanswered
  <2>5. KeyTalks(x)'
    BY <1>1, <2>1, <2>4 DEF KeyTalks
  <2> QED BY <1>1, <2>5 DEF Talks
<1>4. CASE Command.op = "AckSendData"
  <2>1. Expected = "ACK"
    BY <1>1, <1>4, WaitsFor
  <2>2. strays > 0 => x.stage \notin {"new", "check"}
    BY <1>2, <1>4, KeyGoesIs DEF KeyTalks
  <2>3. ASSUME strays = 0
        PROVE  Quiet(x) /\ out = "none" /\ (IF x.stage = "check" THEN wire' = <<"AA">> ELSE KeysOnly(wire'))
    <3>1. KeyAsked(l)
      BY <1>1, <1>2, <1>4, <2>3 DEF KeyTalks
    <3>2. ~KeysOnly(wire)
      BY <1>1, <1>2, <2>1, KeysOnlyWire
    <3>3. ~EndsWith(wire, "NACK")
      BY <1>1, <1>2, <2>1, EndsWithWire DEF Answers, WireBytes
    <3>4. PICK y \in Labels :
            /\ out = "none" /\ Goes("keyboard", Command, l, y) /\ Quiet(y)
            /\ IF Command.arg = "FF" THEN EndsReset(wire) ELSE EndsWith(wire, "ACK")
      BY <3>1, <3>2, <3>3 DEF KeyAsked
    <3>5. KeyGoes(Command, l, y)
      BY <3>4 DEF Goes
    <3>6. x.stage = y.stage /\ x.lamps = y.lamps /\ (x.stage = "check" <=> Command.arg = "FF")
      <4>0. KeyGoes(Command, l, x)
        BY <1>2
      <4>1. \/ Command.arg = "FF" /\ x.stage = "check" /\ x.lamps = "none"
            \/ Command.arg = "ED" /\ x.stage = "led" /\ x.lamps = l.lamps
            \/ Command.arg \in {"on", "off"} /\ x.stage = "done" /\ x.lamps = Command.arg
        BY <1>4, <4>0, KeyGoesIs
      <4>2. \/ Command.arg = "FF" /\ y.stage = "check" /\ y.lamps = "none"
            \/ Command.arg = "ED" /\ y.stage = "led" /\ y.lamps = l.lamps
            \/ Command.arg \in {"on", "off"} /\ y.stage = "done" /\ y.lamps = Command.arg
        BY <1>4, <3>5, KeyGoesIs
      <4> QED BY <4>1, <4>2
    <3>7. Quiet(x)
      BY <3>4, <3>6 DEF Quiet
    <3>8. CASE Command.arg = "FF"
      <4>1. EndsReset(wire)
        BY <3>4, <3>8
      <4>2. wire' = <<"AA">>
        BY <1>1, <1>2, <2>1, <4>1, EndsResetWire
      <4> QED BY <3>4, <3>6, <3>7, <3>8, <4>2
    <3>9. CASE Command.arg # "FF"
      <4>1. EndsWith(wire, "ACK")
        BY <3>4, <3>9
      <4>2. KeysOnly(wire')
        BY <1>1, <1>2, <2>1, <4>1, EndsWithWire DEF Answers, WireBytes
      <4> QED BY <3>4, <3>6, <3>7, <3>9, <4>2
    <3> QED BY <3>8, <3>9
  <2>4. KeyTalks(x)'
    BY <1>1, <2>2, <2>3 DEF KeyTalks, Quiet, Unanswered, Answered
  <2> QED BY <1>1, <2>4 DEF Talks
<1>5. Command.op # "ResetCommand"
  BY <1>2, KeyGoesIs
<1> QED BY <1>1, <1>3, <1>4, <1>5, WaitsFor

(* And to the mouse. *)
LEMMA MouseAnswer ==
  ASSUME CInv, GetAnswer, device = "mouse",
         NEW l \in Labels, Talks(l), NEW x \in Labels, Goes(device, Command, l, x)
  PROVE  Talks(x)'
<1>1. /\ mode = "queue" /\ running = "no" /\ running' = "yes" /\ wire # <<>>
      /\ Head(wire) = Expected /\ wire' = Tail(wire)
      /\ UNCHANGED <<device, out, lamps, enabled, option, strays>>
  BY DEF GetAnswer, Comes, deviceVars, histories
<1>2. MouseTalks(l) /\ MouseGoes(Command, l, x) /\ wire \in Seq(WireBytes)
  BY DEF Talks, Goes, CInv, Basics
<1>3. MouseAsked
  BY <1>1, <1>2 DEF MouseTalks
<1>4. CASE Command.op = "ResetCommand"
  <2>1. Head(wire) = "00"
    BY <1>1, <1>4, WaitsFor
  <2>2. out = "none" /\ wire = <<"00">>
    <3>1. \/ wire = <<>>
          \/ out = "none" /\ wire \in {<<"ACK", "AA", "00">>, <<"AA", "00">>, <<"00">>, <<"NACK">>}
      BY <1>3, <1>4 DEF MouseAsked
    <3>2. /\ Head(<<"ACK", "AA", "00">>) = "ACK" /\ Head(<<"AA", "00">>) = "AA" /\ Head(<<"NACK">>) = "NACK"
      BY ShortWires
    <3> QED BY <1>1, <2>1, <3>1, <3>2
  <2>3. wire' = <<>>
    BY <1>1, <2>2, ShortWires
  <2>4. x.stage = "done"
    BY <1>2, <1>4, MouseGoesIs
  <2>5. MouseTalks(x)'
    BY <1>1, <2>2, <2>3, <2>4, ReportsEnd DEF MouseTalks
  <2> QED BY <1>1, <2>5 DEF Talks
<1>5. CASE Command.op = "AckSendData"
  <2>1. Head(wire) = "ACK"
    BY <1>1, <1>5, WaitsFor
  <2>2. x.stage = "done"
    BY <1>2, <1>5, MouseGoesIs
  <2>3. Len(wire) \in Nat /\ Len(wire) > 0 /\ Head(wire) = wire[1]
    BY <1>1, <1>2, TailBytes
  <2>4. ~NoAnswers(wire, 1, Len(wire))
    BY <2>1, <2>3 DEF NoAnswers
  <2>5. PICK j \in 1 .. Len(wire) :
          /\ out = "none" /\ NoAnswers(wire, 1, j - 1)
          /\ \/ wire[j] = "ACK" /\ Reports(wire, j, 0)
             \/ wire[j] = "NACK"
    BY <1>3, <1>5, <2>4 DEF MouseAsked
  <2>6. j = 1
    BY <2>1, <2>3, <2>5 DEF NoAnswers
  <2>7. Reports(Tail(wire), 0, 0)
    <3>1. Reports(wire, 1, 0) /\ 1 \in 1 .. Len(wire) /\ 1 - 1 = 0
      BY <2>1, <2>3, <2>5, <2>6
    <3> QED BY <1>1, <1>2, <3>1, ReportsTail
  <2>8. MouseTalks(x)'
    BY <1>1, <2>2, <2>5, <2>7 DEF MouseTalks
  <2> QED BY <1>1, <2>8 DEF Talks
<1>6. Command.op # "RecieveCheck"
  BY <1>2, MouseGoesIs
<1> QED BY <1>1, <1>4, <1>5, <1>6, WaitsFor

LEMMA AnswerStep ==
  ASSUME CInv, GetAnswer
  PROVE  Leading' /\ Resting'
<1>1. /\ mode = "queue" /\ running = "no" /\ mode' = mode /\ Advance(queue, exec)
      /\ UNCHANGED <<device, wanted>>
  BY DEF GetAnswer, Comes, histories
<1>2. PICK l \in Labels, m \in Labels : Leads(device, queue, exec, l, m) /\ Goal(m) /\ Talks(l)
  BY <1>1, WaitsFor
<1>3. PICK x \in Labels : Goes(device, Command, l, x) /\ Leads(device, queue', exec', x, m)
  BY <1>1, <1>2, StepLeads, WaitsFor DEF CInv
<1>4. Talks(x)'
  BY <1>2, <1>3, KeyAnswer, MouseAnswer, DeviceIs
<1> QED BY <1>1, <1>2, <1>3, <1>4, StillLeading

(* The device asks again. *)
LEMMA NackStep ==
  ASSUME CInv, GetNack
  PROVE  Leading' /\ Resting'
<1>1. /\ mode = "queue" /\ running = "no" /\ mode' = mode /\ running' = running
      /\ waiting # "check" /\ wire # <<>> /\ Head(wire) = "NACK" /\ wire' = Tail(wire)
      /\ out' = Command.arg /\ (device = "mouse" => out = "none")
      /\ UNCHANGED <<device, queue, exec, lamps, enabled, option, wanted, strays>>
  BY DEF GetNack, Comes, Out, deviceVars, histories
<1>2. PICK l \in Labels, m \in Labels : Leads(device, queue, exec, l, m) /\ Goal(m) /\ Talks(l)
  BY <1>1, WaitsFor
<1>3. PICK x \in Labels : Goes(device, Command, l, x)
  BY <1>1, <1>2, WaitsFor, LeadsOn DEF Command
<1>4. Command' = Command /\ Command.op # "RecieveCheck" /\ wire \in Seq(WireBytes)
  BY <1>1, WaitsFor DEF Command, CInv, Basics
<1>5. CASE device = "keyboard"
  <2>1. KeyTalks(l)
    BY <1>2, <1>5 DEF Talks
  <2>2. ASSUME strays = 0 PROVE Quiet(l) /\ KeysOnly(wire')
    <3>1. KeyAsked(l)
      BY <1>1, <1>4, <2>1, <2>2 DEF KeyTalks
    <3>2. ~KeysOnly(wire)
      BY <1>1, <1>4, KeysOnlyWire
    <3>3. ~EndsWith(wire, "ACK")
      BY <1>1, <1>4, EndsWithWire DEF Answers, WireBytes
    <3>4. ~EndsReset(wire)
      BY <1>1, <1>4, EndsResetWire
    <3>5. Quiet(l) /\ EndsWith(wire, "NACK")
      BY <3>1, <3>2, <3>3, <3>4 DEF KeyAsked
    <3> QED BY <1>1, <1>4, <3>5, EndsWithWire DEF Answers, WireBytes
  <2>3. strays = 0 => KeyAsked(l)'
    BY <1>1, <1>4, <2>2 DEF KeyAsked, Quiet
  <2>4. KeyTalks(l)'
    BY <1>1, <1>4, <2>1, <2>3 DEF KeyTalks
  <2>5. Talks(l)'
    BY <1>1, <1>5, <2>4 DEF Talks
  <2> QED BY <1>1, <1>2, <2>5, StillLeading
<1>6. CASE device = "mouse"
  <2>1. MouseAsked /\ MouseGoes(Command, l, x) /\ out = "none"
    BY <1>1, <1>2, <1>3, <1>6 DEF Talks, MouseTalks, Goes
  <2>2. MouseAsked'
    <3>1. CASE Command.op = "ResetCommand"
      <4>1. Command.arg = "FF"
        BY <2>1, <3>1, MouseGoesIs
      <4>2. ~enabled /\ (wire = <<>> \/ wire \in {<<"ACK", "AA", "00">>, <<"AA", "00">>, <<"00">>, <<"NACK">>})
        BY <2>1, <3>1 DEF MouseAsked
      <4>3. /\ Head(<<"ACK", "AA", "00">>) = "ACK" /\ Head(<<"AA", "00">>) = "AA" /\ Head(<<"00">>) = "00"
            /\ Tail(<<"NACK">>) = <<>>
        BY ShortWires
      <4>4. wire' = <<>>
        BY <1>1, <4>2, <4>3
      <4> QED BY <1>1, <1>4, <3>1, <4>1, <4>2, <4>4 DEF MouseAsked
    <3>2. CASE Command.op = "AckSendData"
      <4>1. Command.arg = "F4"
        BY <2>1, <3>2, MouseGoesIs
      <4>2. /\ Len(wire) \in Nat /\ Len(wire) > 0 /\ Head(wire) = wire[1] /\ Len(wire') = Len(wire) - 1
        BY <1>1, <1>4, TailBytes
      <4>3. PICK j \in 1 .. Len(wire) :
              /\ NoAnswers(wire, 1, j - 1)
              /\ \/ wire[j] = "ACK"
                 \/ wire[j] = "NACK" /\ NoAnswers(wire, j + 1, Len(wire))
        BY <2>1, <3>2 DEF MouseAsked
      <4>4. j = 1
        BY <1>1, <4>2, <4>3 DEF NoAnswers
      <4>5. NoAnswers(wire, 2, Len(wire))
        BY <1>1, <4>2, <4>3, <4>4
      <4>6. NoAnswers(wire', 1, Len(wire'))
        BY <1>1, <1>4, <4>2, <4>5, NoAnswersTail
      <4> QED BY <1>1, <1>4, <3>2, <4>1, <4>6 DEF MouseAsked
    <3> QED BY <1>1, <3>1, <3>2, <1>4, WaitsFor
  <2>3. MouseTalks(l)'
    BY <1>1, <2>2 DEF MouseTalks
  <2>4. Talks(l)'
    BY <1>1, <1>6, <2>3 DEF Talks
  <2> QED BY <1>1, <1>2, <2>4, StillLeading
<1> QED BY <1>5, <1>6, DeviceIs

(* A key comes instead of an answer: the command is done, and with it the  *)
(* check behind it, which would take no key.                               *)
LEMMA KeyOther ==
  ASSUME CInv, NEW byte, GetOther(byte), device = "keyboard"
  PROVE  Leading' /\ Resting' /\ running' = "yes"
<1> DEFINE behind == exec + Words[Command.op]
           p == [queue EXCEPT !.free = @ + Words[Command.op]]
<1>1. /\ mode = "queue" /\ running = "no" /\ wire # <<>> /\ byte = Head(wire) /\ byte # Expected
      /\ mode' = mode /\ UNCHANGED <<device, wanted>>
  BY DEF GetOther, Comes
<1>2. PICK l \in Labels, m \in Labels : Leads(device, queue, exec, l, m) /\ Goal(m) /\ Talks(l)
  BY <1>1, WaitsFor
<1>3. /\ Command.op \in DOMAIN Words /\ queue \in Queues /\ exec \in 0 .. Size - 1
      /\ Filled(queue, exec) /\ queue.ring[queue.write] = ToNormal
  BY <1>1, WaitsFor
<1>4. PICK x \in Labels : Goes(device, Command, l, x) /\ Leads(device, p, behind, x, m)
  BY <1>2, <1>3, NextLeads DEF Command
<1>5. /\ behind \in 0 .. Size - 1
      /\ p \in Queues /\ p.ring = queue.ring /\ p.write = queue.write /\ Filled(p, behind)
  BY <1>3, Advanced DEF Command
<1>6. KeyGoes(Command, l, x) /\ KeyTalks(l)
  BY <1>2, <1>4 DEF Goes, Talks
<1>7. Command.op # "RecieveCheck"
  <2> SUFFICES ASSUME Command.op = "RecieveCheck" PROVE FALSE
    OBVIOUS
  <2>1. l.stage = "check" /\ Expected = "AA"
    BY <1>1, <1>6, KeyGoesIs, WaitsFor
  <2>2. strays = 0
    BY <1>6, <2>1 DEF KeyTalks, CInv, Basics
  <2>3. wire = <<"AA">>
    BY <1>1, <1>6, <2>2 DEF KeyTalks
  <2> QED BY <1>1, <2>1, <2>3, ShortWires
<1>8. Command.op = "AckSendData" /\ waiting = "ack"
  BY <1>1, <1>6, <1>7, KeyGoesIs, WaitsFor
<1>9. /\ strays' = strays + 1 /\ running' = "yes" /\ strays \in Nat
      /\ IF queue.ring[behind].op = "RecieveCheck" THEN Advance(p, behind)
         ELSE Advance(queue, exec)
  BY <1>8 DEF GetOther, CInv, Basics
<1>10. ASSUME NEW y \in Labels, y.stage \in {"led", "done"}, Leads(device, queue', exec', y, m)
       PROVE  Leading' /\ Resting'
  <2>1. KeyTalks(y)'
    BY <1>9, <1>10 DEF KeyTalks
  <2>2. Talks(y)'
    BY <1>1, <2>1 DEF Talks
  <2> QED BY <1>1, <1>2, <1>10, <2>2, StillLeading
<1> HIDE DEF behind, p
<1>11. CASE queue.ring[behind].op = "RecieveCheck"
  <2> DEFINE n == Words[p.ring[behind].op]
  <2>1. p.ring[behind].op \in DOMAIN Words /\ p.ring[p.write] = ToNormal
    BY <1>3, <1>5, <1>11 DEF Words
  <2>2. PICK y \in Labels : /\ Goes(device, p.ring[behind], x, y)
                            /\ Leads(device, [p EXCEPT !.free = @ + n], behind + n, y, m)
    BY <1>2, <1>4, <1>5, <2>1, NextLeads
  <2>3. queue' = [p EXCEPT !.free = @ + n] /\ exec' = behind + n
    BY <1>9, <1>11 DEF Advance
  <2>4. y.stage = "done"
    <3>1. KeyGoes(p.ring[behind], x, y)
      BY <2>2 DEF Goes
    <3> QED BY <1>4, <1>5, <1>11, <3>1, KeyGoesIs
  <2> QED BY <1>9, <1>10, <2>2, <2>3, <2>4
<1>12. CASE queue.ring[behind].op # "RecieveCheck"
  <2>1. queue' = p /\ exec' = behind
    BY <1>9, <1>12 DEF Advance, p, behind, Command
  <2>2. m.stage = "done"
    BY <1>2 DEF Goal
  <2>3. x.stage # "check"
    <3>1. p.ring[p.write] = ToNormal /\ p.ring[behind].op # "RecieveCheck"
      BY <1>3, <1>5, <1>12
    <3> QED BY <1>2, <1>4, <1>5, <2>2, <3>1, CheckBehind
  <2>4. x.stage \in {"led", "done"}
    BY <1>4, <1>6, <1>8, <2>3, KeyGoesIs
  <2> QED BY <1>4, <1>9, <1>10, <2>1, <2>4
<1> QED BY <1>9, <1>11, <1>12

(* The mouse queue waits on. *)
LEMMA MouseOther ==
  ASSUME CInv, NEW byte, GetOther(byte), device = "mouse"
  PROVE  Leading' /\ Resting' /\ running' = "no"
<1>1. /\ mode = "queue" /\ running = "no" /\ wire # <<>> /\ byte = Head(wire) /\ byte # Expected
      /\ wire' = Tail(wire) /\ (byte = "NACK" => waiting = "check")
      /\ mode' = mode /\ UNCHANGED <<device, out, lamps, enabled, option, wanted>>
  BY DEF GetOther, Comes, deviceVars
<1>2. PICK l \in Labels, m \in Labels : Leads(device, queue, exec, l, m) /\ Goal(m) /\ Talks(l)
  BY <1>1, WaitsFor
<1>3. PICK x \in Labels : Goes(device, Command, l, x)
  BY <1>1, <1>2, WaitsFor, LeadsOn DEF Command
<1>4. MouseAsked /\ MouseGoes(Command, l, x) /\ wire \in Seq(WireBytes)
  BY <1>1, <1>2, <1>3 DEF Talks, MouseTalks, Goes, CInv, Basics
<1>5. Command.op # "RecieveCheck"
  BY <1>4, MouseGoesIs
<1>6. waiting # "check"
  BY <1>1, <1>5, WaitsFor
<1>7. UNCHANGED <<queue, exec, running, strays>>
  BY <1>6 DEF GetOther
<1>8. Command' = Command
  BY <1>7 DEF Command
<1>9. MouseAsked'
  <2>1. CASE Command.op = "ResetCommand"
    <3>1. Head(wire) # "00" /\ Head(wire) # "NACK"
      BY <1>1, <1>6, <2>1, WaitsFor
    <3>2. /\ ~enabled /\ out = "none"
          /\ wire \in {<<"ACK", "AA", "00">>, <<"AA", "00">>, <<"00">>, <<"NACK">>}
      BY <1>1, <1>4, <2>1 DEF MouseAsked
    <3>3. /\ Head(<<"00">>) = "00" /\ Head(<<"NACK">>) = "NACK"
          /\ Tail(<<"ACK", "AA", "00">>) = <<"AA", "00">> /\ Tail(<<"AA", "00">>) = <<"00">>
      BY ShortWires
    <3>4. wire' \in {<<"AA", "00">>, <<"00">>}
      BY <1>1, <3>1, <3>2, <3>3
    <3> QED BY <1>1, <1>8, <2>1, <3>2, <3>4 DEF MouseAsked
  <2>2. CASE Command.op = "AckSendData"
    <3>1. Head(wire) \notin {"ACK", "NACK"}
      BY <1>1, <1>6, <2>2, WaitsFor
    <3>2. /\ Len(wire) \in Nat /\ Len(wire) > 0 /\ Head(wire) = wire[1] /\ Len(wire') = Len(wire) - 1
          /\ \A i \in 1 .. Len(wire) - 1 : wire'[i] = wire[i + 1]
      BY <1>1, <1>4, TailBytes
    <3>3. CASE out = "F4" /\ NoAnswers(wire, 1, Len(wire))
      <4>1. NoAnswers(wire', 1, Len(wire'))
        BY <1>1, <1>4, <3>2, <3>3, NoAnswersTail
      <4> QED BY <1>1, <1>8, <2>2, <3>3, <4>1 DEF MouseAsked
    <3>4. CASE out # "F4" \/ ~NoAnswers(wire, 1, Len(wire))
      <4>1. PICK j \in 1 .. Len(wire) :
              /\ out = "none" /\ NoAnswers(wire, 1, j - 1)
              /\ \/ wire[j] = "ACK" /\ Reports(wire, j, 0)
                 \/ wire[j] = "NACK" /\ NoAnswers(wire, j + 1, Len(wire))
        BY <1>4, <2>2, <3>4 DEF MouseAsked
      <4>2. j # 1
        BY <3>1, <3>2, <4>1
      <4>3. /\ j - 1 \in 1 .. Len(wire') /\ wire'[j - 1] = wire[j]
            /\ (j + 1) - 1 = (j - 1) + 1 /\ j + 1 > 1 /\ j - 1 > 0 /\ j - 1 <= Len(wire)
            /\ j + 1 \in Nat /\ j - 1 \in Int
        BY <3>2, <4>2
      <4>4. NoAnswers(wire', 1, (j - 1) - 1)
        BY <1>1, <1>4, <4>1, <4>3, NoAnswersTail
      <4>5. wire[j] = "ACK" => Reports(wire', j - 1, 0)
        BY <1>1, <1>4, <4>1, ReportsTail
      <4>6. wire[j] = "NACK" => NoAnswers(wire', (j - 1) + 1, Len(wire'))
        <5>1. Len(wire) \in Int /\ Len(wire) <= Len(wire)
          BY <3>2
        <5>2. wire[j] = "NACK" => NoAnswers(wire', (j + 1) - 1, Len(wire) - 1)
          BY <1>1, <1>4, <4>1, <4>3, <5>1, NoAnswersTail
        <5> QED BY <3>2, <4>3, <5>2
      <4> QED BY <1>1, <1>8, <2>2, <4>1, <4>3, <4>4, <4>5, <4>6 DEF MouseAsked
    <3> QED BY <3>3, <3>4
  <2> QED BY <1>1, <1>5, <2>1, <2>2, WaitsFor
<1>10. MouseTalks(l)'
  BY <1>1, <1>7, <1>9 DEF MouseTalks
<1>11. Talks(l)'
  BY <1>1, <1>10 DEF Talks
<1>12. Leads(device, queue', exec', l, m)
  BY <1>2, <1>7
<1> QED BY <1>1, <1>2, <1>7, <1>11, <1>12, StillLeading

(* Bytes for the decoders. *)
LEMMA KeyStep ==
  ASSUME CInv, NEW byte, Key(byte)
  PROVE  Leading' /\ Resting'
<1>1. /\ device = "keyboard" /\ mode = "normal" /\ wire # <<>> /\ wire' = Tail(wire)
      /\ UNCHANGED <<device, mode, out, lamps, option, wanted, strays>>
  BY DEF Key, Comes, queueVars, deviceVars, histories
<1>2. KeyRests /\ wire \in Seq(WireBytes)
  BY <1>1 DEF CInv, Resting, Rests, Basics
<1>3. KeysOnly(wire) => KeysOnly(wire')
  BY <1>1, <1>2, KeysOnlyWire
<1>4. KeyRests'
  BY <1>1, <1>2, <1>3 DEF KeyRests, Unanswered
<1> QED BY <1>1, <1>4 DEF Leading, Resting, Rests

LEMMA MouseByteStep ==
  ASSUME CInv, NEW byte, MouseByte(byte)
  PROVE  Leading' /\ Resting' /\ count # 0
<1>1. /\ device = "mouse" /\ mode \in {"normal", "plugged"} /\ wire # <<>> /\ byte = Head(wire)
      /\ wire' = Tail(wire) /\ UNCHANGED <<device, out, enabled, count>>
  BY DEF MouseByte, Comes, deviceVars, histories
<1>2. MouseRests /\ wire \in Seq(WireBytes) /\ phase \in 0 .. 2
  BY <1>1 DEF CInv, Resting, Rests, Basics, QInv, Shapes
<1>3. /\ Head(<<"00">>) = "00" /\ Tail(<<"00">>) = <<>>
      /\ Head(<<"AA", "00">>) = "AA" /\ Tail(<<"AA", "00">>) = <<"00">>
  BY ShortWires
<1>4. mode' \in {"normal", "plugged"} /\ MouseRests'
  <2>1. CASE mode = "plugged"
    <3>1. mode' = "normal" /\ phase' = 0
      BY <2>1 DEF MouseByte
    <3>2. wire' = <<>>
      BY <1>1, <1>2, <1>3, <2>1 DEF MouseRests
    <3> QED BY <1>1, <1>2, <3>1, <3>2, ReportsEnd DEF MouseRests
  <2>2. CASE mode = "normal" /\ Plug /\ phase = 0
    <3>1. byte = "AA" /\ wire' = <<"00">> /\ ~enabled
      BY <1>1, <1>3, <2>2 DEF Plug
    <3>2. mode' = "plugged" /\ phase' = 0
      BY <2>2, <3>1 DEF MouseByte
    <3> QED BY <1>1, <1>2, <3>1, <3>2 DEF MouseRests
  <2>3. CASE mode = "normal" /\ Reports(wire, 0, phase)
    <3>1. byte = Report[phase + 1] /\ Reports(wire', 0, (phase + 1) % 3)
      BY <1>1, <1>2, <2>3, ReportsHead
    <3>2. mode' = "normal" /\ phase' = (phase + 1) % 3
      <4>1. CASE phase > 0
        BY <2>3, <4>1 DEF MouseByte
      <4>2. CASE phase = 0
        <5>1. byte = "p1" /\ ~(phase > 0)
          BY <3>1, <4>2, ReportParts
        <5>2. phase' \in {1} /\ mode' = mode
          BY <2>3, <5>1 DEF MouseByte
        <5> QED BY <2>3, <4>2, <5>2, Mod3
      <4> QED BY <1>2, <4>1, <4>2
    <3> QED BY <1>1, <1>2, <3>1, <3>2 DEF MouseRests
  <2> QED BY <1>1, <1>2, <2>1, <2>2, <2>3 DEF MouseRests
<1>5. count # 0
  BY <1>1 DEF CInv, Untouched
<1> QED BY <1>1, <1>4, <1>5 DEF Leading, Resting, Rests

(* The device takes a byte. *)
LEMMA KeyTake ==
  ASSUME CInv, Take, device = "keyboard"
  PROVE  Leading' /\ Resting'
<1>1. /\ out # "none" /\ out' = "none"
      /\ UNCHANGED <<device, queue, exec, mode, running, wanted, strays>>
  BY TakeIs
<1>2. wire \in Seq(WireBytes)
  BY DEF CInv, Basics
<1>3. Unanswered => Unanswered' /\ UNCHANGED <<wire, lamps, option>>
  BY <1>1, TakeIs DEF Unanswered, Answered
<1>4. CASE mode = "queue"
  <2>1. PICK l \in Labels, m \in Labels : Leads(device, queue, exec, l, m) /\ Goal(m) /\ Talks(l)
    BY <1>4 DEF CInv, Leading
  <2>2. KeyTalks(l)
    BY <2>1 DEF Talks
  <2>3. Command' = Command
    BY <1>1 DEF Command
  <2>4. KeyTalks(l)'
    <3>1. CASE strays # 0
      BY <1>1, <2>2, <3>1 DEF KeyTalks
    <3>2. CASE strays = 0 /\ running # "no"
      BY <1>1, <1>3, <2>2, <3>2 DEF KeyTalks, Quiet
    <3>3. CASE strays = 0 /\ running = "no" /\ Command.op = "RecieveCheck"
      BY <1>1, <1>3, <2>2, <2>3, <3>3 DEF KeyTalks, Quiet
    <3>4. CASE strays = 0 /\ running = "no" /\ Command.op # "RecieveCheck"
      <4>1. Quiet(l) /\ out = Command.arg /\ KeysOnly(wire)
        BY <1>1, <2>2, <3>4 DEF KeyTalks, KeyAsked
      <4>2. PICK x \in Labels : Goes("keyboard", Command, l, x)
        BY <1>4, <2>1, <3>4, WaitsFor, LeadsOn DEF Command
      <4>3. KeyGoes(Command, l, x) /\ Command.op = "AckSendData"
        BY <1>4, <3>4, <4>2, KeyGoesIs, WaitsFor DEF Goes
      <4>4. \/ out = "FF" /\ l.stage = "new" /\ x.stage = "check" /\ x.lamps = "none"
            \/ /\ out = "ED" /\ l.stage \in {"new", "done"}
               /\ x.stage = "led" /\ x.lamps = l.lamps
            \/ /\ out \in {"on", "off"} /\ l.stage = "led"
               /\ x.stage = "done" /\ x.lamps = out
        BY <4>1, <4>3, KeyGoesIs
      <4>5. out \in Answered /\ lamps = l.lamps /\ (option <=> l.stage = "led") /\ option \in BOOLEAN
        BY <4>1, <4>4 DEF Answered, Quiet, CInv, Basics
      <4>6. CASE wire' = Append(wire, "NACK") /\ UNCHANGED <<lamps, option>>
        <5>1. EndsWith(wire', "NACK") /\ Quiet(l)'
          BY <1>2, <4>1, <4>6, EndsWithWire DEF Answers, WireBytes, Quiet
        <5>2. KeyAsked(l)'
          BY <1>1, <5>1 DEF KeyAsked
        <5> QED BY <1>1, <2>2, <2>3, <3>4, <5>2 DEF KeyTalks
      <4>7. CASE /\ option' = (out = "ED")
                 /\ lamps' = (IF option /\ out \in {"on", "off"} THEN out
                              ELSE IF out = "FF" THEN "none" ELSE lamps)
                 /\ wire' = wire \o (IF out # "FF" THEN <<"ACK">> ELSE <<"ACK", "AA">>)
        <5>1. Quiet(x)'
          <6>1. CASE out = "FF" /\ l.stage = "new" /\ x.stage = "check" /\ x.lamps = "none"
            BY <4>5, <4>7, <6>1 DEF Quiet
          <6>2. CASE /\ out = "ED" /\ l.stage \in {"new", "done"}
                     /\ x.stage = "led" /\ x.lamps = l.lamps
            BY <4>5, <4>7, <6>2 DEF Quiet
          <6>3. CASE /\ out \in {"on", "off"} /\ l.stage = "led"
                     /\ x.stage = "done" /\ x.lamps = out
            BY <4>5, <4>7, <6>3 DEF Quiet
          <6> QED BY <4>4, <6>1, <6>2, <6>3
        <5>2. IF Command.arg = "FF" THEN EndsReset(wire') ELSE EndsWith(wire', "ACK")
          <6>1. CASE out = "FF"
            BY <1>2, <4>1, <4>7, <6>1, EndsResetWire
          <6>2. CASE out # "FF"
            BY <1>2, <4>1, <4>7, <6>2, EndsWithWire DEF Answers, WireBytes
          <6> QED BY <4>1, <6>1, <6>2
        <5>3. Goes("keyboard", Command', l, x)
          BY <2>3, <4>2
        <5>4. KeyAsked(l)'
          BY <1>1, <2>3, <5>1, <5>2, <5>3 DEF KeyAsked
        <5> QED BY <1>1, <2>2, <2>3, <3>4, <5>4 DEF KeyTalks
      <4> QED BY <4>5, <4>6, <4>7, TakeIs
    <3> QED BY <3>1, <3>2, <3>3, <3>4
  <2>5. Talks(l)'
    BY <1>1, <2>4 DEF Talks
  <2> QED BY <1>1, <1>4, <2>1, <2>5, StillLeading
<1>5. CASE mode # "queue"
  <2>1. KeyRests
    BY <1>5 DEF CInv, Resting, Rests
  <2>2. KeyRests'
    BY <1>1, <1>3, <2>1 DEF KeyRests
  <2> QED BY <1>1, <1>5, <2>2 DEF Leading, Resting, Rests
<1> QED BY <1>4, <1>5

LEMMA MouseTake ==
  ASSUME CInv, Take, device = "mouse"
  PROVE  Leading' /\ Resting'
<1>1. /\ out # "none" /\ out' = "none"
      /\ UNCHANGED <<device, queue, exec, mode, running, wanted, strays>>
  BY TakeIs
<1>2. wire \in Seq(WireBytes)
  BY DEF CInv, Basics
<1>3. mode = "queue"
  BY <1>1 DEF CInv, Resting, Rests, MouseRests
<1>4. PICK l \in Labels, m \in Labels : Leads(device, queue, exec, l, m) /\ Goal(m) /\ Talks(l)
  BY <1>3 DEF CInv, Leading
<1>5. MouseTalks(l) /\ Command' = Command
  BY <1>1, <1>4 DEF Talks, Command
<1>6. running # "yes"
  BY <1>1, <1>5 DEF MouseTalks
<1>7. MouseAsked'
  <2>1. running = "no"
    BY <1>6 DEF CInv, NoBreakpoint, QInv, Shapes
  <2>2. MouseAsked
    BY <1>5, <2>1 DEF MouseTalks
  <2>3. CASE Command.op = "ResetCommand"
    <3>1. out = "FF" /\ wire = <<>> /\ ~enabled
      BY <1>1, <2>2, <2>3 DEF MouseAsked
    <3>2. CASE wire' = Append(wire, "NACK") /\ UNCHANGED enabled
      <4>1. wire' = <<"NACK">>
        BY <3>1, <3>2
      <4> QED BY <1>1, <1>5, <2>3, <3>1, <3>2, <4>1 DEF MouseAsked
    <3>3. CASE /\ enabled' = (out = "F4" \/ (out # "FF" /\ enabled))
               /\ wire' = wire \o <<"ACK", "AA", "00">>
      <4>1. <<>> \o <<"ACK", "AA", "00">> = <<"ACK", "AA", "00">>
        OBVIOUS
      <4>2. wire' = <<"ACK", "AA", "00">> /\ ~enabled'
        BY <3>1, <3>3, <4>1
      <4> QED BY <1>1, <1>5, <2>3, <4>2 DEF MouseAsked
    <3> QED BY <3>1, <3>2, <3>3, TakeIs DEF Answered
  <2>4. CASE Command.op # "ResetCommand"
    <3>1. out = "F4" /\ NoAnswers(wire, 1, Len(wire))
      BY <1>1, <2>2, <2>4 DEF MouseAsked
    <3>2. wire' = Append(wire, "ACK") \/ wire' = Append(wire, "NACK")
      <4>1. wire \o <<"ACK">> = Append(wire, "ACK")
        BY <1>2
      <4>2. wire' = wire \o <<"ACK">> \/ wire' = Append(wire, "NACK")
        BY <3>1, TakeIs DEF Answered
      <4> QED BY <4>1, <4>2
    <3> DEFINE n == Len(wire)
    <3>3. ASSUME NEW b \in {"ACK", "NACK"}, wire' = Append(wire, b)
          PROVE  /\ wire' \in Seq(WireBytes) /\ Len(wire') = n + 1 /\ wire'[n + 1] = b
                 /\ \A i \in 1 .. n : wire'[i] = wire[i]
      BY <1>2, <3>3, OneByte DEF WireBytes
    <3>4. n \in Nat /\ n + 1 \in 1 .. n + 1 /\ (n + 1) - 1 = n
      BY <1>2
    <3>5. Len(wire') = n + 1 /\ NoAnswers(wire', 1, (n + 1) - 1)
      <4>1. Len(wire') = n + 1 /\ \A i \in 1 .. n : wire'[i] = wire[i]
        BY <3>2, <3>3
      <4> HIDE DEF n
      <4>2. NoAnswers(wire, 1, n)
        BY <3>1 DEF n
      <4> QED BY <3>4, <4>1, <4>2 DEF NoAnswers
    <3>6. CASE wire' = Append(wire, "ACK")
      <4>1. wire'[n + 1] = "ACK" /\ wire' \in Seq(WireBytes)
        BY <3>3, <3>6
      <4>2. Reports(wire', n + 1, 0)
        <5> HIDE DEF n
        <5> QED BY <3>5, <4>1, ReportsEnd
      <4> HIDE DEF n
      <4> QED BY <1>1, <1>5, <2>4, <3>4, <3>5, <4>1, <4>2 DEF MouseAsked
    <3>7. CASE wire' = Append(wire, "NACK")
      <4>1. wire'[n + 1] = "NACK"
        BY <3>3, <3>7
      <4> HIDE DEF n
      <4>2. NoAnswers(wire', (n + 1) + 1, Len(wire'))
        BY <3>4, <3>5 DEF NoAnswers
      <4> QED BY <1>1, <1>5, <2>4, <3>4, <3>5, <4>1, <4>2 DEF MouseAsked
    <3> QED BY <3>2, <3>6, <3>7
  <2> QED BY <2>3, <2>4
<1>8. MouseTalks(l)'
  BY <1>1, <1>6, <1>7 DEF MouseTalks
<1>9. Talks(l)'
  BY <1>1, <1>8 DEF Talks
<1> QED BY <1>1, <1>3, <1>4, <1>9, StillLeading

(* A key is pressed. *)
LEMMA KeyUse ==
  ASSUME CInv, Use, device = "keyboard"
  PROVE  Leading' /\ Resting'
<1>1. /\ Range(wire) \cap Answers = {} /\ wire' = Append(wire, "key")
      /\ UNCHANGED <<device, queue, exec, mode, running, out, lamps, option, wanted, strays>>
  BY UseIs
<1>2. wire \in Seq(WireBytes) /\ (KeysOnly(wire) => KeysOnly(wire'))
  BY <1>1, KeysOnlyWire DEF CInv, Basics
<1>3. wire # <<"AA">>
  <2> SUFFICES ASSUME wire = <<"AA">> PROVE FALSE
    OBVIOUS
  <2>1. "AA" \in Range(wire)
    <3>1. 1 \in DOMAIN <<"AA">> /\ <<"AA">>[1] = "AA"
      OBVIOUS
    <3> QED BY <3>1 DEF Range
  <2> QED BY <1>1, <2>1 DEF Answers
<1>4. ~EndsWith(wire, "ACK") /\ ~EndsWith(wire, "NACK") /\ ~EndsReset(wire)
  <2>1. "ACK" \notin Range(wire) /\ "NACK" \notin Range(wire)
    BY <1>1 DEF Answers
  <2> QED BY <1>2, <2>1, EndsWithWire, EndsResetWire DEF Answers, WireBytes
<1>5. CASE mode = "queue"
  <2>1. PICK l \in Labels, m \in Labels : Leads(device, queue, exec, l, m) /\ Goal(m) /\ Talks(l)
    BY <1>5 DEF CInv, Leading
  <2>2. KeyTalks(l) /\ Command' = Command
    BY <1>1, <2>1 DEF Talks, Command
  <2>3. KeyTalks(l)'
    <3>1. CASE strays # 0
      BY <1>1, <2>2, <3>1 DEF KeyTalks
    <3>2. CASE strays = 0 /\ running # "no"
      BY <1>1, <1>2, <1>3, <2>2, <3>2 DEF KeyTalks, Quiet, Unanswered
    <3>3. CASE strays = 0 /\ running = "no"
      <4>1. Command.op # "RecieveCheck"
        BY <1>3, <2>2, <3>3 DEF KeyTalks
      <4>2. Quiet(l) /\ out = Command.arg /\ KeysOnly(wire)
        BY <1>4, <2>2, <3>3, <4>1 DEF KeyTalks, KeyAsked
      <4>3. KeyAsked(l)'
        BY <1>1, <1>2, <2>2, <4>2 DEF KeyAsked, Quiet
      <4> QED BY <1>1, <2>2, <3>3, <4>1, <4>3 DEF KeyTalks
    <3> QED BY <3>1, <3>2, <3>3
  <2>4. Talks(l)'
    BY <1>1, <2>3 DEF Talks
  <2> QED BY <1>1, <1>5, <2>1, <2>4, StillLeading
<1>6. CASE mode # "queue"
  <2>1. KeyRests
    BY <1>6 DEF CInv, Resting, Rests
  <2>2. KeyRests'
    BY <1>1, <1>2, <2>1 DEF KeyRests, Unanswered
  <2> QED BY <1>1, <1>6, <2>2 DEF Leading, Resting, Rests
<1> QED BY <1>5, <1>6

(* The mouse is moved, or another one is plugged in. *)
LEMMA MouseUse ==
  ASSUME CInv, Use, device = "mouse"
  PROVE  Leading' /\ Resting' /\ count # 0
<1>1. /\ enabled
      /\ UNCHANGED <<device, queue, exec, mode, running, phase, out, lamps, option, wanted, strays>>
      /\ \/ wire' = wire \o Report /\ UNCHANGED enabled
         \/ wire = <<>> /\ phase = 0 /\ wire' = <<"AA", "00">> /\ enabled' = FALSE
  BY UseIs
<1>2. wire \in Seq(WireBytes) /\ phase \in 0 .. 2 /\ Len(wire) \in Nat /\ Report \in Seq(WireBytes)
  BY ReportParts DEF CInv, Basics, QInv, Shapes
<1>3. NoAnswers(wire, 1, Len(wire)) => NoAnswers(wire', 1, Len(wire'))
  <2>1. CASE wire' = wire \o Report
    <3>1. NoAnswers(wire, 1, Len(wire)) => NoAnswers(wire \o Report, 1, Len(wire \o Report))
      BY <1>2, NoAnswersMore, NoAnswersShort
    <3> QED BY <2>1, <3>1
  <2>2. CASE wire' = <<"AA", "00">>
    BY <2>2, NoAnswersShort
  <2> QED BY <1>1, <2>1, <2>2
<1>4. ASSUME NEW k \in 0 .. 2, Reports(wire, 0, k), wire' = wire \o Report
      PROVE  Reports(wire', 0, k)
  <2>1. 0 \in 0 .. Len(wire)
    BY <1>2
  <2> QED BY <1>2, <1>4, <2>1, ReportsMore
<1>5. count # 0
  BY <1>1 DEF CInv, Untouched
<1>6. CASE mode = "queue"
  <2>1. PICK l \in Labels, m \in Labels : Leads(device, queue, exec, l, m) /\ Goal(m) /\ Talks(l)
    BY <1>6 DEF CInv, Leading
  <2>2. MouseTalks(l) /\ Command' = Command
    BY <1>1, <2>1 DEF Talks, Command
  <2>3. CASE running = "yes"
    <3>1. /\ out = "none" /\ l.stage # "new"
          /\ l.stage = "done"  => Reports(wire, 0, 0)
          /\ l.stage = "dirty" => NoAnswers(wire, 1, Len(wire))
      BY <1>1, <2>2, <2>3 DEF MouseTalks, Plug
    <3>2. l.stage = "done" => Reports(wire', 0, 0) \/ Plug'
      <4>1. 0 \in 0 .. 2
        OBVIOUS
      <4>2. l.stage = "done" /\ wire' = wire \o Report => Reports(wire', 0, 0)
        BY <1>4, <3>1, <4>1
      <4> QED BY <1>1, <4>2 DEF Plug
    <3>3. MouseTalks(l)'
      BY <1>1, <1>3, <2>3, <3>1, <3>2 DEF MouseTalks
    <3>4. Talks(l)'
      BY <1>1, <3>3 DEF Talks
    <3> QED BY <1>1, <1>5, <1>6, <2>1, <3>4, StillLeading
  <2>4. CASE running = "no"
    <3>1. MouseAsked /\ Command.op # "ResetCommand"
      BY <1>1, <2>2, <2>4 DEF MouseTalks, MouseAsked
    <3>2. MouseAsked'
      <4>1. CASE out = "F4" /\ NoAnswers(wire, 1, Len(wire))
        BY <1>1, <1>3, <2>2, <3>1, <4>1 DEF MouseAsked
      <4>2. CASE ~(out = "F4" /\ NoAnswers(wire, 1, Len(wire)))
        <5>1. PICK j \in 1 .. Len(wire) :
                /\ out = "none" /\ NoAnswers(wire, 1, j - 1)
                /\ \/ wire[j] = "ACK" /\ Reports(wire, j, 0)
                   \/ wire[j] = "NACK" /\ NoAnswers(wire, j + 1, Len(wire))
          BY <3>1, <4>2 DEF MouseAsked
        <5>2. wire # <<>>
          BY <1>2
        <5>3. wire' = wire \o Report
          BY <1>1, <5>2
        <5>4. /\ Len(wire') = Len(wire) + Len(Report) /\ Len(Report) = 3
              /\ \A i \in 1 .. Len(wire) : wire'[i] = wire[i]
          <6>1. /\ Len(wire \o Report) = Len(wire) + Len(Report)
                /\ \A i \in 1 .. Len(wire) : (wire \o Report)[i] = wire[i]
            BY <1>2, MoreBytes
          <6> QED BY <5>3, <6>1, ReportParts
        <5>5. j \in 1 .. Len(wire') /\ wire'[j] = wire[j] /\ j - 1 \in Int /\ j - 1 <= Len(wire)
              /\ j \in 0 .. Len(wire) /\ j + 1 \in Nat /\ j + 1 > 0
          BY <1>2, <5>4
        <5>6. NoAnswers(wire', 1, j - 1)
          BY <1>2, <5>1, <5>3, <5>5, NoAnswersMore
        <5>7. wire[j] = "ACK" /\ Reports(wire, j, 0) => Reports(wire', j, 0)
          BY <1>2, <5>3, <5>5, ReportsMore
        <5>8. NoAnswers(wire, j + 1, Len(wire)) => NoAnswers(wire', j + 1, Len(wire'))
          BY <1>2, <5>3, <5>5, NoAnswersMore, NoAnswersShort
        <5> QED BY <1>1, <2>2, <3>1, <5>1, <5>5, <5>6, <5>7, <5>8 DEF MouseAsked
      <4> QED BY <4>1, <4>2
    <3>3. MouseTalks(l)'
      BY <1>1, <2>4, <3>2 DEF MouseTalks
    <3>4. Talks(l)'
      BY <1>1, <3>3 DEF Talks
    <3> QED BY <1>1, <1>5, <1>6, <2>1, <3>4, StillLeading
  <2> QED BY <2>3, <2>4 DEF CInv, NoBreakpoint, QInv, Shapes
<1>7. CASE mode # "queue"
  <2>1. /\ MouseRests /\ mode = "normal"
    BY <1>1, <1>7 DEF CInv, Resting, Rests, MouseRests, QInv, Shapes
  <2>2. out = "none" /\ Reports(wire, 0, phase)
    BY <1>1, <2>1 DEF MouseRests, Plug
  <2>3. MouseRests'
    BY <1>1, <1>2, <1>4, <2>1, <2>2 DEF MouseRests, Plug
  <2> QED BY <1>1, <1>5, <1>7, <2>3 DEF Leading, Resting, Rests
<1> QED BY <1>6, <1>7

(* A batch behind others, or one that starts the queue. *)
LEMMA SubmitStep ==
  ASSUME CInv, NEW batch \in Batches, Submit(batch), batch \in {Reset, MouseReset} => count = 0
  PROVE  Leading' /\ Resting'
<1> DEFINE taken == Accepted(queue, batch)
<1>1. /\ running = "no" /\ queue' = PutAll(queue, batch)
      /\ wanted' = (IF taken THEN Lamps(batch) ELSE wanted)
      /\ UNCHANGED <<device, phase, out, wire, lamps, enabled, option, strays>>
  BY DEF Submit, deviceVars
<1>2. /\ queue \in Queues /\ ~queue.full /\ exec \in 0 .. Size - 1 /\ Filled(queue, exec)
      /\ IsBatch(batch) /\ device \in {"keyboard", "mouse"}
  BY BatchAssumption DEF CInv, QInv, Shapes, QueueHolds, Basics, Batches, IsBatch
<1> HIDE DEF taken
<1>3. ASSUME NEW l \in Labels, NEW m \in Labels, Leads(device, queue, exec, l, m),
             m.stage \in Between, device = "keyboard" => m.stage # "dirty" /\ m.lamps = wanted,
             batch \in {Reset, MouseReset} => m.stage = "new", taken \/ Goal(m)
      PROVE  \E k \in Labels : Leads(device, queue', exec, l, k) /\ Goal(k)'
  <2>0. PICK group : \E k \in Labels :
          /\ batch = <<group>> /\ Makes(device, group, m, k) /\ k.stage = "done"
          /\ device = "keyboard" => k.lamps = Lamps(batch)
    BY <1>2, <1>3, BatchMakes
  <2>1. PICK k \in Labels :
          /\ batch = <<group>> /\ Makes(device, group, m, k) /\ k.stage = "done"
          /\ device = "keyboard" => k.lamps = Lamps(batch)
    BY <2>0
  <2>2. Leads(device, queue', exec, l, IF taken THEN k ELSE m)
    BY <1>1, <1>2, <1>3, <2>1, LeadsPutAll DEF taken
  <2>3. CASE taken
    BY <1>1, <2>1, <2>2, <2>3 DEF Goal
  <2>4. CASE ~taken
    BY <1>1, <1>3, <2>2, <2>4 DEF Goal
  <2> QED BY <2>3, <2>4
(* Behind others. *)
<1>4. CASE mode = "queue"
  <2>1. exec' = exec /\ mode' = mode /\ running' = running
    BY <1>4 DEF Submit
  <2>2. PICK l \in Labels, m \in Labels : Leads(device, queue, exec, l, m) /\ Goal(m) /\ Talks(l)
    BY <1>4 DEF CInv, Leading
  <2>3. count # 0
    BY <1>4 DEF CInv, Untouched
  <2>4. PICK k \in Labels : Leads(device, queue', exec, l, k) /\ Goal(k)'
    <3>1. m.stage \in Between /\ (device = "keyboard" => m.stage # "dirty" /\ m.lamps = wanted)
      BY <2>2 DEF Goal, Between
    <3> QED BY <1>3, <2>2, <2>3, <3>1
  <2>5. Command' = Command
    <3>1. Command.op \in DOMAIN Words /\ queue.ring[queue.write] = ToNormal
      BY <1>1, <1>4, WaitsFor
    <3>2. exec # queue.write
      BY <3>1, OwnCells, WordCounts DEF Command
    <3>3. InUse(queue, exec, exec)
      <4>1. queue.write \in 0 .. Size - 1
        BY <1>2 DEF Queues
      <4> QED BY <1>2, <3>2, <4>1, SizeAssumption DEF InUse
    <3>4. queue'.ring[exec] = queue.ring[exec]
      BY <1>1, <1>2, <3>3, PutAllHolds
    <3> QED BY <2>1, <3>4 DEF Command
  <2>6. Talks(l)'
    <3>1. CASE device = "keyboard"
      BY <1>1, <2>1, <2>2, <2>5, <3>1 DEF Talks, KeyTalks, KeyAsked, Quiet, Unanswered
    <3>2. CASE device # "keyboard"
      <4>1. MouseTalks(l) => MouseTalks(l)'
        BY <1>1, <2>1, <2>5 DEF MouseTalks, MouseAsked, Plug
      <4> QED BY <1>1, <2>2, <3>2, <4>1 DEF Talks
    <3> QED BY <3>1, <3>2
  <2> QED BY <1>1, <1>4, <2>1, <2>4, <2>6 DEF Leading, Resting
(* It starts the queue. *)
<1>5. CASE mode # "queue" /\ taken
  <2>1. exec' = 0 /\ mode' = "queue" /\ running' = "yes"
    BY <1>5 DEF Submit, taken
  <2>2. exec = 0 /\ queue.write = 0
    BY <1>5 DEF CInv, QInv, IInv, StartsEmpty
  <2>3. wanted \in {"none", "on", "off"} /\ wire \in Seq(WireBytes) /\ phase \in 0 .. 2 /\ Rests
        /\ strays \in Nat
    BY <1>5 DEF CInv, Basics, Lights, QInv, Shapes, Resting
  <2> DEFINE from == IF count = 0 THEN "new" ELSE IF device = "keyboard" THEN "done" ELSE "dirty"
  <2>4. PICK l \in Labels : l.stage = from /\ l.lamps = wanted
    <3>1. from \in Stages
      BY DEF Stages
    <3> HIDE DEF from
    <3> QED BY <2>3, <3>1, LabelParts
  <2>5. /\ from \in Between /\ (device = "keyboard" => from \in {"new", "done"})
        /\ (from = "new" <=> count = 0) /\ (device = "mouse" => from \in {"new", "dirty"})
    BY <1>2 DEF Between
  <2> HIDE DEF from
  <2>6. Leads(device, queue, exec, l, l)
    BY <2>2, <2>4, LeadsStart
  <2>7. PICK k \in Labels : Leads(device, queue', exec, l, k) /\ Goal(k)'
    <3>1. device = "keyboard" => l.stage # "dirty" /\ l.lamps = wanted
      BY <2>4, <2>5
    <3> QED BY <1>3, <1>5, <2>4, <2>5, <2>6, <3>1
  <2>8. Talks(l)'
    <3>1. CASE device = "keyboard"
      <4>1. strays > 0 => l.stage \notin {"new", "check"}
        BY <2>4, <2>5, <3>1 DEF CInv, Untouched
      <4>2. KeyRests
        BY <2>3, <3>1 DEF Rests
      <4>3. KeyTalks(l)'
        <5>1. option \in BOOLEAN /\ l.stage \notin {"led", "check"}
          BY <2>4, <2>5, <3>1 DEF CInv, Basics
        <5>2. strays = 0 => Quiet(l) /\ Unanswered /\ KeysOnly(wire)
          BY <2>4, <4>2, <5>1 DEF KeyRests, Quiet
        <5> QED BY <1>1, <2>1, <4>1, <5>1, <5>2 DEF KeyTalks, Quiet, Unanswered
      <4> QED BY <1>1, <3>1, <4>3 DEF Talks
    <3>2. CASE device = "mouse"
      <4>1. MouseRests
        BY <2>3, <3>2 DEF Rests
      <4>2. l.stage = "new" => wire = <<>> /\ ~enabled
        BY <2>4, <2>5, <3>2 DEF CInv, Untouched
      <4>3. NoAnswers(wire, 1, Len(wire))
        <5>1. Reports(wire, 0, phase) \/ wire = <<"AA", "00">> \/ wire = <<"00">>
          BY <1>5, <4>1 DEF MouseRests, Plug, CInv, QInv, Shapes
        <5> QED BY <2>3, <5>1, ReportsNoAnswers, NoAnswersShort
      <4>4. MouseTalks(l)'
        <5>1. out = "none" /\ l.stage # "done"
          BY <2>4, <2>5, <3>2, <4>1 DEF MouseRests
        <5> QED BY <1>1, <2>1, <4>2, <4>3, <5>1 DEF MouseTalks
      <4> QED BY <1>1, <3>2, <4>4 DEF Talks
    <3> QED BY <1>2, <3>1, <3>2
  <2>9. Leads(device', queue', exec', l, k)
    BY <1>1, <2>1, <2>2, <2>7
  <2> QED BY <2>1, <2>4, <2>7, <2>8, <2>9 DEF Leading, Resting
(* Nothing was handed in. *)
<1>6. CASE mode # "queue" /\ ~taken
  <2>1. mode' = mode /\ wanted' = wanted
    BY <1>1, <1>6 DEF Submit, taken
  <2>2. Rests'
    BY <1>1, <1>6, <2>1 DEF CInv, Resting, Rests, KeyRests, MouseRests, Unanswered, Plug
  <2> QED BY <1>6, <2>1, <2>2 DEF Leading, Resting
<1> QED BY <1>4, <1>5, <1>6

-----------------------------------------------------------------------------
(* The rest of the invariant. *)
LEMMA SmallStep ==
  ASSUME CInv, ClientNext
  PROVE  WaitsRight' /\ Untouched' /\ NoBreakpoint'
<1> USE DEF WaitsRight, Untouched, NoBreakpoint
<1>1. CASE \E batch \in Batches : Submit(batch)
  <2>1. PICK batch \in Batches : Submit(batch)
    BY <1>1
  <2>2. /\ running = "no" /\ running' \in {"no", "yes"} /\ count' = count + 1 /\ count \in Nat
        /\ waiting' = waiting /\ queue' = PutAll(queue, batch)
    BY <2>1 DEF Submit, CInv, Basics
  <2>3. CASE mode = "queue"
    <3>1. exec' = exec /\ mode' = "queue"
      BY <2>1, <2>3 DEF Submit
    <3>2. /\ queue \in Queues /\ ~queue.full /\ exec \in 0 .. Size - 1 /\ Filled(queue, exec)
          /\ IsBatch(batch) /\ Command.op \in DOMAIN Words /\ queue.ring[queue.write] = ToNormal
      BY <2>2, <2>3, WaitsFor, BatchAssumption DEF CInv, QInv, Shapes, Batches, IsBatch
    <3>3. exec # queue.write
      BY <3>2, OwnCells, WordCounts DEF Command
    <3>4. InUse(queue, exec, exec)
      <4>1. queue.write \in 0 .. Size - 1
        BY <3>2 DEF Queues
      <4> QED BY <3>2, <3>3, <4>1, SizeAssumption DEF InUse
    <3>5. Command' = Command
      BY <2>2, <3>1, <3>2, <3>4, PutAllHolds DEF Command
    <3> QED BY <2>2, <2>3, <3>1, <3>5 DEF CInv
  <2>4. CASE mode # "queue"
    <3>1. mode' = mode \/ running' = "yes"
      BY <2>1, <2>4 DEF Submit
    <3> QED BY <2>2, <2>4, <3>1
  <2> QED BY <2>3, <2>4
<1>2. CASE ToNormalMode \/ RestoreStart \/ WaitBufEmpty \/ NoAnswer
  <2>1. /\ running = "yes" /\ (mode' = "normal" \/ running' = "yes")
        /\ running' \in {"no", "yes"} /\ count' = count
    BY <1>2 DEF ToNormalMode, RestoreStart, WaitBufEmpty, NoAnswer, histories
  <2>2. count # 0
    BY <2>1 DEF CInv
  <2> QED BY <2>1, <2>2
<1>3. CASE SendAndWait \/ WaitForByte
  <2>1. /\ running = "yes" /\ running' = "no" /\ UNCHANGED <<queue, exec, count>>
        /\ Command.op \in {"AckSendData", "ResetCommand", "RecieveCheck"}
        /\ waiting' = (IF Command.op = "ResetCommand" THEN "reset"
                       ELSE IF Command.op = "AckSendData" THEN "ack" ELSE "check")
    BY <1>3 DEF SendAndWait, WaitForByte, histories
  <2>2. count # 0 /\ Command' = Command
    BY <2>1 DEF CInv, Command
  <2> QED BY <2>1, <2>2
<1>4. CASE GetAnswer
  <2>1. mode = "queue" /\ running' = "yes" /\ count' = count
    BY <1>4 DEF GetAnswer, histories
  <2> QED BY <2>1 DEF CInv
<1>5. CASE GetNack
  <2>1. mode = "queue" /\ UNCHANGED <<queue, exec, mode, waiting, running, count>>
    BY <1>5 DEF GetNack, histories
  <2>2. Command' = Command
    BY <2>1 DEF Command
  <2> QED BY <2>1, <2>2 DEF CInv
<1>6. ASSUME NEW byte, GetOther(byte) PROVE WaitsRight' /\ Untouched' /\ NoBreakpoint'
  <2>1. mode = "queue" /\ running = "no" /\ UNCHANGED <<mode, waiting, count>>
    BY <1>6 DEF GetOther, Comes
  <2>2. CASE device = "keyboard"
    <3>1. running' = "yes"
      BY <1>6, <2>2, KeyOther
    <3> QED BY <2>1, <3>1 DEF CInv
  <2>3. CASE device = "mouse"
    <3>1. running' = "no"
      BY <1>6, <2>3, MouseOther
    <3>2. UNCHANGED <<queue, exec>>
      BY <1>6, <2>3, <3>1 DEF GetOther
    <3>3. Command' = Command
      BY <3>2 DEF Command
    <3> QED BY <2>1, <3>1, <3>3 DEF CInv
  <2> QED BY <2>2, <2>3, DeviceIs
<1>7. ASSUME NEW byte, Key(byte) PROVE WaitsRight' /\ Untouched' /\ NoBreakpoint'
  <2>1. device = "keyboard" /\ mode = "normal" /\ running = "no"
        /\ UNCHANGED <<device, mode, running, out, lamps, enabled, option, wanted, strays, count>>
    BY <1>7 DEF Key, Comes, queueVars, deviceVars, histories
  <2> QED BY <2>1 DEF CInv
<1>8. ASSUME NEW byte, MouseByte(byte) PROVE WaitsRight' /\ Untouched' /\ NoBreakpoint'
  <2>1. count # 0
    BY <1>8, MouseByteStep
  <2>2. mode' \in {"normal", "plugged", mode} /\ mode # "queue" /\ UNCHANGED <<running, count>>
    BY <1>8 DEF MouseByte, histories
  <2> QED BY <2>1, <2>2 DEF CInv
<1>9. CASE Take
  <2>1. out # "none" /\ UNCHANGED <<queue, exec, mode, waiting, running, count>>
    BY <1>9, TakeIs
  <2>2. Command' = Command
    BY <2>1 DEF Command
  <2> QED BY <2>1, <2>2 DEF CInv
<1>10. CASE Use
  <2>1. UNCHANGED <<device, queue, exec, mode, waiting, running, out, lamps, option, wanted, count, strays>>
    BY <1>10, UseIs
  <2>2. Command' = Command
    BY <2>1 DEF Command
  <2>3. device = "keyboard" => UNCHANGED enabled
    BY <1>10, UseIs
  <2>4. device = "mouse" => count # 0
    BY <1>10, MouseUse
  <2> QED BY <2>1, <2>2, <2>3, <2>4, DeviceIs DEF CInv
<1> QED BY <1>1, <1>2, <1>3, <1>4, <1>5, <1>6, <1>7, <1>8, <1>9, <1>10 DEF ClientNext

(* All of it, from the start on. *)
LEMMA ClientStep == CInv /\ [ClientNext]_vars => CInv'
<1> SUFFICES ASSUME CInv, [ClientNext]_vars PROVE CInv'
  OBVIOUS
<1>1. CASE UNCHANGED vars
  BY <1>1 DEF vars, queueVars, deviceVars, histories, CInv, QInv, IInv, StartsEmpty, AtRest, OnlyQueueRuns,
              Shapes, QueueHolds, Command, Basics, WaitsRight, Untouched, NoBreakpoint, Leading, Resting,
              Goal, Talks, KeyTalks, KeyAsked, Quiet, Unanswered, MouseTalks, MouseAsked, Plug,
              Rests, KeyRests, MouseRests
<1>2. CASE ClientNext
  <2>1. Next
    <3>1. CASE \E batch \in Batches : Submit(batch)
      BY <3>1 DEF Next
    <3> QED BY <1>2, <3>1 DEF ClientNext, Next
  <2>2. QInv'
    BY <2>1, QNext DEF CInv
  <2>3. Basics'
    BY <1>2, BasicsKeep DEF CInv
  <2>4. WaitsRight' /\ Untouched' /\ NoBreakpoint'
    BY <1>2, SmallStep
  <2>5. Leading' /\ Resting'
    <3>1. ASSUME NEW byte, GetOther(byte) PROVE Leading' /\ Resting'
      BY <3>1, KeyOther, MouseOther, DeviceIs
    <3>2. CASE Take
      BY <3>2, KeyTake, MouseTake, DeviceIs
    <3>3. CASE Use
      BY <3>3, KeyUse, MouseUse, DeviceIs
    <3>4. CASE \E batch \in Batches : Submit(batch) /\ (batch \in {Reset, MouseReset} => count = 0)
      BY <3>4, SubmitStep
    <3>5. CASE ToNormalMode \/ RestoreStart \/ WaitBufEmpty \/ NoAnswer \/ SendAndWait \/ WaitForByte
      BY <3>5, ToNormalStep, RestoreStep, WaitBufEmptyStep, NoAnswerStep, SendStep, WaitStep
    <3>6. CASE GetAnswer \/ GetNack
      BY <3>6, AnswerStep, NackStep
    <3>7. CASE \E byte \in Range(wire) : Key(byte)
      BY <3>7, KeyStep
    <3>8. CASE \E byte \in Range(wire) : MouseByte(byte)
      BY <3>8, MouseByteStep
    <3> QED BY <1>2, <3>1, <3>2, <3>3, <3>4, <3>5, <3>6, <3>7, <3>8 DEF ClientNext
  <2> QED BY <2>2, <2>3, <2>4, <2>5 DEF CInv
<1> QED BY <1>1, <1>2

LEMMA ClientInit == Init => CInv
<1> SUFFICES ASSUME Init PROVE CInv
  OBVIOUS
<1>1. QInv
  BY QInit
<1>2. /\ device \in {"keyboard", "mouse"} /\ mode = "normal" /\ waiting = "ack" /\ running = "no"
      /\ phase = 0 /\ out = "none" /\ wire = <<>>
      /\ lamps = "none" /\ enabled = FALSE /\ option = FALSE
      /\ wanted = "none" /\ count = 0 /\ strays = 0
  BY DEF Init
<1>3. Basics
  BY <1>2, ShortWires DEF Basics, Lights
<1>4. WaitsRight /\ Untouched /\ NoBreakpoint /\ Leading
  BY <1>2 DEF WaitsRight, Untouched, NoBreakpoint, Leading
<1>5. Resting
  BY <1>2, KeysOnlyWire, ReportsEnd DEF Resting, Rests, KeyRests, MouseRests, Unanswered, Answered
<1> QED BY <1>1, <1>3, <1>4, <1>5 DEF CInv

LEMMA ClientInvariance == ClientSpec => []CInv
BY ClientInit, ClientStep, PTL DEF ClientSpec

(* With the batches of its clients, whatever byte comes when, the driver   *)
(* does not run into the breakpoint of a check, although a key may come    *)
(* instead of an answer (keymos0.ask, the check of quecmd_RecieveCheck).   *)
THEOREM ClientsNoBreakpoint == ClientSpec => []NoBreakpoint
<1>1. CInv => NoBreakpoint
  BY DEF CInv
<1> QED BY <1>1, ClientInvariance, PTL

(* When the queue has ended the LEDs are what was asked for last, however  *)
(* often the keyboard asked for a byte again, unless a key was taken for   *)
(* an answer (keymos0.ask, quecmd_AckSendData and what it goes on with).   *)
THEOREM ClientsLamps == ClientSpec => []LampsAreRight
<1>1. CInv => LampsAreRight
  <2> SUFFICES ASSUME CInv, device = "keyboard", Decoded PROVE lamps = wanted
    BY DEF LampsAreRight
  <2>1. mode # "queue" /\ strays = 0
    BY DEF Decoded
  <2>2. KeyRests
    BY <2>1 DEF CInv, Resting, Rests
  <2> QED BY <2>1, <2>2 DEF KeyRests
<1> QED BY <1>1, ClientInvariance, PTL

(* What comes to a decoder is a key, or the byte of a report it has got    *)
(* to, or says that a mouse was plugged in: the queue has taken every      *)
(* answer, unless it took a key for one (keymos0.ask, KeyIntDrv_Normal,    *)
(* MouseIntDrv_Phase0 to Phase3 and quecmd_tonormal).                      *)
THEOREM ClientsAnswers == ClientSpec => []AnswersAreNotKeys
<1>1. CInv => AnswersAreNotKeys
  <2> SUFFICES ASSUME CInv, Decoded, wire # <<>>
               PROVE  CASE device = "keyboard" -> Head(wire) = "key"
                        [] mode = "plugged"    -> Head(wire) = "00"
                        [] phase > 0           -> Head(wire) = Report[phase + 1]
                        [] OTHER               -> Head(wire) \in {"p1", "AA"}
    BY DEF AnswersAreNotKeys
  <2>1. /\ mode \in {"normal", "plugged"} /\ strays = 0 /\ wire \in Seq(WireBytes)
        /\ phase \in 0 .. 2 /\ Rests
    BY DEF Decoded, CInv, Basics, QInv, Shapes, Resting
  <2>2. CASE device = "keyboard"
    <3>1. KeysOnly(wire) /\ mode = "normal" /\ ~(phase > 0)
      BY <2>1, <2>2 DEF Rests, KeyRests, CInv, Basics
    <3>2. Head(wire) = "key"
      BY <2>1, <3>1, KeysOnlyWire
    <3> QED BY <2>2, <3>1, <3>2
  <2>3. CASE device = "mouse"
    <3>1. MouseRests
      BY <2>1, <2>3 DEF Rests
    <3>2. CASE mode = "plugged"
      <4>1. Head(wire) = "00" /\ phase = 0
        BY <3>1, <3>2, ShortWires DEF MouseRests
      <4> QED BY <2>3, <3>2, <4>1
    <3>3. CASE mode = "normal"
      <4>1. Head(wire) = Report[phase + 1] \/ (Head(wire) = "AA" /\ phase = 0)
        BY <2>1, <3>1, <3>3, ReportsHead, ShortWires DEF MouseRests, Plug
      <4>2. phase = 0 => Report[phase + 1] = "p1"
        BY ReportParts
      <4>3. CASE phase > 0
        <5>1. Head(wire) = Report[phase + 1]
          BY <4>1, <4>3
        <5> QED BY <2>3, <3>3, <4>3, <5>1
      <4>4. CASE phase = 0
        <5>1. Head(wire) \in {"p1", "AA"} /\ ~(phase > 0)
          BY <4>1, <4>2, <4>4
        <5> QED BY <2>3, <3>3, <5>1
      <4> QED BY <2>1, <4>3, <4>4
    <3> QED BY <2>1, <3>2, <3>3
  <2> QED BY <2>2, <2>3, DeviceIs
<1> QED BY <1>1, ClientInvariance, PTL

=============================================================================
