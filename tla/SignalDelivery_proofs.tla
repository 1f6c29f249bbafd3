------------------------ MODULE SignalDelivery_proofs ------------------------
(***************************************************************************)
(* For boxes of every size, senders that send at any time and programs     *)
(* that wait in every way: the masks of the soft interrupt add up.  Since  *)
(* softint_nest is a byte to which 128, 2, 1 and -1 are added by callers   *)
(* that know nothing of each other, this needs that they exclude each      *)
(* other the right way, which is what IInv says.                           *)
(*                                                                         *)
(* For boxes of every size and calm senders (CalmSenders): no wakeup is    *)
(* lost, the counts of free words are exact, and the boxes are a mailbox.  *)
(* This needs to know what lies in each cell of both boxes, which is what  *)
(* Inv says.  Only this part uses CalmAssumption, through LengthFacts.     *)
(***************************************************************************)
EXTENDS CalmSenders, TLAPS, NaturalsInduction, WellFoundedInduction, SequenceTheorems

Phases == {"user", "enter", "given", "slept", "woken", "leave"}

(* The calls the program and the handler make.                             *)
CallOK ==
  \/ call.op = "none" /\ call.al = 0
  \/ call.op = "nest" /\ call.al \in {2, 128}
  \/ call.op = "ret"  /\ call.al \in {1, 255}

Shape ==
  /\ nest \in 0 .. 255
  /\ request \in BOOLEAN /\ iret \in BOOLEAN /\ boxfull \in BOOLEAN
  /\ phase \in Phases
  /\ CallOK

(* Who is where: the handler waits for its return only after its run, and  *)
(* no shell call of the program is open while it runs.                     *)
Places ==
  /\ iret \/ call.op = "ret" => handler = "left"
  /\ handler = "read" => call.op = "none" /\ ~request

(* While the program's box is full no soft interrupt is asked for; only    *)
(* then does the handler return with -1 more.                              *)
FullMasks ==
  /\ boxfull => ~request /\ handler # "read"
  /\ call.op = "ret" /\ call.al = 255 => boxfull

IInv == Shape /\ Places /\ FullMasks /\ MasksAddUp

(* The right-hand side of MasksAddUp. *)
Masks == MaskOf(phase \in {"enter", "given", "woken"}, 128)
           + MaskOf(request \/ handler = "read", 255)
           + MaskOf(boxfull, 254)

LEMMA ByteIsByte ==
  ASSUME NEW n \in Int
  PROVE  Byte(n) \in 0 .. 255
BY SMT DEF Byte

-----------------------------------------------------------------------------
(* Sending a signal into a ring keeps its count of free words exact,       *)
(* whether the signal fits before the end, after a rewind or not at all,   *)
(* and never writes over what the reader at p has not read: the ring keeps *)
(* one word more than the writer may be ahead.                             *)
THEOREM SendIntoIsExact ==
  ASSUME NEW size \in Nat, NEW reserve \in {0, 1}, NEW p \in 0 .. size - 1,
         NEW ring, ring.write \in 0 .. size - 1, ring.free \in reserve .. size,
         NEW words, Len(words) \in Nat,
         ring.free = size - 1 + reserve - Behind(p, ring.write, size)
  PROVE  LET new == SendInto(ring, words, size, reserve).box IN
         /\ new.write \in 0 .. size - 1
         /\ new.free \in reserve .. size
         /\ new.free = size - 1 + reserve - Behind(p, new.write, size)
<1> DEFINE n       == Len(words)
           wraps   == ring.write + n >= size
           skipped == IF wraps THEN size - ring.write ELSE 0
           start   == IF wraps THEN 0 ELSE ring.write
           free    == ring.free - skipped
           new     == SendInto(ring, words, size, reserve).box
           Exact(at, left) == /\ at \in 0 .. size - 1
                              /\ left \in reserve .. size
                              /\ left = size - 1 + reserve - Behind(p, at, size)
           w       == ring.write
           f       == ring.free
<1> SUFFICES Exact(new.write, new.free)
  OBVIOUS
<1>1. w \in 0 .. size - 1 /\ f \in reserve .. size /\ n \in Nat /\ size \in Nat
      /\ f = size - 1 + reserve - Behind(p, w, size)
  OBVIOUS
<1>2. \/ new.write = w /\ new.free = f
      \/ ~(wraps /\ free < reserve) /\ new.write = start /\ new.free = free
      \/ ~(wraps /\ free < reserve) /\ free - n >= reserve
           /\ new.write = start + n /\ new.free = free - n
  <2>1. free \in Int /\ reserve \in Int
    BY <1>1
  <2> QED BY <2>1 DEF SendInto, Failure
<1>3. Exact(w, f)
  BY <1>1
<1>4. \/ wraps /\ free < reserve
      \/ Exact(start, free)
  <2>1. CASE ~wraps
    <3>1. free = f /\ start = w
      BY <1>1, <2>1
    <3> HIDE DEF n, wraps, skipped, start, free, new, w, f, Exact
    <3> QED BY <1>3, <3>1
  <2>2. CASE wraps
    <3>1. free = f - (size - w) /\ start = 0
      BY <1>1, <2>2
    <3>2. CASE f - (size - w) >= reserve
      <4>1. Exact(0, f - (size - w))
        <5> HIDE DEF n, wraps, skipped, start, free, new, w, f
        <5> QED BY <1>1, <3>2, SMT DEF Behind
      <4> HIDE DEF n, wraps, skipped, start, free, new, w, f, Exact
      <4> QED BY <3>1, <4>1
    <3>3. CASE f - (size - w) < reserve
      <4> HIDE DEF n, wraps, skipped, start, free, new, w, f, Exact
      <4> QED BY <2>2, <3>1, <3>3
    <3>4. f - (size - w) \in Int /\ reserve \in Int
      BY <1>1
    <3> HIDE DEF n, wraps, skipped, start, free, new, w, f, Exact
    <3> QED BY <3>2, <3>3, <3>4
  <2> QED BY <2>1, <2>2
<1>5. ASSUME Exact(start, free), free - n >= reserve
      PROVE  Exact(start + n, free - n)
  <2>1. start \in 0 .. size - 1 /\ free \in reserve .. size
        /\ free = size - 1 + reserve - Behind(p, start, size)
    BY <1>5
  <2>2. p \in 0 .. size - 1 /\ reserve \in {0, 1}
    OBVIOUS
  <2>3. start + n < size
    <3>1. CASE ~wraps
      BY <1>1, <3>1
    <3>2. CASE wraps
      <4>1. start = 0
        BY <3>2
      <4>2. Behind(p, start, size) >= 0
        BY <1>1, <2>2, <4>1 DEF Behind
      <4>3. Behind(p, start, size) \in Int
        BY <1>1, <2>2, <4>1 DEF Behind
      <4> HIDE DEF n, wraps, skipped, start, free, new, w, f
      <4> QED BY <1>1, <1>5, <2>1, <2>2, <4>1, <4>2, <4>3, SMTT(30)
    <3> QED BY <3>1, <3>2
  <2> HIDE DEF n, wraps, skipped, start, free, new, w, f
  <2> QED BY <1>1, <1>5, <2>1, <2>2, <2>3, SMT DEF Behind
<1> HIDE DEF n, wraps, skipped, start, free, new, w, f, Exact
<1> QED BY <1>2, <1>3, <1>4, <1>5

-----------------------------------------------------------------------------
(* Nothing masks, as the kernel finds it, exactly when nothing should: a   *)
(* byte of 0 is never the sum of masks that wrapped.                       *)
LEMMA ZeroMeansUnmasked ==
  ASSUME IInv, Byte(nest + call.al) = 0
  PROVE  ~request /\ handler # "read" /\ ~boxfull
<1>1. Byte(Masks) = 0
  BY DEF IInv, MasksAddUp, Masks
<1>2. ~(request \/ handler = "read") /\ ~boxfull
  <2>1. Masks \in {0, 128, 254, 255, 382, 383, 509, 637}
    BY DEF Masks, MaskOf
  <2>2. Masks \in {0}
    BY <1>1, <2>1, SMT DEF Byte, Masks, MaskOf, IInv, FullMasks
  <2> QED BY <2>2 DEF Masks, MaskOf
<1> QED BY <1>2

LEMMA ZeroNestMeansUnmasked ==
  ASSUME IInv, nest = 0
  PROVE  /\ ~request /\ handler # "read" /\ ~boxfull
         /\ call.op # "ret"
         /\ call.al = 128 => phase \in {"enter", "given", "woken"}
<1>1. /\ call.al \in {0, 1, 2, 128, 255}
      /\ call.al \in {1, 255} => call.op = "ret"
  BY DEF IInv, Shape, CallOK
<1>2. Byte(call.al) = Byte(Masks)
  BY <1>1 DEF IInv, MasksAddUp, Masks
<1>3. Masks \in {0, 128, 254, 255, 382, 383, 509, 637}
  BY DEF Masks, MaskOf
<1>4. \/ Masks = 0 /\ call.al = 0
      \/ Masks = 128 /\ call.al = 128
      \/ Masks = 255 /\ call.al = 255
  BY <1>1, <1>2, <1>3, SMT DEF Byte
<1>5. ASSUME Masks = 255 /\ call.al = 255
      PROVE  FALSE
  <2>1. boxfull /\ ~request /\ handler # "read"
    BY <1>1, <1>5 DEF IInv, FullMasks, Places
  <2> QED BY <1>5, <2>1 DEF Masks, MaskOf
<1>6. call.al \in {0, 128} => call.op # "ret"
  BY DEF IInv, Shape, CallOK
<1> QED BY <1>4, <1>5, <1>6 DEF Masks, MaskOf

(* And nothing masks a program that sleeps.                                *)
LEMMA AsleepMeansUnmasked ==
  ASSUME IInv, phase = "slept", ~request, handler # "read", ~boxfull, call.op = "none"
  PROVE  nest = 0
<1>1. call.al = 0 /\ nest \in 0 .. 255
  BY DEF IInv, Shape, CallOK
<1>2. Byte(nest + 0) = Byte(0 + 0 + 0)
  BY <1>1 DEF IInv, MasksAddUp, MaskOf
<1> QED BY <1>1, <1>2, SMT DEF Byte

-----------------------------------------------------------------------------
(* The variables the invariant speaks of, except the level.                *)
maskVars == <<nest, request, iret, call, handler, phase, boxfull>>

LEMMA UnchangedKeeps ==
  ASSUME IInv, UNCHANGED maskVars
  PROVE  IInv'
BY DEF maskVars, IInv, Shape, CallOK, Places, FullMasks, MasksAddUp, Phases

(* A sender masks and requests in one step, only when nothing masks.       *)
LEMMA RequestKeeps ==
  ASSUME IInv, RequestSoftint, UNCHANGED <<iret, call, handler, phase, boxfull>>
  PROVE  IInv'
<1>1. CASE nest # 0
  <2>1. UNCHANGED maskVars
    BY <1>1 DEF RequestSoftint, maskVars, IInv, Shape
  <2> QED BY <2>1, UnchangedKeeps
<1>2. CASE nest = 0
  <2>1. ~request /\ handler # "read" /\ ~boxfull
    BY <1>2, ZeroNestMeansUnmasked
  <2>2. nest' = 255 /\ request' = TRUE
    BY <1>2 DEF RequestSoftint
  <2>3. Shape' /\ Places' /\ FullMasks'
    BY <2>1, <2>2 DEF IInv, Shape, CallOK, Places, FullMasks, Phases
  <2>4. call.al \in 0 .. 255
    BY DEF IInv, Shape, CallOK
  <2>5. Byte(call.al) = Byte(MaskOf(phase \in {"enter", "given", "woken"}, 128))
    BY <1>2, <2>1, <2>4 DEF IInv, MasksAddUp, MaskOf
  <2>6. Byte(255 + call.al) = Byte(MaskOf(phase \in {"enter", "given", "woken"}, 128) + 255)
    BY <2>4, <2>5, SMT DEF Byte, MaskOf
  <2>7. MasksAddUp'
    BY <2>1, <2>2, <2>6 DEF MasksAddUp, MaskOf
  <2> QED BY <2>3, <2>7 DEF IInv
<1> QED BY <1>1, <1>2

(* The kernel adds what the call says; if that leaves nothing and signals  *)
(* are there, it masks and requests.                                       *)
LEMMA CallKeeps ==
  ASSUME IInv, call.op # "none",
         \/ Byte(nest + call.al) = 0 /\ nest' = 255 /\ request' = TRUE
         \/ nest' = Byte(nest + call.al) /\ request' = request,
         call' = NoCall,
         iret' \in {iret, call.op = "ret"},
         UNCHANGED <<handler, phase, boxfull>>
  PROVE  IInv'
<1>1. nest \in 0 .. 255 /\ call.al \in 0 .. 255 /\ Byte(nest + call.al) \in 0 .. 255
  <2>1. nest \in 0 .. 255 /\ call.al \in 0 .. 255
    BY DEF IInv, Shape, CallOK
  <2>2. nest + call.al \in Int
    BY <2>1
  <2> QED BY <2>1, <2>2, ByteIsByte
<1>2. handler # "read"
  BY DEF IInv, Places
<1>3. iret' \in BOOLEAN /\ (iret' => handler = "left")
  BY DEF IInv, Shape, Places
<1>4. call'.op = "none" /\ call'.al = 0
  BY DEF NoCall
<1>5. CASE Byte(nest + call.al) = 0 /\ nest' = 255 /\ request' = TRUE
  <2>1. ~request /\ ~boxfull
    BY <1>5, ZeroMeansUnmasked
  <2>2. Shape' /\ Places' /\ FullMasks'
    BY <1>2, <1>3, <1>4, <1>5, <2>1 DEF IInv, Shape, CallOK, Places, FullMasks, Phases
  <2>3. 0 = Byte(MaskOf(phase \in {"enter", "given", "woken"}, 128))
    BY <1>2, <1>5, <2>1 DEF IInv, MasksAddUp, MaskOf
  <2>4. Byte(255 + 0) = Byte(MaskOf(phase \in {"enter", "given", "woken"}, 128) + 255)
    BY <2>3, SMT DEF Byte, MaskOf
  <2>5. MasksAddUp'
    BY <1>4, <1>5, <2>1, <2>4 DEF MasksAddUp, MaskOf
  <2> QED BY <2>2, <2>5 DEF IInv
<1>6. CASE nest' = Byte(nest + call.al) /\ request' = request
  <2>1. Shape' /\ Places' /\ FullMasks'
    BY <1>1, <1>2, <1>3, <1>4, <1>6 DEF IInv, Shape, CallOK, Places, FullMasks, Phases
  <2>2. Byte(Byte(nest + call.al) + 0) = Byte(nest + call.al)
    BY <1>1, SMT DEF Byte
  <2>3. MasksAddUp'
    BY <1>4, <1>6, <2>2 DEF IInv, MasksAddUp
  <2> QED BY <2>1, <2>3 DEF IInv
<1> QED BY <1>5, <1>6

LEMMA NoCallIsNoAddNest ==
  ASSUME NEW n, NEW l
  PROVE  AddNest(n, l).op = "nest" /\ AddNest(n, l).al = n /\ AddNest(n, l) # NoCall
<1>1. AddNest(n, l).op = "nest" /\ AddNest(n, l).al = n
  BY DEF AddNest
<1>2. NoCall.op = "none"
  BY DEF NoCall
<1> QED BY <1>1, <1>2

(* The program calls when no call is open; what its phase adds to the      *)
(* masks is what the call adds.                                            *)
LEMMA ProgramCallKeeps ==
  ASSUME IInv, Running,
         UNCHANGED <<nest, request, iret, handler>>,
         phase' \in Phases,
         \/ /\ call' = NoCall /\ boxfull' = boxfull
            /\ phase \in {"enter", "given", "woken"} <=> phase' \in {"enter", "given", "woken"}
         \/ /\ call' = AddNest(2, "keep") /\ boxfull /\ boxfull' = FALSE
            /\ phase \in {"enter", "given", "woken"} <=> phase' \in {"enter", "given", "woken"}
         \/ /\ call'.op = "nest" /\ call'.al = 128
            /\ boxfull' = boxfull
            /\ phase \in {"enter", "given", "woken"} <=> phase' \notin {"enter", "given", "woken"}
  PROVE  IInv'
<1> DEFINE P  == phase \in {"enter", "given", "woken"}
           Pn == phase' \in {"enter", "given", "woken"}
<1>1. call.op = "none" /\ call.al = 0 /\ handler = "out" /\ ~request /\ nest \in 0 .. 255
  BY DEF Running, NoCall, IInv, Shape
<1>2. nest = Byte(MaskOf(P, 128) + MaskOf(boxfull, 254))
  <2>1. Byte(nest + 0) = Byte(MaskOf(P, 128) + 0 + MaskOf(boxfull, 254))
    BY <1>1 DEF IInv, MasksAddUp, MaskOf
  <2>2. MaskOf(P, 128) \in Int /\ MaskOf(boxfull, 254) \in Int
    BY DEF MaskOf
  <2> HIDE DEF P
  <2> QED BY <1>1, <2>1, <2>2, SMT DEF Byte
<1>3. CASE /\ call' = NoCall
           /\ boxfull' = boxfull
           /\ P <=> Pn
  <2>1. Shape' /\ Places' /\ FullMasks'
    BY <1>1, <1>3 DEF IInv, Shape, CallOK, Places, FullMasks, NoCall
  <2>2. MasksAddUp'
    BY <1>1, <1>3 DEF IInv, MasksAddUp, MaskOf, NoCall
  <2> QED BY <2>1, <2>2 DEF IInv
<1>4. CASE /\ call' = AddNest(2, "keep") /\ boxfull /\ boxfull' = FALSE
           /\ P <=> Pn
  <2>1. call'.op = "nest" /\ call'.al = 2
    BY <1>4 DEF AddNest
  <2>2. Shape' /\ Places' /\ FullMasks'
    BY <1>1, <1>4, <2>1 DEF IInv, Shape, CallOK, Places, FullMasks
  <2>3. nest = Byte(MaskOf(P, 128) + 254)
    BY <1>2, <1>4 DEF MaskOf
  <2>4. MaskOf(P, 128) \in Int /\ MaskOf(Pn, 128) = MaskOf(P, 128)
    BY <1>4 DEF MaskOf
  <2>5. Byte(nest + 2) = Byte(MaskOf(Pn, 128) + 0 + 0)
    <3> HIDE DEF P, Pn
    <3> QED BY <2>3, <2>4, SMT DEF Byte
  <2>6. MasksAddUp'
    BY <1>1, <1>4, <2>1, <2>5 DEF MasksAddUp, MaskOf
  <2> QED BY <2>2, <2>6 DEF IInv
<1>5. CASE /\ call'.op = "nest" /\ call'.al = 128
           /\ boxfull' = boxfull
           /\ P <=> ~Pn
  <2>1. Shape' /\ Places' /\ FullMasks'
    BY <1>1, <1>5 DEF IInv, Shape, CallOK, Places, FullMasks
  <2>2. MaskOf(P, 128) \in {0, 128} /\ MaskOf(Pn, 128) = 128 - MaskOf(P, 128)
    BY <1>5 DEF MaskOf
  <2>3. MaskOf(boxfull, 254) \in Int
    BY DEF MaskOf
  <2>4. Byte(nest + 128) = Byte(MaskOf(Pn, 128) + 0 + MaskOf(boxfull, 254))
    <3> HIDE DEF P, Pn
    <3> QED BY <1>2, <2>2, <2>3, SMT DEF Byte
  <2>5. MasksAddUp'
    BY <1>1, <1>5, <2>4 DEF MasksAddUp, MaskOf
  <2> QED BY <2>1, <2>5 DEF IInv
<1> QED BY <1>3, <1>4, <1>5

(* The handler leaves: it gives back the -1 of its request with its call,  *)
(* or takes another -1 for the box it has marked full.                     *)
LEMMA HandlerCallKeeps ==
  ASSUME IInv, Handling, handler' = "left",
         UNCHANGED <<nest, request, iret, phase>>,
         call'.op = "ret",
         \/ call'.al = 1 /\ boxfull' = boxfull
         \/ call'.al = 255 /\ boxfull' = TRUE
  PROVE  IInv'
<1> DEFINE P == phase \in {"enter", "given", "woken"}
<1>1. /\ call.op = "none" /\ call.al = 0 /\ handler = "read" /\ ~request
      /\ nest \in 0 .. 255 /\ ~boxfull
  BY DEF Handling, NoCall, IInv, Shape, FullMasks
<1>2. MaskOf(P, 128) \in {0, 128}
  BY DEF MaskOf
<1>3. Byte(nest + 0) = Byte(MaskOf(P, 128) + 255 + 0)
  BY <1>1 DEF IInv, MasksAddUp, MaskOf
<1>4. Shape' /\ Places' /\ FullMasks'
  <2>1. Shape'
    <3>1. CallOK'
      BY <1>1 DEF CallOK
    <3>2. nest' \in 0 .. 255 /\ request' \in BOOLEAN /\ iret' \in BOOLEAN /\ phase' \in Phases
      BY <1>1 DEF IInv, Shape
    <3>3. boxfull' \in BOOLEAN
      <4>1. boxfull' = FALSE \/ boxfull' = TRUE
        <5>1. boxfull \in BOOLEAN
          BY DEF IInv, Shape
        <5> QED BY <1>1, <5>1
      <4> QED BY <4>1
    <3> QED BY <3>1, <3>2, <3>3 DEF Shape
  <2>2. Places'
    BY <1>1 DEF Places
  <2>3. FullMasks'
    BY <1>1 DEF FullMasks
  <2> QED BY <2>1, <2>2, <2>3
<1>5. Byte(nest + 1) = Byte(MaskOf(P, 128) + 0 + 0)
  <2> HIDE DEF P
  <2> QED BY <1>1, <1>2, <1>3, SMT DEF Byte
<1>6. Byte(nest + 255) = Byte(MaskOf(P, 128) + 0 + 254)
  <2> HIDE DEF P
  <2> QED BY <1>1, <1>2, <1>3, SMT DEF Byte
<1>7. MasksAddUp'
  BY <1>1, <1>5, <1>6 DEF MasksAddUp, MaskOf
<1> QED BY <1>4, <1>7 DEF IInv

-----------------------------------------------------------------------------
LEMMA InitIInv == Init => IInv
<1> SUFFICES ASSUME Init PROVE IInv
  OBVIOUS
<1>1. call.op = "none" /\ call.al = 0
  BY DEF Init, NoCall
<1>2. Shape
  <2>1. nest = 0 /\ request = FALSE /\ iret = FALSE /\ boxfull = FALSE /\ phase = "user"
    BY DEF Init
  <2>2. CallOK
    BY <1>1 DEF CallOK
  <2>3. nest \in 0 .. 255
    BY <2>1
  <2>4. request \in BOOLEAN /\ iret \in BOOLEAN /\ boxfull \in BOOLEAN /\ phase \in Phases
    BY <2>1 DEF Phases
  <2> QED BY <2>2, <2>3, <2>4 DEF Shape
<1>3. Places /\ FullMasks
  BY <1>1 DEF Init, Places, FullMasks
<1>4. MasksAddUp
  BY <1>1 DEF Init, MasksAddUp, MaskOf
<1> QED BY <1>2, <1>3, <1>4 DEF IInv

LEMMA NextIInv == IInv /\ [Next]_vars => IInv'
<1> SUFFICES ASSUME IInv, [Next]_vars PROVE IInv'
  OBVIOUS
<1> USE DEF kernelVars, handlerVars, boxVars, programVars
<1>1. CASE SignalMessage
  <2>1. RequestSoftint /\ UNCHANGED <<iret, call, handler, phase, boxfull>>
    BY <1>1 DEF SignalMessage, Send
  <2> QED BY <2>1, RequestKeeps
<1>2. CASE SignalMessage2
  <2>1. RequestSoftint /\ UNCHANGED <<iret, call, handler, phase, boxfull>>
    BY <1>2 DEF SignalMessage2, SendWithWait
  <2> QED BY <2>1, RequestKeeps
<1>3. CASE AddNestSleep
  BY <1>3, CallKeeps DEF AddNestSleep
<1>4. CASE SoftintReturn
  BY <1>4, CallKeeps DEF SoftintReturn
<1>5. CASE EnterHandler
  <2>1. /\ request /\ request' = FALSE /\ iret' = FALSE /\ handler' = "read" /\ call = NoCall
        /\ UNCHANGED <<nest, call, phase, boxfull>>
    BY <1>5 DEF EnterHandler
  <2>2. Shape'
    BY <2>1 DEF IInv, Shape, CallOK
  <2>3. Places' /\ FullMasks'
    BY <2>1 DEF IInv, Places, FullMasks, NoCall
  <2>4. MasksAddUp'
    BY <2>1 DEF IInv, MasksAddUp, MaskOf
  <2> QED BY <2>2, <2>3, <2>4 DEF IInv
<1>6. CASE LeaveHandler
  <2>1. /\ iret /\ iret' = FALSE /\ ~request /\ handler' = "out" /\ call = NoCall
        /\ UNCHANGED <<nest, request, call, phase, boxfull>>
    BY <1>6 DEF LeaveHandler
  <2>2. handler = "left"
    BY <2>1 DEF IInv, Places
  <2>3. Shape'
    BY <2>1 DEF IInv, Shape, CallOK
  <2>4. Places' /\ FullMasks'
    BY <2>1 DEF IInv, Places, FullMasks, NoCall
  <2>5. MasksAddUp'
    BY <2>1, <2>2 DEF IInv, MasksAddUp, MaskOf
  <2> QED BY <2>3, <2>4, <2>5 DEF IInv
<1>7. CASE BoxFull
  <2>1. Handling /\ handler' = "left" /\ boxfull' = TRUE /\ call' = Softint1Ret(signaldw, 255)
        /\ UNCHANGED <<nest, request, iret, phase>>
    BY <1>7 DEF BoxFull
  <2> QED BY <2>1, HandlerCallKeeps DEF Softint1Ret
<1>8. CASE EndOfRun
  <2>1. Handling /\ handler' = "left" /\ boxfull' = boxfull /\ call' = Softint1Ret(signaldw, 1)
        /\ UNCHANGED <<nest, request, iret, phase>>
    BY <1>8 DEF EndOfRun
  <2> QED BY <2>1, HandlerCallKeeps DEF Softint1Ret
<1>9. CASE WaitSignal
  <2>1. Running /\ phase = "user" /\ phase' = "enter" /\ call' = AddNest(128, "keep")
        /\ UNCHANGED <<nest, request, iret, handler, boxfull>>
    BY <1>9 DEF WaitSignal
  <2> QED BY <2>1, NoCallIsNoAddNest, ProgramCallKeeps DEF Phases
<1>10. CASE GiveWordsBack
  <2>1. Running /\ phase = "enter" /\ phase' = "given" /\ call = NoCall
        /\ UNCHANGED <<nest, request, iret, handler>>
    BY <1>10 DEF GiveWordsBack, Running
  <2>2. \/ boxfull /\ boxfull' = FALSE /\ call' = AddNest(2, "keep")
        \/ boxfull' = boxfull /\ call' = NoCall
    BY <1>10, <2>1 DEF GiveWordsBack
  <2> QED BY <2>1, <2>2, ProgramCallKeeps DEF Phases
<1>11. CASE SleepOrNot
  <2>1. Running /\ phase = "given" /\ phase' \in {"slept", "leave"}
        /\ call' \in {AddNest(128, "keep"), AddNest(128, "sleep")}
        /\ UNCHANGED <<nest, request, iret, handler, boxfull>>
    BY <1>11 DEF SleepOrNot
  <2>2. call'.op = "nest" /\ call'.al = 128
    BY <2>1, NoCallIsNoAddNest
  <2> QED BY <2>1, <2>2, ProgramCallKeeps DEF Phases
<1>12. CASE MaskAgain
  <2>1. Running /\ phase = "slept" /\ phase' = "woken" /\ call' = AddNest(128, "keep")
        /\ UNCHANGED <<nest, request, iret, handler, boxfull>>
    BY <1>12 DEF MaskAgain
  <2> QED BY <2>1, NoCallIsNoAddNest, ProgramCallKeeps DEF Phases
<1>13. CASE EndCommands
  <2>1. Running /\ phase = "woken" /\ phase' = "leave" /\ call' = AddNest(128, "keep")
        /\ UNCHANGED <<nest, request, iret, handler, boxfull>>
    BY <1>13 DEF EndCommands
  <2> QED BY <2>1, NoCallIsNoAddNest, ProgramCallKeeps DEF Phases
<1>14. CASE BackToProgram
  <2>1. Running /\ phase = "leave" /\ phase' = "user" /\ call = NoCall /\ call' = call
        /\ UNCHANGED <<nest, request, iret, handler, boxfull>>
    BY <1>14 DEF BackToProgram, Running
  <2> QED BY <2>1, ProgramCallKeeps DEF Phases
<1>15. CASE PassOn \/ HandleSystemSignal \/ HandleRewind \/ Receive \/ SkipToStart
            \/ UNCHANGED vars
  <2>1. UNCHANGED maskVars
    BY <1>15 DEF PassOn, HandleSystemSignal, HandleRewind, Receive, SkipToStart, vars, maskVars
  <2> QED BY <2>1, UnchangedKeeps
<1> QED
  BY <1>1, <1>2, <1>3, <1>4, <1>5, <1>6, <1>7, <1>8, <1>9, <1>10, <1>11, <1>12, <1>13, <1>14,
     <1>15 DEF Next

LEMMA SpecIInv == Spec => []IInv
BY InitIInv, NextIInv, PTL DEF Spec

(* Whoever masks the soft interrupt of the task in whatever order, the     *)
(* masks in softint_nest add up.                                           *)
THEOREM MasksAlwaysAddUp == Spec => []MasksAddUp
<1>1. IInv => MasksAddUp
  BY DEF IInv
<1> QED BY <1>1, SpecIInv, PTL

(* pioneer0's handler is never entered while it runs (its WORK structure   *)
(* holds one run only), nor while the box of the program is full.          *)
THEOREM HandlerIsNotReentered ==
  Spec => [][EnterHandler => handler # "read" /\ ~boxfull]_vars
<1>1. ASSUME IInv, EnterHandler
      PROVE  handler # "read" /\ ~boxfull
  BY <1>1 DEF EnterHandler, IInv, Places, FullMasks
<1> QED BY <1>1, SpecIInv, PTL

-----------------------------------------------------------------------------
(* What the boxes hold, and the invariant for calm senders.                *)

(* How the contents of a ring are described. The ring of the kernel (h =   *)
(* 1) holds signals with a header, that of the program (h = 0) without. s  *)
(* are the lengths of all signals accepted so far, numbered from 1. v      *)
(* gives each cell at which a signal begins, or will begin, the number of  *)
(* the next signal for the program at or behind it, and all others 0.      *)
IsSystem(h, mem, i)      == h = 1 /\ mem[i] = SystemSignal
Span(h, s, mem, v, i)    == IF IsSystem(h, mem, i) THEN 2 ELSE s[v[i]] + h
NextId(h, mem, v, i)     == IF IsSystem(h, mem, i) THEN v[i] ELSE v[i] + 1

(* A whole signal begins at i: the words that a reader looks at are in     *)
(* place.                                                                  *)
Whole(h, s, mem, v, i) ==
  \/ IsSystem(h, mem, i)
  \/ v[i] <= Len(s) /\ mem[i + h] = v[i] /\ (h = 1 => mem[i] = HeaderCut(s[v[i]]))

(* From a to b one signal begins right behind the other, none is missing;  *)
(* c adds up the lengths, so that the words of the signals between two     *)
(* cells are at most the cells between them.                               *)
Row(h, s, c, mem, v, a, b) ==
  /\ a <= b
  /\ v[a] # 0 /\ v[b] # 0
  /\ \A i \in a .. b : /\ v[i] <= Len(s) + 1
                       /\ v[i] # 0 => c[v[b]] - c[v[i]] <= b - i
  /\ \A i \in a .. b - 1 : v[i] # 0 =>
       /\ Whole(h, s, mem, v, i)
       /\ i + Span(h, s, mem, v, i) <= b
       /\ v[i + Span(h, s, mem, v, i)] = NextId(h, mem, v, i)

(* The signals from the reader at e to the writer at w: in a row, or,      *)
(* when the writer has begun anew, up to a rewind that says how many       *)
(* cells it skips, and on from cell 0.                                     *)
Filled(h, s, c, mem, v, e, w, size) ==
  \/ e <= w /\ Row(h, s, c, mem, v, e, w)
  \/ /\ w < e
     /\ Row(h, s, c, mem, v, 0, w)
     /\ \E r \in e .. size - 1 : /\ Row(h, s, c, mem, v, e, r)
                                 /\ mem[r] = Rewind /\ mem[r + 1] = size - r
                                 /\ v[0] = v[r]

(* c[k] is how many words the signals before the k-th have.                *)
Sums(s, c) ==
  /\ c \in [1 .. Len(s) + 1 -> Nat]
  /\ \A k \in 1 .. Len(s) : c[k + 1] = c[k] + s[k]
  /\ \A j, k \in 1 .. Len(s) + 1 : j <= k => c[j] <= c[k]

(* Where the next signal of the kernel's box is read: R; how many words    *)
(* of signals lie from there on: Pending; whether p such words can come    *)
(* into the box of the program without its becoming full: Fit; whether     *)
(* the only one of them is one that the handler has to find at the         *)
(* beginning of its run: Single.                                           *)
R == IF handler = "read" THEN signal ELSE read_ptr
Pending(c, v) == c[Len(sent) + 1] - c[v[R]]
Fit(p) == /\ read_free + p < UserWords
          /\ box.write + p < UserWords \/ read_free + p + Max(Lengths) < UserWords
Single(v) == v[R] = Len(sent) /\ msgbox.mem[R] < SystemSignal /\ (handler = "read" => signaldw = 0)

(* The contents of both boxes: between them they hold all signals that     *)
(* were accepted and that the program has not received, each once and in   *)
(* order.                                                                  *)
RingsHold(c, vK, vB) ==
  /\ Sums(sent, c)
  /\ vK \in [0 .. KernelWords -> Nat]
  /\ vB \in [0 .. UserWords -> Nat]
  /\ Filled(1, sent, c, msgbox.mem, vK, R, msgbox.write, KernelWords)
  /\ msgbox.mem[msgbox.write] = Eos
  /\ Filled(0, sent, c, box.mem, vB, position, box.write, UserWords)
  /\ box.mem[box.write] = Eos
  /\ vK[msgbox.write] = Len(sent) + 1
  /\ vB[box.write] = vK[R]
  /\ vB[position] = Len(received) + 1

(* Nothing that waits in the kernel's box fills the box of the program,    *)
(* except for a signal that waits alone; and a program that was            *)
(* interrupted while it slept has room for all of it.                      *)
CalmHolds(c, vK) ==
  /\ Fit(Pending(c, vK)) \/ Single(vK)
  /\ status /\ oldLlv = "sleep" => Fit(Pending(c, vK))

(* The invariant without the contents of the boxes: types, counts and      *)
(* control.                                                                *)
Types ==
  /\ TypeOK
  /\ boxfull \in BOOLEAN /\ opt \in BOOLEAN
  /\ signaldw \in Nat
  /\ call.words \in Nat
  /\ sent \in Seq(Lengths)
  /\ received \in Seq(Nat) /\ received = [i \in 1 .. Len(received) |-> i]
Counts ==
  /\ CountsAreExact
  /\ handler = "read" =>
       msgbox.free = KernelWords - 1 - signaldw - Behind(signal, msgbox.write, KernelWords)
  /\ read_free < UserWords

(* What the control state says: when a soft interrupt is asked for or      *)
(* under way, the level it returns to is that of a program that has        *)
(* looked into its box and found nothing, or "run".                        *)
Control ==
  /\ status <=> msgbox.free # KernelWords - 1
  /\ nest = 0 => ~status
  /\ request => status
  /\ call.op = "ret" => ~request /\ level = "run"
  /\ call.op = "nest" => level = "run" /\ handler = "out" /\ call.words = 0
  /\ call.llv = "sleep" => call.op = "nest" /\ call.al = 128 /\ phase = "slept" /\ read_free = 0 /\ ~request
  /\ boxfull => read_free > 0
  /\ frame = "none" <=> handler = "out"
  /\ frame = "sleep" => phase = "slept" /\ read_free = 0
  /\ handler = "left" => iret \/ call.op = "ret"
  /\ level = "sleep" => phase = "slept" /\ read_free = 0 /\ ~status /\ call = NoCall /\ handler = "out"
  /\ status /\ oldLlv = "sleep" => /\ phase = "slept" /\ call.op # "nest" /\ (request \/ handler # "out")
                                   /\ ~boxfull /\ (handler = "out" => read_free = 0)

-----------------------------------------------------------------------------
(* Rows of signals.                                                        *)

(* Histories, the cells of a ring, and their numbers.                      *)
Signals == Seq(Nat \ {0})
Memories(size) == [0 .. size -> Int]
Numbers(size)  == [0 .. size -> Nat]

(* A signal in a row ends in it.                                           *)
LEMMA SpanFacts ==
  ASSUME NEW h \in {0, 1}, NEW s \in Signals, NEW c, NEW size \in Nat, NEW mem \in Memories(size),
         NEW v \in Numbers(size), NEW a \in 0 .. size, NEW b \in 0 .. size,
         Row(h, s, c, mem, v, a, b), NEW i \in a .. b - 1, v[i] # 0
  PROVE  /\ i \in 0 .. size /\ i + Span(h, s, mem, v, i) \in i + 1 .. b
         /\ Span(h, s, mem, v, i) \in Nat \ {0}
         /\ ~IsSystem(h, mem, i) => /\ v[i] \in 1 .. Len(s)
                                    /\ i + h \in a .. b - 1
         /\ v[i] \in Nat \ {0}
<1>1. i \in 0 .. size /\ v[i] \in Nat \ {0} /\ Len(s) \in Nat
  BY DEF Numbers, Signals
<1>2. Whole(h, s, mem, v, i) /\ i + Span(h, s, mem, v, i) <= b
  BY DEF Row
<1>3. CASE IsSystem(h, mem, i)
  BY <1>1, <1>2, <1>3 DEF Span
<1>4. CASE ~IsSystem(h, mem, i)
  <2>1. v[i] \in 1 .. Len(s)
    BY <1>1, <1>2, <1>4 DEF Whole
  <2>2. s[v[i]] \in Nat \ {0}
    BY <2>1 DEF Signals
  <2>3. Span(h, s, mem, v, i) = s[v[i]] + h
    BY <1>4 DEF Span
  <2> QED BY <1>1, <1>2, <1>4, <2>1, <2>2, <2>3, SMTT(30)
<1> QED BY <1>3, <1>4

(* A row does not depend on cells outside.                                 *)
LEMMA RowSame ==
  ASSUME NEW h \in {0, 1}, NEW s \in Signals, NEW c, NEW size \in Nat, NEW mem \in Memories(size),
         NEW v \in Numbers(size), NEW a \in 0 .. size, NEW b \in 0 .. size,
         Row(h, s, c, mem, v, a, b),
         NEW m2, NEW v2,
         \A i \in a .. b - 1 : m2[i] = mem[i],
         \A i \in a .. b : v2[i] = v[i]
  PROVE  Row(h, s, c, m2, v2, a, b)
<1>1. a <= b /\ a \in a .. b /\ b \in a .. b
  BY DEF Row
<1>2. v2[a] # 0 /\ v2[b] # 0
  BY <1>1 DEF Row
<1>3. ASSUME NEW i \in a .. b
      PROVE  /\ v2[i] <= Len(s) + 1
             /\ v2[i] # 0 => c[v2[b]] - c[v2[i]] <= b - i
  BY <1>1 DEF Row
<1>4. ASSUME NEW i \in a .. b - 1, v2[i] # 0
      PROVE  /\ Whole(h, s, m2, v2, i)
             /\ i + Span(h, s, m2, v2, i) <= b
             /\ v2[i + Span(h, s, m2, v2, i)] = NextId(h, m2, v2, i)
  <2>1. v[i] # 0 /\ v2[i] = v[i] /\ m2[i] = mem[i]
    BY <1>4
  <2>2. /\ Whole(h, s, mem, v, i)
        /\ i + Span(h, s, mem, v, i) <= b
        /\ v[i + Span(h, s, mem, v, i)] = NextId(h, mem, v, i)
    BY <2>1 DEF Row
  <2>3. /\ i + Span(h, s, mem, v, i) \in a .. b
        /\ ~IsSystem(h, mem, i) => i + h \in a .. b - 1
    BY <2>1, SpanFacts
  <2>4. IsSystem(h, m2, i) <=> IsSystem(h, mem, i)
    BY <2>1 DEF IsSystem
  <2>5. Span(h, s, m2, v2, i) = Span(h, s, mem, v, i) /\ NextId(h, m2, v2, i) = NextId(h, mem, v, i)
    BY <2>1, <2>4 DEF Span, NextId
  <2>6. v2[i + Span(h, s, mem, v, i)] = v[i + Span(h, s, mem, v, i)]
    BY <2>3
  <2>7. Whole(h, s, m2, v2, i)
    BY <2>1, <2>2, <2>3, <2>4 DEF Whole
  <2> QED BY <2>2, <2>5, <2>6, <2>7
<1> QED BY <1>1, <1>2, <1>3, <1>4 DEF Row

(* A history that goes on from another.                                    *)
GoesOn(s, c, s2, c2) ==
  /\ Len(s) <= Len(s2)
  /\ \A k \in 1 .. Len(s) : s2[k] = s[k]
  /\ \A k \in 1 .. Len(s) + 1 : c2[k] = c[k]

(* What was accepted later changes no row.                                 *)
LEMMA RowGrows ==
  ASSUME NEW h \in {0, 1}, NEW s \in Signals, NEW c, NEW size \in Nat, NEW mem \in Memories(size),
         NEW v \in Numbers(size), NEW a \in 0 .. size, NEW b \in 0 .. size,
         Row(h, s, c, mem, v, a, b),
         NEW s2 \in Signals, NEW c2, GoesOn(s, c, s2, c2)
  PROVE  Row(h, s2, c2, mem, v, a, b)
<1> USE DEF GoesOn
<1>1. a <= b /\ a \in a .. b /\ b \in a .. b /\ Len(s) \in Nat /\ Len(s2) \in Nat /\ v[a] # 0 /\ v[b] # 0
  BY DEF Row, Signals
<1>2. ASSUME NEW i \in a .. b
      PROVE  v[i] \in Nat /\ v[i] <= Len(s) + 1
  BY DEF Row, Numbers
<1>3. ASSUME NEW i \in a .. b
      PROVE  /\ v[i] <= Len(s2) + 1
             /\ v[i] # 0 => c2[v[b]] - c2[v[i]] <= b - i
  <2>1. v[i] \in Nat /\ v[i] <= Len(s) + 1 /\ v[b] \in 1 .. Len(s) + 1
    BY <1>1, <1>2
  <2>2. v[i] # 0 => c[v[b]] - c[v[i]] <= b - i
    BY DEF Row
  <2>3. v[i] # 0 => c2[v[b]] = c[v[b]] /\ c2[v[i]] = c[v[i]]
    BY <1>1, <2>1
  <2> QED BY <1>1, <2>1, <2>2, <2>3
<1>4. ASSUME NEW i \in a .. b - 1, v[i] # 0
      PROVE  /\ Whole(h, s2, mem, v, i)
             /\ i + Span(h, s2, mem, v, i) <= b
             /\ v[i + Span(h, s2, mem, v, i)] = NextId(h, mem, v, i)
  <2>1. ~IsSystem(h, mem, i) => v[i] \in 1 .. Len(s)
    BY <1>4, SpanFacts
  <2>2. ~IsSystem(h, mem, i) => s2[v[i]] = s[v[i]]
    BY <2>1
  <2>3. /\ Whole(h, s, mem, v, i)
        /\ i + Span(h, s, mem, v, i) <= b
        /\ v[i + Span(h, s, mem, v, i)] = NextId(h, mem, v, i)
    BY <1>4 DEF Row
  <2>4. Span(h, s2, mem, v, i) = Span(h, s, mem, v, i)
    BY <2>2 DEF Span
  <2>5. Whole(h, s2, mem, v, i)
    BY <1>1, <2>1, <2>2, <2>3 DEF Whole
  <2> QED BY <2>3, <2>4, <2>5
<1> QED BY <1>1, <1>3, <1>4 DEF Row

(* The row behind its first signal is a row.                               *)
LEMMA RowGoesOn ==
  ASSUME NEW h \in {0, 1}, NEW s \in Signals, NEW c, NEW size \in Nat, NEW mem \in Memories(size),
         NEW v \in Numbers(size), NEW a \in 0 .. size, NEW b \in 0 .. size,
         Row(h, s, c, mem, v, a, b), a < b
  PROVE  LET next == a + Span(h, s, mem, v, a) IN
         /\ next \in a + 1 .. b
         /\ Whole(h, s, mem, v, a)
         /\ v[next] = NextId(h, mem, v, a)
         /\ Row(h, s, c, mem, v, next, b)
<1> DEFINE next == a + Span(h, s, mem, v, a)
<1>1. a \in a .. b - 1 /\ v[a] # 0 /\ b \in a .. b
  BY DEF Row
<1>2. next \in a + 1 .. b /\ v[a] \in Nat \ {0}
  BY <1>1, SpanFacts
<1>3. Whole(h, s, mem, v, a) /\ v[next] = NextId(h, mem, v, a)
  BY <1>1 DEF Row
<1>4. v[next] # 0
  BY <1>2, <1>3 DEF NextId
<1>5. \A i \in next .. b : i \in a .. b
  BY <1>2
<1>6. \A i \in next .. b - 1 : i \in a .. b - 1
  BY <1>2
<1>7. Row(h, s, c, mem, v, next, b)
  <2>1. next <= b
    BY <1>2
  <2> HIDE DEF next
  <2> QED BY <1>4, <1>5, <1>6, <2>1 DEF Row
<1> QED BY <1>2, <1>3, <1>7

(* words are those of the signal with number id, or of one that pioneer0   *)
(* handles itself; the number of the next signal behind it; and the        *)
(* numbers of the cells when they are written at w.                        *)
LaysOne(h, s, id, words) ==
  /\ Len(words) \in Nat /\ words \in [1 .. Len(words) -> Int]
  /\ \/ h = 1 /\ Len(words) = 2 /\ words[1] = SystemSignal
     \/ /\ id \in 1 .. Len(s)
        /\ Len(words) = s[id] + h /\ words[1 + h] = id
        /\ h = 1 => words[1] = HeaderCut(s[id])

IdBehind(h, id, words) == IF h = 1 /\ words[1] = SystemSignal THEN id ELSE id + 1

Numbered(v, w, n, id, size) ==
  [i \in 0 .. size |-> IF i = w + n THEN id ELSE IF w < i /\ i < w + n THEN 0 ELSE v[i]]

(* What writing words changes.                                             *)
LEMMA PutCells ==
  ASSUME NEW size \in Nat, NEW mem \in Memories(size), NEW w \in 0 .. size,
         NEW words, Len(words) \in Nat, words \in [1 .. Len(words) -> Int],
         w + Len(words) <= size
  PROVE  /\ Put(mem, w, words) \in Memories(size)
         /\ \A i \in 0 .. size : i < w \/ w + Len(words) < i => Put(mem, w, words)[i] = mem[i]
         /\ \A i \in 0 .. size : w <= i /\ i < w + Len(words) =>
              Put(mem, w, words)[i] = words[i - w + 1]
         /\ Put(mem, w, words)[w + Len(words)] = Eos
<1> DEFINE n == Len(words)
           Word(i) == IF i \in w .. w + n - 1 THEN words[i - w + 1]
                      ELSE IF i = w + n THEN Eos
                      ELSE mem[i]
<1>1. Put(mem, w, words) = [i \in 0 .. size |-> Word(i)]
  BY DEF Put, Memories
<1>2. n \in Nat /\ w \in Nat /\ w + n <= size
  OBVIOUS
<1>3. ASSUME NEW i \in 0 .. size
      PROVE  Word(i) \in Int
  <2>1. CASE i \in w .. w + n - 1
    <3>1. i - w + 1 \in 1 .. Len(words)
      BY <1>2, <2>1
    <3> QED BY <2>1, <3>1
  <2>2. CASE i \notin w .. w + n - 1
    BY <2>2 DEF Memories, Eos
  <2> QED BY <2>1, <2>2
<1>4. ASSUME NEW i \in 0 .. size, i < w \/ w + n < i
      PROVE  Word(i) = mem[i]
  BY <1>2, <1>4
<1>5. ASSUME NEW i \in 0 .. size, w <= i /\ i < w + n
      PROVE  Word(i) = words[i - w + 1]
  BY <1>2, <1>5
<1>6. Word(w + n) = Eos /\ w + n \in 0 .. size
  BY <1>2
<1> HIDE DEF Cell
<1>7. Put(mem, w, words) \in Memories(size)
  BY <1>1, <1>3 DEF Memories
<1>8. \A i \in 0 .. size : i < w \/ w + Len(words) < i => Put(mem, w, words)[i] = mem[i]
  BY <1>1, <1>4
<1>9. \A i \in 0 .. size : w <= i /\ i < w + Len(words) =>
        Put(mem, w, words)[i] = words[i - w + 1]
  BY <1>1, <1>5
<1>10. Put(mem, w, words)[w + Len(words)] = Eos
  BY <1>1, <1>6
<1> QED BY <1>7, <1>8, <1>9, <1>10

(* The words that were written are a whole signal.                         *)
LEMMA LaidSpan ==
  ASSUME NEW h \in {0, 1}, NEW s \in Signals, NEW id, NEW words, LaysOne(h, s, id, words),
         id \in Nat \ {0}, NEW c, Sums(s, c), id <= Len(s) + 1
  PROVE  /\ Len(words) \in Nat \ {0}
         /\ h = 1 => Len(words) > 1
         /\ IdBehind(h, id, words) \in 1 .. Len(s) + 1
         /\ c[IdBehind(h, id, words)] - c[id] <= Len(words)
         /\ c[id] \in Nat /\ c[IdBehind(h, id, words)] \in Nat
<1>1. c \in [1 .. Len(s) + 1 -> Nat] /\ Len(s) \in Nat
  BY DEF Sums, Signals
<1>2. CASE h = 1 /\ Len(words) = 2 /\ words[1] = SystemSignal
  BY <1>1, <1>2 DEF IdBehind
<1>3. CASE ~(h = 1 /\ words[1] = SystemSignal)
  <2>1. id \in 1 .. Len(s) /\ Len(words) = s[id] + h
    BY <1>3 DEF LaysOne
  <2>2. c[id + 1] = c[id] + s[id] /\ s[id] \in Nat \ {0}
    BY <2>1 DEF Sums, Signals
  <2>3. IdBehind(h, id, words) = id + 1
    BY <1>3 DEF IdBehind
  <2> QED BY <1>1, <2>1, <2>2, <2>3
<1>4. CASE (h = 1 /\ words[1] = SystemSignal) /\ Len(words) # 2
  <2>1. words[1] = HeaderCut(s[id]) /\ id \in 1 .. Len(s)
    BY <1>4 DEF LaysOne
  <2>2. s[id] \in Nat \ {0}
    BY <2>1 DEF Signals
  <2> QED BY <1>4, <2>1, <2>2 DEF HeaderCut, SystemSignal
<1> QED BY <1>2, <1>3, <1>4

(* A row to which a signal is added is a row.                              *)
LEMMA RowPut ==
  ASSUME NEW h \in {0, 1}, NEW s \in Signals, NEW c, Sums(s, c), NEW size \in Nat, NEW mem \in Memories(size),
         NEW v \in Numbers(size), NEW a \in 0 .. size, NEW w \in 0 .. size,
         Row(h, s, c, mem, v, a, w),
         NEW words, LaysOne(h, s, v[w], words), w + Len(words) <= size
  PROVE  Row(h, s, c, Put(mem, w, words),
             Numbered(v, w, Len(words), IdBehind(h, v[w], words), size), a, w + Len(words))
<1> DEFINE n  == Len(words)
           id == IdBehind(h, v[w], words)
           m2 == Put(mem, w, words)
           v2 == Numbered(v, w, n, id, size)
<1>0. \A i \in a .. w - 1 : v[i] # 0 => Span(h, s, mem, v, i) \in Nat \ {0}
  <2>1. TAKE i \in a .. w - 1
  <2>2. HAVE v[i] # 0
  <2> HIDE DEF n, id, m2, v2
  <2> QED BY <2>2, SpanFacts
<1>1. a <= w /\ v[w] \in Nat \ {0} /\ v[w] <= Len(s) + 1 /\ w \in a .. w
  BY DEF Row, Numbers
<1>2. n \in Nat \ {0} /\ w + n <= size /\ (h = 1 => n > 1) /\ id \in 1 .. Len(s) + 1
      /\ c[id] - c[v[w]] <= n /\ c[v[w]] \in Nat /\ c[id] \in Nat
  BY <1>1, LaidSpan
<1>3. words \in [1 .. n -> Int]
  BY DEF LaysOne
<1>4. /\ \A i \in 0 .. size : i < w \/ w + n < i => m2[i] = mem[i]
      /\ \A i \in 0 .. size : w <= i /\ i < w + n => m2[i] = words[i - w + 1]
  <2>1. \A i \in 0 .. size : i < w \/ w + Len(words) < i => m2[i] = mem[i]
    BY <1>2, <1>3, PutCells, SMTT(30)
  <2>2. \A i \in 0 .. size : w <= i /\ i < w + Len(words) => m2[i] = words[i - w + 1]
    BY <1>2, <1>3, PutCells, SMTT(30)
  <2> QED BY <2>1, <2>2
<1>5. /\ \A i \in 0 .. w : v2[i] = v[i]
      /\ \A i \in w + 1 .. w + n - 1 : v2[i] = 0
      /\ v2[w + n] = id
  BY <1>2, SMTT(30) DEF Numbered
<1> HIDE DEF m2, v2, n, id
<1>6. Row(h, s, c, m2, v2, a, w)
  <2>1. \A i \in a .. w - 1 : m2[i] = mem[i]
    BY <1>4
  <2>2. \A i \in a .. w : v2[i] = v[i]
    BY <1>5
  <2> QED BY <2>1, <2>2, RowSame
<1>7. m2[w] = words[1] /\ (h = 1 => m2[w + 1] = words[2])
  <2>1. w \in 0 .. size /\ w - w + 1 = 1 /\ w + 1 - w + 1 = 2 /\ (h = 1 => w + 1 \in 0 .. size)
    BY <1>2
  <2>2. m2[w] = words[1]
    BY <1>2, <1>4, <2>1
  <2>3. h = 1 => m2[w + 1] = words[2]
    BY <1>2, <1>4, <2>1
  <2> QED BY <2>2, <2>3
<1>8. /\ Whole(h, s, m2, v2, w)
      /\ w + Span(h, s, m2, v2, w) = w + n
      /\ id = NextId(h, m2, v2, w)
  <2>1. v2[w] = v[w]
    BY <1>5
  <2>2. CASE h = 1 /\ words[1] = SystemSignal
    <3>1. n = 2
      <4>1. ASSUME n # 2 PROVE FALSE
        <5>1. words[1] = HeaderCut(s[v[w]]) /\ v[w] \in 1 .. Len(s)
          BY <2>2, <4>1 DEF LaysOne, n
        <5>2. s[v[w]] \in Nat \ {0}
          BY <5>1 DEF Signals
        <5> QED BY <2>2, <5>1, <5>2 DEF HeaderCut, SystemSignal
      <4> QED BY <4>1
    <3>2. IsSystem(h, m2, w)
      BY <1>7, <2>2 DEF IsSystem
    <3> QED BY <2>1, <2>2, <3>1, <3>2 DEF Whole, Span, NextId, IdBehind, id
  <2>3. CASE ~(h = 1 /\ words[1] = SystemSignal)
    <3>1. v[w] \in 1 .. Len(s) /\ n = s[v[w]] + h /\ words[1 + h] = v[w]
          /\ (h = 1 => words[1] = HeaderCut(s[v[w]]))
      BY <2>3 DEF LaysOne, n
    <3>2. ~IsSystem(h, m2, w)
      BY <1>7, <2>3 DEF IsSystem
    <3>3. m2[w + h] = v[w]
      <4>1. CASE h = 0
        BY <1>7, <3>1, <4>1
      <4>2. CASE h = 1
        BY <1>7, <3>1, <4>2
      <4> QED BY <4>1, <4>2
    <3>4. id = v[w] + 1
      BY <2>3 DEF IdBehind, id
    <3> QED BY <1>7, <2>1, <3>1, <3>2, <3>3, <3>4 DEF Whole, Span, NextId
  <2> QED BY <2>2, <2>3
<1>9. ASSUME NEW i \in a .. w + n
      PROVE  /\ v2[i] <= Len(s) + 1
             /\ v2[i] # 0 => c[v2[w + n]] - c[v2[i]] <= w + n - i
  <2>1. Len(s) \in Nat
    BY DEF Signals
  <2>2. CASE i \in a .. w
    <3>1. v2[i] <= Len(s) + 1 /\ (v2[i] # 0 => c[v2[w]] - c[v2[i]] <= w - i)
      BY <1>6, <2>2 DEF Row
    <3>2. v2[w] = v[w] /\ v2[i] = v[i] /\ v[i] \in Nat
      BY <1>5, <2>2 DEF Numbers
    <3>3. v2[i] # 0 => c[v2[i]] \in Nat
      BY <2>1, <3>1, <3>2 DEF Sums
    <3>4. ASSUME v2[i] # 0 PROVE c[id] - c[v2[i]] <= w + n - i
      <4>1. c[v[w]] - c[v2[i]] <= w - i /\ c[v2[i]] \in Nat
        BY <3>1, <3>2, <3>3, <3>4
      <4>2. c[id] - c[v[w]] <= n
        BY <1>2
      <4>3. w \in Int /\ n \in Nat /\ i \in Int /\ c[v[w]] \in Nat /\ c[id] \in Nat
        BY <1>2, <2>2
      <4>4. \A x, y, z, d \in Int : y - z <= w - i /\ d - y <= n => d - z <= w + n - i
        BY <4>3
      <4>5. c[v2[i]] \in Int /\ c[v[w]] \in Int /\ c[id] \in Int
        BY <4>1, <4>3
      <4> QED BY <4>1, <4>2, <4>4, <4>5
    <3> QED BY <1>5, <3>1, <3>4
  <2>3. CASE i \in w + 1 .. w + n - 1
    BY <1>5, <2>1, <2>3
  <2>4. CASE i = w + n
    BY <1>2, <1>5, <2>1, <2>4
  <2> QED BY <1>2, <2>2, <2>3, <2>4
<1>10. ASSUME NEW i \in a .. w + n - 1, v2[i] # 0
       PROVE  /\ Whole(h, s, m2, v2, i)
              /\ i + Span(h, s, m2, v2, i) <= w + n
              /\ v2[i + Span(h, s, m2, v2, i)] = NextId(h, m2, v2, i)
  <2>1. CASE i \in a .. w - 1
    <3>1. /\ Whole(h, s, m2, v2, i)
          /\ i + Span(h, s, m2, v2, i) <= w
          /\ v2[i + Span(h, s, m2, v2, i)] = NextId(h, m2, v2, i)
      BY <1>6, <1>10, <2>1 DEF Row
    <3>2. Span(h, s, m2, v2, i) \in Int
      <4>1. v[i] # 0 /\ m2[i] = mem[i] /\ v2[i] = v[i]
        BY <1>4, <1>5, <1>10, <2>1
      <4>2. Span(h, s, mem, v, i) \in Nat \ {0}
        BY <1>0, <2>1, <4>1
      <4>3. Span(h, s, m2, v2, i) = Span(h, s, mem, v, i)
        BY <4>1 DEF Span, IsSystem
      <4> QED BY <4>2, <4>3
    <3> QED BY <1>2, <3>1, <3>2
  <2>2. CASE i = w
    BY <1>2, <1>5, <1>8, <2>2
  <2>3. CASE i \in w + 1 .. w + n - 1
    BY <1>5, <1>10, <2>3
  <2> QED BY <1>2, <2>1, <2>2, <2>3
<1>11. a <= w + n /\ v2[a] # 0 /\ v2[w + n] # 0
  <2>1. a \in 0 .. w
    BY <1>1
  <2> QED BY <1>1, <1>2, <1>5, <2>1 DEF Row
<1>12. Row(h, s, c, m2, v2, a, w + n)
  <2> DEFINE b == w + n
  <2>1. a <= b /\ v2[a] # 0 /\ v2[b] # 0
    BY <1>11
  <2>2. \A i \in a .. b : /\ v2[i] <= Len(s) + 1
                          /\ v2[i] # 0 => c[v2[b]] - c[v2[i]] <= b - i
    <3> TAKE i \in a .. b
    <3>1. i \in a .. w + n /\ b \in Int
      BY <1>2
    <3>2. v2[i] <= Len(s) + 1 /\ (v2[i] # 0 => c[v2[w + n]] - c[v2[i]] <= w + n - i)
      BY <1>9, <3>1
    <3>3. w + n - i = b - i
      BY <1>2, <3>1
    <3> HIDE DEF b
    <3>4. v2[i] # 0 => c[v2[w + n]] - c[v2[i]] <= b - i
      BY <3>2, <3>3
    <3> QED BY <3>2, <3>4 DEF b
  <2>3. \A i \in a .. b - 1 : v2[i] # 0 =>
             /\ Whole(h, s, m2, v2, i)
             /\ i + Span(h, s, m2, v2, i) <= b
             /\ v2[i + Span(h, s, m2, v2, i)] = NextId(h, m2, v2, i)
    <3> TAKE i \in a .. b - 1
    <3>1. i \in a .. w + n - 1
      BY <1>2
    <3> HIDE DEF b
    <3>2. v2[i] # 0 =>
             /\ Whole(h, s, m2, v2, i)
             /\ i + Span(h, s, m2, v2, i) <= w + n
             /\ v2[i + Span(h, s, m2, v2, i)] = NextId(h, m2, v2, i)
      BY <1>10, <3>1
    <3> QED BY <3>2 DEF b
  <2> HIDE DEF b
  <2>4. Row(h, s, c, m2, v2, a, b)
    BY <2>1, <2>2, <2>3, Zenon DEF Row
  <2> QED BY <2>4 DEF b
<1> QED BY <1>12 DEF m2, v2, n, id

-----------------------------------------------------------------------------
(* Rings: rows with a rewind between them.                                 *)

(* The same for the contents of a ring.                                    *)
LEMMA FilledGrows ==
  ASSUME NEW h \in {0, 1}, NEW s \in Signals, NEW c, NEW size \in Nat, NEW mem \in Memories(size),
         NEW v \in Numbers(size), NEW e \in 0 .. size - 1, NEW w \in 0 .. size - 1,
         Filled(h, s, c, mem, v, e, w, size),
         NEW s2 \in Signals, NEW c2, GoesOn(s, c, s2, c2)
  PROVE  Filled(h, s2, c2, mem, v, e, w, size)
<1>1. e \in 0 .. size /\ w \in 0 .. size /\ 0 \in 0 .. size /\ \A r \in e .. size - 1 : r \in 0 .. size
  OBVIOUS
<1>2. \A a, b \in 0 .. size : Row(h, s, c, mem, v, a, b) => Row(h, s2, c2, mem, v, a, b)
  BY RowGrows
<1> QED BY <1>1, <1>2, Zenon DEF Filled

(* The words of the signals in a row fit between its ends.                 *)
LEMMA RowPending ==
  ASSUME NEW h \in {0, 1}, NEW s \in Signals, NEW c, NEW size \in Nat, NEW mem \in Memories(size),
         NEW v \in Numbers(size), NEW a \in 0 .. size, NEW b \in 0 .. size,
         Row(h, s, c, mem, v, a, b)
  PROVE  a <= b /\ v[a] \in 1 .. Len(s) + 1 /\ v[b] \in 1 .. Len(s) + 1 /\ c[v[b]] - c[v[a]] <= b - a
<1>1. a <= b /\ a \in a .. b /\ b \in a .. b /\ v[a] # 0 /\ v[b] # 0
  BY DEF Row
<1>2. v[a] <= Len(s) + 1 /\ v[b] <= Len(s) + 1 /\ c[v[b]] - c[v[a]] <= b - a
  BY <1>1 DEF Row
<1>3. v[a] \in Nat /\ v[b] \in Nat /\ Len(s) \in Nat
  BY DEF Numbers, Signals
<1> QED BY <1>1, <1>2, <1>3

(* The words of the signals in a ring fit between reader and writer.       *)
LEMMA FilledPending ==
  ASSUME NEW h \in {0, 1}, NEW s \in Signals, NEW c, Sums(s, c), NEW size \in Nat, NEW mem \in Memories(size),
         NEW v \in Numbers(size), NEW e \in 0 .. size - 1, NEW w \in 0 .. size - 1,
         Filled(h, s, c, mem, v, e, w, size)
  PROVE  /\ v[e] \in 1 .. Len(s) + 1 /\ v[w] \in 1 .. Len(s) + 1
         /\ c[v[e]] \in Nat /\ c[v[w]] \in Nat
         /\ c[v[w]] - c[v[e]] <= Behind(e, w, size)
         /\ Behind(e, w, size) \in 0 .. size - 1
<1>1. e \in 0 .. size /\ w \in 0 .. size /\ 0 \in 0 .. size /\ \A r \in e .. size - 1 : r \in 0 .. size
  OBVIOUS
<1>2. \A i \in 1 .. Len(s) + 1 : c[i] \in Nat
  BY DEF Sums
<1>3. Behind(e, w, size) \in 0 .. size - 1
  BY DEF Behind
<1>4. CASE e <= w /\ Row(h, s, c, mem, v, e, w)
  <2>1. v[e] \in 1 .. Len(s) + 1 /\ v[w] \in 1 .. Len(s) + 1 /\ c[v[w]] - c[v[e]] <= w - e
    BY <1>1, <1>4, RowPending
  <2> QED BY <1>2, <1>3, <1>4, <2>1 DEF Behind
<1>5. CASE ~(e <= w /\ Row(h, s, c, mem, v, e, w))
  <2>1. w < e /\ Row(h, s, c, mem, v, 0, w)
    BY <1>5 DEF Filled
  <2>2. PICK r \in e .. size - 1 : Row(h, s, c, mem, v, e, r) /\ v[0] = v[r]
    BY <1>5 DEF Filled
  <2>3. v[0] \in 1 .. Len(s) + 1 /\ v[w] \in 1 .. Len(s) + 1 /\ c[v[w]] - c[v[0]] <= w - 0
    BY <1>1, <2>1, RowPending
  <2>4. v[e] \in 1 .. Len(s) + 1 /\ c[v[r]] - c[v[e]] <= r - e
    BY <1>1, <2>2, RowPending
  <2>5. c[v[0]] \in Nat /\ c[v[w]] \in Nat /\ c[v[e]] \in Nat /\ c[v[r]] = c[v[0]]
    BY <1>2, <2>2, <2>3, <2>4
  <2>6. Behind(e, w, size) = w - e + size /\ r \in Nat /\ r <= size
    BY <1>1, <2>1 DEF Behind
  <2>7. c[v[w]] - c[v[e]] <= Behind(e, w, size)
    <3>1. \A x, y, z \in Nat, q \in Nat : x - y <= w - 0 /\ y - z <= q - e /\ q <= size
                                              => x - z <= w - e + size
      OBVIOUS
    <3> QED BY <2>3, <2>4, <2>5, <2>6, <3>1
  <2> QED BY <1>3, <2>3, <2>4, <2>5, <2>7
<1> QED BY <1>4, <1>5

(* What a reader finds, and what lies before it then.                      *)
WholeAt(h, s, c, mem, v, e, w, size) ==
  LET next == e + Span(h, s, mem, v, e) IN
  /\ mem[e] # Eos /\ mem[e] # Rewind
  /\ Whole(h, s, mem, v, e)
  /\ Span(h, s, mem, v, e) \in Nat \ {0}
  /\ next \in 0 .. size - 1
  /\ v[next] = NextId(h, mem, v, e)
  /\ Filled(h, s, c, mem, v, next, w, size)
  /\ Behind(next, w, size) = Behind(e, w, size) - Span(h, s, mem, v, e)

RewindAt(h, s, c, mem, v, e, w, size) ==
  /\ mem[e] = Rewind
  /\ mem[e + 1] = size - e
  /\ v[0] = v[e]
  /\ Filled(h, s, c, mem, v, 0, w, size)
  /\ Behind(0, w, size) = Behind(e, w, size) - (size - e)

(* No signal looks like the end code or a rewind.                          *)
LEMMA WholeIsNoMark ==
  ASSUME NEW h \in {0, 1}, NEW s \in Signals, NEW c, NEW size \in Nat, NEW mem \in Memories(size),
         NEW v \in Numbers(size), NEW e \in 0 .. size - 1, v[e] # 0, Whole(h, s, mem, v, e)
  PROVE  mem[e] # Eos /\ mem[e] # Rewind
<1>1. v[e] \in Nat \ {0} /\ Len(s) \in Nat
  BY DEF Numbers, Signals
<1>2. CASE IsSystem(h, mem, e)
  BY <1>2 DEF IsSystem, SystemSignal, Eos, Rewind
<1>3. CASE ~IsSystem(h, mem, e)
  <2>1. v[e] \in 1 .. Len(s) /\ mem[e + h] = v[e] /\ (h = 1 => mem[e] = HeaderCut(s[v[e]]))
    BY <1>1, <1>3 DEF Whole
  <2>2. s[v[e]] \in Nat \ {0}
    BY <2>1 DEF Signals
  <2>3. h = 1 => mem[e] < -2
    BY <2>1, <2>2 DEF HeaderCut
  <2>4. h = 0 => mem[e] > 0
    BY <2>1
  <2> QED BY <2>3, <2>4 DEF Eos, Rewind
<1> QED BY <1>2, <1>3

(* A reader finds the end code exactly at the writer, and otherwise a      *)
(* rewind or a whole signal, behind which the contents go on.              *)
LEMMA ReaderSees ==
  ASSUME NEW h \in {0, 1}, NEW s \in Signals, NEW c, NEW size \in Nat, NEW mem \in Memories(size),
         NEW v \in Numbers(size), NEW e \in 0 .. size - 1, NEW w \in 0 .. size - 1,
         Filled(h, s, c, mem, v, e, w, size), mem[w] = Eos
  PROVE  \/ mem[e] = Eos /\ e = w
         \/ RewindAt(h, s, c, mem, v, e, w, size)
         \/ WholeAt(h, s, c, mem, v, e, w, size)
<1>1. e \in 0 .. size /\ w \in 0 .. size /\ 0 \in 0 .. size /\ \A r \in e .. size - 1 : r \in 0 .. size
  OBVIOUS
<1> DEFINE n == Span(h, s, mem, v, e)
           next == e + n
<1>2. ASSUME NEW b \in e + 1 .. size - 1, Row(h, s, c, mem, v, e, b)
      PROVE  /\ mem[e] # Eos /\ mem[e] # Rewind
             /\ Whole(h, s, mem, v, e)
             /\ n \in Nat \ {0}
             /\ next \in e + 1 .. b
             /\ v[next] = NextId(h, mem, v, e)
             /\ Row(h, s, c, mem, v, next, b)
  <2>1. b \in 0 .. size /\ e < b
    BY <1>2
  <2>2. /\ next \in e + 1 .. b
        /\ Whole(h, s, mem, v, e)
        /\ v[next] = NextId(h, mem, v, e)
        /\ Row(h, s, c, mem, v, next, b)
    BY <1>1, <1>2, <2>1, RowGoesOn
  <2>3. v[e] # 0 /\ e \in e .. b - 1
    BY <1>2, <2>1 DEF Row
  <2>4. n \in Nat \ {0}
    BY <1>1, <1>2, <2>1, <2>3, SpanFacts
  <2> QED BY <2>2, <2>3, <2>4, WholeIsNoMark
<1> HIDE DEF n
<1>3. CASE e = w
  BY <1>3
<1>4. CASE e < w
  <2>1. Row(h, s, c, mem, v, e, w) /\ w \in e + 1 .. size - 1
    BY <1>4 DEF Filled
  <2>2. /\ mem[e] # Eos /\ mem[e] # Rewind
        /\ Whole(h, s, mem, v, e)
        /\ n \in Nat \ {0}
        /\ next \in e + 1 .. w
        /\ v[next] = NextId(h, mem, v, e)
        /\ Row(h, s, c, mem, v, next, w)
    BY <1>2, <2>1
  <2>3. next <= w /\ next \in 0 .. size - 1
    BY <2>2
  <2>4. Filled(h, s, c, mem, v, next, w, size)
    BY <2>2, <2>3 DEF Filled
  <2>5. Behind(next, w, size) = Behind(e, w, size) - n
    BY <1>4, <2>2, <2>3 DEF Behind
  <2>6. WholeAt(h, s, c, mem, v, e, w, size)
    BY <2>2, <2>3, <2>4, <2>5 DEF WholeAt, n
  <2> QED BY <2>6
<1>5. CASE w < e
  <2>1. Row(h, s, c, mem, v, 0, w)
    BY <1>5 DEF Filled
  <2>2. PICK r \in e .. size - 1 : /\ Row(h, s, c, mem, v, e, r)
                                   /\ mem[r] = Rewind /\ mem[r + 1] = size - r
                                   /\ v[0] = v[r]
    BY <1>5 DEF Filled
  <2>3. CASE e = r
    <3>1. Filled(h, s, c, mem, v, 0, w, size)
      BY <2>1 DEF Filled
    <3>2. Behind(0, w, size) = Behind(e, w, size) - (size - e)
      BY <1>5 DEF Behind
    <3>3. RewindAt(h, s, c, mem, v, e, w, size)
      BY <2>2, <2>3, <3>1, <3>2 DEF RewindAt
    <3> QED BY <3>3
  <2>4. CASE e < r
    <3>1. r \in e + 1 .. size - 1
      BY <2>4
    <3>2. /\ mem[e] # Eos /\ mem[e] # Rewind
          /\ Whole(h, s, mem, v, e)
          /\ n \in Nat \ {0}
          /\ next \in e + 1 .. r
          /\ v[next] = NextId(h, mem, v, e)
          /\ Row(h, s, c, mem, v, next, r)
      BY <1>2, <2>2, <3>1
    <3>3. w < next /\ next \in 0 .. size - 1 /\ r \in next .. size - 1
      BY <1>5, <3>1, <3>2
    <3>4. Filled(h, s, c, mem, v, next, w, size)
      BY <2>1, <2>2, <3>2, <3>3 DEF Filled
    <3>5. Behind(next, w, size) = Behind(e, w, size) - n
      BY <1>5, <3>2, <3>3 DEF Behind
    <3>6. WholeAt(h, s, c, mem, v, e, w, size)
      BY <3>2, <3>3, <3>4, <3>5 DEF WholeAt, n
    <3> QED BY <3>6
  <2> QED BY <2>3, <2>4
<1> QED BY <1>3, <1>4, <1>5

-----------------------------------------------------------------------------
(* Sending into a ring.                                                    *)

(* Writing no words writes the end code.                                   *)
LEMMA PutNothing ==
  ASSUME NEW size \in Nat, NEW mem \in Memories(size), NEW w \in 0 .. size
  PROVE  /\ Put(mem, w, <<>>) \in Memories(size)
         /\ Put(mem, w, <<>>)[w] = Eos
         /\ \A i \in 0 .. size : i # w => Put(mem, w, <<>>)[i] = mem[i]
<1>1. \A i \in 0 .. size : (i \in w .. w + Len(<<>>) - 1 <=> FALSE) /\ w + Len(<<>>) = w
  OBVIOUS
<1>2. Put(mem, w, <<>>) = [i \in 0 .. size |-> IF i = w THEN Eos ELSE mem[i]]
  BY <1>1 DEF Put, Memories
<1> QED BY <1>2 DEF Memories, Eos

(* A signal written before the end of the area is added to the contents.   *)
LEMMA FilledPut ==
  ASSUME NEW h \in {0, 1}, NEW s \in Signals, NEW c, Sums(s, c), NEW size \in Nat, NEW mem \in Memories(size),
         NEW v \in Numbers(size), NEW e \in 0 .. size - 1, NEW w \in 0 .. size - 1,
         Filled(h, s, c, mem, v, e, w, size),
         NEW words, LaysOne(h, s, v[w], words), w + Len(words) < size,
         w < e => w + Len(words) < e
  PROVE  LET m2 == Put(mem, w, words)
             v2 == Numbered(v, w, Len(words), IdBehind(h, v[w], words), size) IN
         /\ m2 \in Memories(size) /\ v2 \in Numbers(size)
         /\ Filled(h, s, c, m2, v2, e, w + Len(words), size)
         /\ v2[e] = v[e]
         /\ v2[w + Len(words)] = IdBehind(h, v[w], words)
         /\ m2[w + Len(words)] = Eos
<1> DEFINE n  == Len(words)
           id == IdBehind(h, v[w], words)
           m2 == Put(mem, w, words)
           v2 == Numbered(v, w, n, id, size)
<1>1. v[w] \in 1 .. Len(s) + 1
  BY FilledPending
<1>2. n \in Nat \ {0} /\ w + n < size /\ id \in Nat /\ id # 0
  <2>1. v[w] \in Nat \ {0} /\ v[w] <= Len(s) + 1 /\ Len(s) \in Nat
    BY <1>1 DEF Signals
  <2>2. n \in Nat \ {0} /\ id \in 1 .. Len(s) + 1
    BY <2>1, LaidSpan
  <2> QED BY <2>1, <2>2
<1>3. /\ m2 \in Memories(size)
      /\ \A i \in 0 .. size : i < w \/ w + n < i => m2[i] = mem[i]
      /\ m2[w + n] = Eos
  <2>1. n \in Nat /\ words \in [1 .. n -> Int] /\ w + n <= size /\ w \in 0 .. size
    BY <1>2 DEF LaysOne
  <2> QED BY <2>1, PutCells
<1>4. v2 \in Numbers(size)
  BY <1>2 DEF Numbers, Numbered
<1>5. /\ \A i \in 0 .. w : v2[i] = v[i]
      /\ \A i \in w + n + 1 .. size : v2[i] = v[i]
      /\ v2[w + n] = id
  BY <1>2 DEF Numbered
<1>6. ASSUME NEW a \in 0 .. size, Row(h, s, c, mem, v, a, w)
      PROVE  Row(h, s, c, m2, v2, a, w + n)
  <2>1. w \in 0 .. size /\ w + Len(words) <= size
    BY <1>2
  <2> QED BY <1>6, <2>1, RowPut
<1> HIDE DEF m2, v2, id, n
<1>7. Filled(h, s, c, m2, v2, e, w + n, size) /\ v2[e] = v[e]
  <2>1. CASE e <= w
    <3>1. Row(h, s, c, mem, v, e, w)
      BY <2>1 DEF Filled
    <3>2. Row(h, s, c, m2, v2, e, w + n) /\ e <= w + n
      BY <1>2, <1>6, <2>1, <3>1
    <3> QED BY <1>5, <2>1, <3>2 DEF Filled
  <2>2. CASE w < e
    <3>1. w + n < e
      BY <2>2 DEF n
    <3>2. Row(h, s, c, mem, v, 0, w)
      BY <2>2 DEF Filled
    <3>3. PICK r \in e .. size - 1 : /\ Row(h, s, c, mem, v, e, r)
                                     /\ mem[r] = Rewind /\ mem[r + 1] = size - r
                                     /\ v[0] = v[r]
      BY <2>2 DEF Filled
    <3>4. Row(h, s, c, m2, v2, 0, w + n)
      BY <1>6, <3>2
    <3>5. /\ \A i \in e .. r - 1 : m2[i] = mem[i]
          /\ \A i \in e .. r : v2[i] = v[i]
      BY <1>2, <1>3, <1>5, <3>1
    <3>6. m2[r] = mem[r] /\ m2[r + 1] = mem[r + 1] /\ v2[r] = v[r] /\ v2[0] = v[0]
      <4>1. r \in w + n + 1 .. size /\ r + 1 \in 0 .. size /\ w + n < r + 1
        BY <1>2, <3>1
      <4> QED BY <1>2, <1>3, <1>5, <4>1
    <3>7. Row(h, s, c, m2, v2, e, r)
      <4>1. e \in 0 .. size /\ r \in 0 .. size
        OBVIOUS
      <4> QED BY <3>3, <3>5, <4>1, RowSame
    <3>8. v2[e] = v[e]
      BY <1>2, <1>5, <3>1
    <3> QED BY <3>1, <3>3, <3>4, <3>6, <3>7, <3>8 DEF Filled
  <2> QED BY <2>1, <2>2
<1> QED BY <1>3, <1>4, <1>5, <1>7 DEF n, m2, v2, id

(* A rewind changes nothing in the contents.                               *)
LEMMA FilledRewind ==
  ASSUME NEW h \in {0, 1}, NEW s \in Signals, NEW c, Sums(s, c), NEW size \in Nat, NEW mem \in Memories(size),
         NEW v \in Numbers(size), NEW e \in 0 .. size - 1, NEW w \in 0 .. size - 1,
         Filled(h, s, c, mem, v, e, w, size), 0 < e, e <= w,
         NEW m2, \A i \in 1 .. w - 1 : m2[i] = mem[i],
         m2[w] = Rewind, m2[w + 1] = size - w,
         NEW v2, v2[0] = v[w], \A i \in 1 .. size : v2[i] = v[i]
  PROVE  Filled(h, s, c, m2, v2, e, 0, size) /\ v2[e] = v[e]
<1>1. Row(h, s, c, mem, v, e, w)
  BY DEF Filled
<1>2. v2[0] = v[w] /\ \A i \in 1 .. size : v2[i] = v[i]
  OBVIOUS
<1>3. Row(h, s, c, m2, v2, e, w)
  <2>1. /\ \A i \in e .. w - 1 : m2[i] = mem[i]
        /\ \A i \in e .. w : v2[i] = v[i]
    BY <1>2
  <2>2. e \in 0 .. size /\ w \in 0 .. size
    OBVIOUS
  <2> QED BY <1>1, <2>1, <2>2, RowSame
<1>4. v[w] \in 1 .. Len(s) + 1 /\ Len(s) \in Nat
  <2>1. e \in 0 .. size /\ w \in 0 .. size
    OBVIOUS
  <2>2. v[w] \in 1 .. Len(s) + 1
    BY <1>1, <2>1, RowPending
  <2> QED BY <2>2 DEF Signals
<1>5. Row(h, s, c, m2, v2, 0, 0)
  <2>1. v2[0] \in 1 .. Len(s) + 1
    BY <1>2, <1>4
  <2>2. c[v2[0]] - c[v2[0]] <= 0 - 0
    BY <1>4, <2>1 DEF Sums
  <2> QED BY <1>4, <2>1, <2>2 DEF Row
<1>6. v2[w] = v[w] /\ v2[e] = v[e] /\ w \in e .. size - 1
  BY <1>2
<1>7. Filled(h, s, c, m2, v2, e, 0, size)
  BY <1>2, <1>3, <1>5, <1>6 DEF Filled
<1> QED BY <1>2, <1>6, <1>7

(* What sending into a ring leaves: before its reader at e the same signals *)
(* as before, and id is the number of the one that comes next.             *)
Sent(h, s, c, v, e, new, size, id) ==
  \E v2 \in Numbers(size) :
    /\ new.mem \in Memories(size) /\ new.write \in 0 .. size - 1
    /\ Filled(h, s, c, new.mem, v2, e, new.write, size)
    /\ new.mem[new.write] = Eos
    /\ v2[e] = v[e]
    /\ v2[new.write] = id

(* A ring with room, of which the reader at e has not read the signals up  *)
(* to the writer.                                                          *)
Room(h, s, c, v, e, ring, size, reserve) ==
  /\ h \in {0, 1} /\ s \in Signals /\ Sums(s, c) /\ size \in Nat
  /\ reserve \in {0, 1} /\ v \in Numbers(size) /\ e \in 0 .. size - 1
  /\ ring.mem \in Memories(size) /\ ring.write \in 0 .. size - 1 /\ ring.free \in Int
  /\ Filled(h, s, c, ring.mem, v, e, ring.write, size) /\ ring.mem[ring.write] = Eos
  /\ ring.free <= size - 1 + reserve - Behind(e, ring.write, size)

(* Whatever way sendusersignal takes, it adds the signal or, if it fails,  *)
(* nothing.                                                                *)
LEMMA SendIntoFilled ==
  ASSUME NEW h, NEW s, NEW c, NEW size, NEW reserve, NEW v, NEW e, NEW ring,
         Room(h, s, c, v, e, ring, size, reserve),
         NEW words, Len(words) \in Nat
  PROVE  LET put == SendInto(ring, words, size, reserve) IN
         /\ put.ok \in BOOLEAN
         /\ ~put.ok => Sent(h, s, c, v, e, put.box, size, v[ring.write])
         /\ put.ok /\ LaysOne(h, s, v[ring.write], words) =>
              Sent(h, s, c, v, e, put.box, size, IdBehind(h, v[ring.write], words))
<1>r. /\ h \in {0, 1} /\ s \in Signals /\ Sums(s, c) /\ size \in Nat
      /\ reserve \in {0, 1} /\ v \in Numbers(size) /\ e \in 0 .. size - 1
      /\ ring.mem \in Memories(size) /\ ring.write \in 0 .. size - 1 /\ ring.free \in Int
      /\ Filled(h, s, c, ring.mem, v, e, ring.write, size) /\ ring.mem[ring.write] = Eos
      /\ ring.free <= size - 1 + reserve - Behind(e, ring.write, size)
  BY DEF Room
<1> USE <1>r
<1> DEFINE n       == Len(words)
           w       == ring.write
           f       == ring.free
           m       == ring.mem
           wraps   == w + n >= size
           skipped == IF wraps THEN size - w ELSE 0
           start   == IF wraps THEN 0 ELSE w
           free    == f - skipped
           m1      == IF wraps THEN [m EXCEPT ![w] = Rewind, ![w + 1] = skipped] ELSE m
           put     == SendInto(ring, words, size, reserve)
<1>1. w \in 0 .. size - 1 /\ f \in Int /\ n \in Nat /\ m \in Memories(size) /\ m[w] = Eos
      /\ f <= size - 1 + reserve - Behind(e, w, size)
      /\ Filled(h, s, c, m, v, e, w, size)
  OBVIOUS
<1>2. put = IF wraps /\ free < reserve THEN Failure(ring)
            ELSE IF free - n < reserve
            THEN Failure([mem |-> Put(m1, start, <<>>), write |-> start, free |-> free])
            ELSE [box |-> [mem |-> Put(m1, start, words), write |-> start + n, free |-> free - n],
                  ok |-> TRUE]
  BY DEF SendInto
<1> HIDE DEF put
<1>3. put.ok \in BOOLEAN
  BY <1>2 DEF Failure
<1> DEFINE rewound == [v EXCEPT ![0] = v[w]]
           v1 == IF wraps THEN rewound ELSE v
<1>7. rewound \in Numbers(size) /\ rewound[0] = v[w] /\ \A i \in 1 .. size : rewound[i] = v[i]
  <2>1. w \in 0 .. size /\ 0 \in 0 .. size
    OBVIOUS
  <2> HIDE DEF w
  <2> QED BY <2>1 DEF Numbers
<1> HIDE DEF rewound
<1>4. ASSUME ~(wraps /\ free < reserve)
      PROVE  /\ m1 \in Memories(size) /\ v1 \in Numbers(size)
             /\ start \in 0 .. size - 1
             /\ Filled(h, s, c, m1, v1, e, start, size)
             /\ v1[e] = v[e] /\ v1[start] = v[w]
             /\ Put(m1, start, <<>>) \in Memories(size)
             /\ Put(m1, start, <<>>)[start] = Eos
             /\ Filled(h, s, c, Put(m1, start, <<>>), v1, e, start, size)
             /\ free - n >= reserve => start + n < size /\ (start < e => start + n < e)
  <2>2. CASE ~wraps
    <3>1. m1 = m /\ v1 = v /\ start = w /\ free = f
      BY <1>1, <2>2
    <3> HIDE DEF wraps, m1, v1, start, free, skipped, w, f, m, n
    <3>2. Put(m, w, <<>>) = m
      <4>1. w \in 0 .. size
        BY <1>1
      <4>2. /\ Put(m, w, <<>>) \in Memories(size)
            /\ Put(m, w, <<>>)[w] = Eos
            /\ \A i \in 0 .. size : i # w => Put(m, w, <<>>)[i] = m[i]
        BY <1>1, <4>1, PutNothing
      <4>3. \A i \in 0 .. size : Put(m, w, <<>>)[i] = m[i]
        BY <1>1, <4>2
      <4>4. Put(m, w, <<>>) = [i \in 0 .. size |-> Put(m, w, <<>>)[i]] /\ m = [i \in 0 .. size |-> m[i]]
        BY <1>1, <4>2 DEF Memories
      <4> QED BY <4>3, <4>4
    <3>3. w + n < size
      BY <1>1, <2>2 DEF wraps
    <3>4. f - n >= reserve /\ w < e => w + n < e
      BY <1>1, <3>3, SMTT(30) DEF Behind
    <3> QED BY <1>1, <3>1, <3>2, <3>3, <3>4
  <2>3. CASE wraps
    <3>1. m1 = [m EXCEPT ![w] = Rewind, ![w + 1] = size - w] /\ v1 = rewound /\ start = 0
          /\ free = f - (size - w) /\ free >= reserve
      <4>1. m1 = [m EXCEPT ![w] = Rewind, ![w + 1] = size - w] /\ v1 = rewound /\ start = 0
            /\ free = f - (size - w)
        BY <2>3
      <4>2. ~(free < reserve)
        BY <1>4, <2>3
      <4> HIDE DEF wraps, m1, v1, start, free, skipped, w, f, m, n
      <4>3. free >= reserve
        BY <1>1, <4>1, <4>2
      <4> QED BY <4>1, <4>3
    <3> HIDE DEF wraps, m1, v1, start, free, skipped, w, f, m, n
    <3>2. 0 < e /\ e <= w
      BY <1>1, <3>1, SMTT(30) DEF Behind
    <3>3. m1 \in Memories(size) /\ m1[w] = Rewind /\ m1[w + 1] = size - w
          /\ \A i \in 0 .. size : i # w /\ i # w + 1 => m1[i] = m[i]
      <4>1. w + 1 \in 0 .. size /\ w \in 0 .. size /\ w # w + 1 /\ size - w \in Int
        BY <1>1
      <4> DEFINE m0 == [m EXCEPT ![w] = Rewind]
      <4>2. m0 \in Memories(size) /\ m0[w] = Rewind /\ \A i \in 0 .. size : i # w => m0[i] = m[i]
        <5>1. m \in [0 .. size -> Int] /\ Rewind \in Int
          BY <1>1 DEF Memories, Rewind
        <5> QED BY <4>1, <5>1 DEF Memories
      <4>3. m1 = [m0 EXCEPT ![w + 1] = size - w]
        BY <3>1
      <4> HIDE DEF m0
      <4>4. m1 \in Memories(size) /\ m1[w + 1] = size - w
            /\ \A i \in 0 .. size : i # w + 1 => m1[i] = m0[i]
        BY <4>1, <4>2, <4>3 DEF Memories
      <4> QED BY <4>1, <4>2, <4>4
    <3>4. v1 \in Numbers(size) /\ Filled(h, s, c, m1, v1, e, 0, size)
          /\ v1[e] = v[e] /\ v1[0] = v[w]
      <4>1. \A i \in 1 .. w - 1 : m1[i] = m[i]
        BY <1>1, <3>3, SMTT(30)
      <4>2. m1[w] = Rewind /\ m1[w + 1] = size - w
        BY <3>3
      <4>3. v1 \in Numbers(size) /\ v1[0] = v[w] /\ \A i \in 1 .. size : v1[i] = v[i]
        BY <1>7, <3>1
      <4>4. Filled(h, s, c, m1, v1, e, 0, size) /\ v1[e] = v[e]
        BY <1>1, <3>2, <4>1, <4>2, <4>3, FilledRewind, SMTT(30)
      <4> QED BY <4>3, <4>4
    <3>5. Put(m1, 0, <<>>) \in Memories(size) /\ Put(m1, 0, <<>>)[0] = Eos
          /\ \A i \in 0 .. size : i > 0 => Put(m1, 0, <<>>)[i] = m1[i]
      <4>1. 0 \in 0 .. size
        OBVIOUS
      <4>2. /\ Put(m1, 0, <<>>) \in Memories(size)
            /\ Put(m1, 0, <<>>)[0] = Eos
            /\ \A i \in 0 .. size : i # 0 => Put(m1, 0, <<>>)[i] = m1[i]
        BY <3>3, <4>1, PutNothing
      <4> QED BY <4>2
    <3>6. Filled(h, s, c, Put(m1, 0, <<>>), v1, e, 0, size)
      <4>1. w \in 0 .. size /\ w > 0 /\ w + 1 \in 0 .. size /\ w + 1 > 0
        BY <1>1, <3>2
      <4>2. \A i \in 1 .. w - 1 : Put(m1, 0, <<>>)[i] = m[i]
        BY <1>1, <3>3, <3>5
      <4>3. Put(m1, 0, <<>>)[w] = Rewind /\ Put(m1, 0, <<>>)[w + 1] = size - w
        BY <3>3, <3>5, <4>1
      <4> DEFINE m3 == Put(m1, 0, <<>>)
      <4> HIDE DEF m3
      <4>4. /\ \A i \in 1 .. w - 1 : m3[i] = m[i]
            /\ m3[w] = Rewind /\ m3[w + 1] = size - w
        BY <4>2, <4>3 DEF m3
      <4>5. v1[0] = v[w] /\ \A i \in 1 .. size : v1[i] = v[i]
        BY <1>7, <3>1
      <4>6. Filled(h, s, c, m3, v1, e, 0, size)
        BY <1>1, <3>2, <4>4, <4>5, FilledRewind, SMTT(30)
      <4> QED BY <4>6 DEF m3
    <3>7. free - n >= reserve => 0 + n < size /\ 0 + n < e
      BY <1>1, <3>1, <3>2, SMTT(30) DEF Behind
    <3>8. 0 \in 0 .. size - 1
      BY <1>1
    <3> QED BY <3>1, <3>3, <3>4, <3>5, <3>6, <3>7, <3>8
  <2> QED BY <2>2, <2>3
<1>5. ASSUME ~put.ok
      PROVE  Sent(h, s, c, v, e, put.box, size, v[w])
  <2>1. CASE wraps /\ free < reserve
    <3>1. put.box = ring
      BY <1>2, <2>1 DEF Failure
    <3> HIDE DEF wraps, m1, v1, start, free, skipped, n
    <3> QED BY <1>1, <3>1 DEF Sent
  <2>2. CASE ~(wraps /\ free < reserve)
    <3>1. put.box = [mem |-> Put(m1, start, <<>>), write |-> start, free |-> free]
      BY <1>2, <1>5, <2>2 DEF Failure
    <3> HIDE DEF wraps, m1, v1, start, free, skipped, w, n
    <3>2. put.box.mem = Put(m1, start, <<>>) /\ put.box.write = start
      BY <3>1
    <3> QED BY <1>4, <2>2, <3>2 DEF Sent
  <2> QED BY <2>1, <2>2
<1>6. ASSUME put.ok, LaysOne(h, s, v[w], words)
      PROVE  Sent(h, s, c, v, e, put.box, size, IdBehind(h, v[w], words))
  <2>1. /\ ~(wraps /\ free < reserve) /\ free - n >= reserve
        /\ put.box = [mem |-> Put(m1, start, words), write |-> start + n, free |-> free - n]
    <3>1. free \in Int /\ reserve \in Int
      BY <1>1
    <3> HIDE DEF wraps, m1, v1, start, free, skipped, w, n
    <3>2. free - n \in Int
      BY <3>1 DEF n
    <3> QED BY <1>2, <1>6, <3>1, <3>2 DEF Failure
  <2> HIDE DEF wraps, m1, v1, start, free, skipped, w
  <2>2. put.box.mem = Put(m1, start, words) /\ put.box.write = start + n
    BY <2>1
  <2>3. start + n \in 0 .. size - 1 /\ start + n < size /\ (start < e => start + n < e)
    <3>1. start \in 0 .. size - 1 /\ start + n < size /\ (start < e => start + n < e)
      BY <1>4, <2>1
    <3> QED BY <1>1, <3>1
  <2>4. /\ m1 \in Memories(size) /\ v1 \in Numbers(size)
        /\ start \in 0 .. size - 1
        /\ Filled(h, s, c, m1, v1, e, start, size)
        /\ v1[e] = v[e] /\ v1[start] = v[w]
    BY <1>4, <2>1
  <2>5. LaysOne(h, s, v1[start], words)
    BY <1>6, <2>4
  <2> DEFINE v2 == Numbered(v1, start, Len(words), IdBehind(h, v1[start], words), size)
  <2>6. /\ Put(m1, start, words) \in Memories(size) /\ v2 \in Numbers(size)
        /\ Filled(h, s, c, Put(m1, start, words), v2, e, start + Len(words), size)
        /\ v2[e] = v1[e]
        /\ v2[start + Len(words)] = IdBehind(h, v1[start], words)
        /\ Put(m1, start, words)[start + Len(words)] = Eos
    BY <2>3, <2>4, <2>5, FilledPut
  <2> HIDE DEF v2
  <2> QED BY <2>2, <2>3, <2>4, <2>6 DEF Sent
<1> QED BY <1>3, <1>5, <1>6 DEF put

(* The five ways through sendusersignal.                                   *)
LEMMA SendIntoCases ==
  ASSUME NEW ring, NEW words, NEW size \in Nat, NEW reserve \in {0, 1},
         ring.write \in 0 .. size - 1, ring.free \in Int, Len(words) \in Nat
  PROVE  LET put  == SendInto(ring, words, size, reserve)
             n    == Len(words)
             w    == ring.write
             skip == size - ring.write IN
         \/ /\ w + n < size /\ ring.free - n < reserve
            /\ ~put.ok /\ put.box.write = w /\ put.box.free = ring.free
         \/ /\ w + n < size /\ ring.free - n >= reserve
            /\ put.ok /\ put.box.write = w + n /\ put.box.free = ring.free - n
            /\ put.box.mem = Put(ring.mem, w, words)
         \/ /\ w + n >= size /\ ring.free - skip < reserve
            /\ ~put.ok /\ put.box.write = w /\ put.box.free = ring.free
         \/ /\ w + n >= size /\ ring.free - skip >= reserve /\ ring.free - skip - n < reserve
            /\ ~put.ok /\ put.box.write = 0 /\ put.box.free = ring.free - skip
         \/ /\ w + n >= size /\ ring.free - skip - n >= reserve
            /\ put.ok /\ put.box.write = n /\ put.box.free = ring.free - skip - n
<1> DEFINE n       == Len(words)
           w       == ring.write
           f       == ring.free
           skip    == size - w
           put     == SendInto(ring, words, size, reserve)
<1>1. CASE w + n < size
  <2>1. ~(w + n >= size)
    BY <1>1
  <2>2. put = IF (f - 0) - n < reserve
              THEN Failure([mem |-> Put(ring.mem, w, <<>>), write |-> w, free |-> f - 0])
              ELSE [box |-> [mem |-> Put(ring.mem, w, words), write |-> w + n, free |-> (f - 0) - n],
                    ok |-> TRUE]
    BY <2>1 DEF SendInto
  <2>3. f - 0 = f /\ f - n \in Int /\ reserve \in Int
    OBVIOUS
  <2> HIDE DEF put
  <2> QED BY <1>1, <2>2, <2>3 DEF Failure, put
<1>2. CASE w + n >= size
  <2> DEFINE m == [ring.mem EXCEPT ![w] = Rewind, ![w + 1] = skip]
  <2>1. put = IF f - skip < reserve THEN Failure(ring)
              ELSE IF (f - skip) - n < reserve
              THEN Failure([mem |-> Put(m, 0, <<>>), write |-> 0, free |-> f - skip])
              ELSE [box |-> [mem |-> Put(m, 0, words), write |-> 0 + n, free |-> (f - skip) - n],
                    ok |-> TRUE]
    BY <1>2 DEF SendInto
  <2>2. f - skip \in Int /\ (f - skip) - n \in Int /\ reserve \in Int /\ 0 + n = n
    OBVIOUS
  <2> HIDE DEF put, m
  <2>3. CASE f - skip < reserve
    BY <1>2, <2>1, <2>3 DEF Failure, put
  <2>4. CASE f - skip >= reserve /\ (f - skip) - n < reserve
    <3>1. put = Failure([mem |-> Put(m, 0, <<>>), write |-> 0, free |-> f - skip])
      BY <2>1, <2>2, <2>4
    <3>2. ~put.ok /\ put.box.write = 0 /\ put.box.free = f - skip
      BY <3>1 DEF Failure
    <3> QED BY <1>2, <2>4, <3>2 DEF put
  <2>5. CASE (f - skip) - n >= reserve
    <3>1. put = [box |-> [mem |-> Put(m, 0, words), write |-> 0 + n, free |-> (f - skip) - n],
                    ok |-> TRUE]
      BY <2>1, <2>2, <2>5
    <3>2. put.ok /\ put.box.write = n /\ put.box.free = f - skip - n
      BY <2>2, <3>1
    <3> QED BY <1>2, <2>5, <3>2 DEF put
  <2> QED BY <2>2, <2>3, <2>4, <2>5
<1> QED BY <1>1, <1>2

(* SendIntoIsExact for a reader who may have given back less than he has   *)
(* read.                                                                   *)
LEMMA SendIntoMoves ==
  ASSUME NEW size \in Nat, NEW reserve \in {0, 1}, NEW p \in 0 .. size - 1,
         NEW ring, ring.write \in 0 .. size - 1, ring.free \in Int, ring.free >= reserve,
         NEW words, Len(words) \in Nat,
         ring.free <= size - 1 + reserve - Behind(p, ring.write, size)
  PROVE  LET new == SendInto(ring, words, size, reserve).box IN
         /\ new.write \in 0 .. size - 1
         /\ new.free \in reserve .. ring.free
         /\ new.free + Behind(p, new.write, size) = ring.free + Behind(p, ring.write, size)
<1> DEFINE n == Len(words)
           w == ring.write
           f == ring.free
           put == SendInto(ring, words, size, reserve)
<1>1. \/ put.box.write = w /\ put.box.free = f
      \/ w + n < size /\ f - n >= reserve /\ put.box.write = w + n /\ put.box.free = f - n
      \/ /\ w + n >= size /\ f - (size - w) >= reserve /\ put.box.write = 0
         /\ put.box.free = f - (size - w)
      \/ /\ w + n >= size /\ f - (size - w) - n >= reserve /\ put.box.write = n
         /\ put.box.free = f - (size - w) - n
  BY SendIntoCases, SMTT(30)
<1>2. w \in 0 .. size - 1 /\ f \in Int /\ n \in Nat /\ f >= reserve
      /\ f <= size - 1 + reserve - Behind(p, w, size)
  OBVIOUS
<1> HIDE DEF put, w, f, n
<1>3. CASE put.box.write = w /\ put.box.free = f
  BY <1>2, <1>3 DEF put, w, f
<1>4. CASE w + n < size /\ f - n >= reserve /\ put.box.write = w + n /\ put.box.free = f - n
  <2>1. w + n \in 0 .. size - 1 /\ f - n \in reserve .. f
    BY <1>2, <1>4
  <2>2. f - n + Behind(p, w + n, size) = f + Behind(p, w, size)
    <3>1. CASE w >= p
      <4>1. Behind(p, w, size) = w - p /\ Behind(p, w + n, size) = w + n - p
        BY <1>2, <3>1 DEF Behind
      <4> QED BY <1>2, <4>1
    <3>2. CASE ~(w >= p)
      <4>1. Behind(p, w, size) = w - p + size
        BY <3>2 DEF Behind
      <4>2. w + n < p
        BY <1>2, <1>4, <3>2, <4>1
      <4>3. Behind(p, w + n, size) = w + n - p + size
        BY <1>2, <4>2 DEF Behind
      <4> QED BY <1>2, <4>1, <4>3
    <3> QED BY <3>1, <3>2
  <2> QED BY <1>4, <2>1, <2>2 DEF put, w, f
<1>5. CASE /\ w + n >= size /\ f - (size - w) >= reserve /\ put.box.write = 0
           /\ put.box.free = f - (size - w)
  <2>1. 0 \in 0 .. size - 1 /\ f - (size - w) \in reserve .. f
    BY <1>2, <1>5
  <2>2. f - (size - w) + Behind(p, 0, size) = f + Behind(p, w, size)
    BY <1>2, <1>5 DEF Behind
  <2> QED BY <1>5, <2>1, <2>2 DEF put, w, f
<1>6. CASE /\ w + n >= size /\ f - (size - w) - n >= reserve /\ put.box.write = n
           /\ put.box.free = f - (size - w) - n
  <2>1. p <= w /\ n < p
    <3>1. reserve \in Int /\ p \in 0 .. size - 1
      OBVIOUS
    <3>2. CASE w >= p
      <4>1. Behind(p, w, size) = w - p
        BY <3>2 DEF Behind
      <4> QED BY <1>2, <1>6, <3>1, <3>2, <4>1
    <3>3. CASE ~(w >= p)
      <4>1. Behind(p, w, size) = w - p + size
        BY <3>3 DEF Behind
      <4> QED BY <1>2, <1>6, <3>1, <3>3, <4>1
    <3> QED BY <3>2, <3>3
  <2>2. n \in 0 .. size - 1 /\ f - (size - w) - n \in reserve .. f
    BY <1>2, <1>6, <2>1
  <2>3. f - (size - w) - n + Behind(p, n, size) = f + Behind(p, w, size)
    BY <1>2, <1>6, <2>1 DEF Behind
  <2> QED BY <1>6, <2>2, <2>3 DEF put, w, f
<1> QED BY <1>1, <1>3, <1>4, <1>5, <1>6

-----------------------------------------------------------------------------
(* Facts about constants and types.                                        *)

(* A set of numbers has a smallest one.                                    *)
LEMMA Smallest ==
  ASSUME NEW S, S \subseteq Nat, S # {}
  PROVE  \E m \in S : \A k \in S : m <= k
<1> DEFINE Less == OpToRel(<, Nat)
<1>1. \A x, y \in Nat : <<x, y>> \in Less <=> x < y
  BY DEF OpToRel
<1>2. IsWellFoundedOn(Less, Nat)
  BY NatLessThanWellFounded
<1> HIDE DEF Less
<1>3. PICK m \in S : \A y \in S : ~(<<y, m>> \in Less)
  BY <1>2, WFMin
<1>4. \A y \in S : ~(y < m)
  BY <1>1, <1>3
<1> QED BY <1>4

Longest == Max(Lengths)

(* The assumptions on the constants in one place, with the longest         *)
(* signal.                                                                 *)
LEMMA LengthFacts ==
  /\ Longest \in Lengths /\ Longest \in Nat \ {0}
  /\ \A n \in Lengths : n \in Nat \ {0} /\ n <= Longest
  /\ 2 * Longest < UserWords /\ 2 * (Longest + 1) < KernelWords
  /\ UserWords \in Nat /\ KernelWords \in Nat /\ RunWords \in Nat \ {0}
  /\ UserWords > 2 /\ KernelWords > 4 /\ MaxSent \in Nat
<1>1. /\ Lengths # {} /\ Lengths \subseteq Nat \ {0}
      /\ \A n \in Lengths : 2 * n < UserWords /\ 2 * (n + 1) < KernelWords
      /\ UserWords \in Nat /\ KernelWords \in Nat /\ RunWords \in Nat \ {0} /\ MaxSent \in Nat
  BY CalmAssumption, SizeAssumption DEF LengthAssumption
<1> DEFINE Bounds == {m \in Nat : \A n \in Lengths : n <= m}
<1>2. UserWords \in Bounds
  BY <1>1
<1>3. PICK l \in Bounds : \A k \in Bounds : l <= k
  BY <1>2, Smallest
<1>4. l \in Lengths
  <2>1. SUFFICES ASSUME l \notin Lengths PROVE FALSE
    OBVIOUS
  <2>2. l \in Nat /\ \A n \in Lengths : n \in Nat \ {0} /\ n <= l /\ n # l
    BY <1>1, <1>3, <2>1
  <2>3. l - 1 \in Nat
    <3>1. PICK n \in Lengths : TRUE
      BY <1>1
    <3>2. n \in Nat \ {0} /\ n <= l
      BY <2>2
    <3> QED BY <2>2, <3>2
  <2>4. l - 1 \in Bounds
    BY <2>2, <2>3
  <2> QED BY <1>3, <2>2, <2>4
<1>5. \A n \in Lengths : l >= n
  BY <1>1, <1>3
<1>6. Longest \in Lengths /\ \A n \in Lengths : Longest >= n
  BY <1>4, <1>5 DEF Longest, Max
<1>7. Longest \in Nat \ {0} /\ \A n \in Lengths : n \in Nat \ {0} /\ n <= Longest
  BY <1>1, <1>6
<1> QED BY <1>1, <1>6, <1>7

(* What the type invariant says of each variable.                          *)
LEMMA TypeFacts ==
  ASSUME Types
  PROVE  /\ msgbox.mem \in Memories(KernelWords) /\ msgbox.write \in 0 .. KernelWords - 1
         /\ msgbox.free \in 0 .. KernelWords - 1
         /\ box.mem \in Memories(UserWords) /\ box.write \in 0 .. UserWords - 1
         /\ box.free \in 0 .. UserWords
         /\ msgbox = [mem |-> msgbox.mem, write |-> msgbox.write, free |-> msgbox.free]
         /\ box = [mem |-> box.mem, write |-> box.write, free |-> box.free]
         /\ R \in 0 .. KernelWords - 1 /\ read_ptr \in 0 .. KernelWords - 1
         /\ signal \in 0 .. KernelWords - 1 /\ position \in 0 .. UserWords - 1
         /\ read_free \in Nat /\ siglen \in Nat /\ signaldw \in Nat /\ call.words \in Nat
         /\ sent \in Signals /\ Len(sent) \in Nat /\ Len(received) \in Nat
<1>1. msgbox \in Rings(KernelWords) /\ msgbox.free < KernelWords
      /\ read_ptr \in 0 .. KernelWords - 1 /\ signal \in 0 .. KernelWords - 1
      /\ box \in Rings(UserWords)
      /\ read_free \in 0 .. UserWords /\ siglen \in 0 .. UserWords
      /\ position \in 0 .. UserWords - 1 /\ signaldw \in Nat /\ call.words \in Nat
      /\ sent \in Seq(Lengths)
  BY DEF Types, TypeOK
<1>2. /\ msgbox.mem \in Memories(KernelWords) /\ msgbox.write \in 0 .. KernelWords - 1
      /\ msgbox.free \in 0 .. KernelWords
      /\ msgbox = [mem |-> msgbox.mem, write |-> msgbox.write, free |-> msgbox.free]
  BY <1>1 DEF Rings, Memories
<1>3. /\ box.mem \in Memories(UserWords) /\ box.write \in 0 .. UserWords - 1
      /\ box.free \in 0 .. UserWords
      /\ box = [mem |-> box.mem, write |-> box.write, free |-> box.free]
  BY <1>1 DEF Rings, Memories
<1>4. R \in 0 .. KernelWords - 1
  BY <1>1 DEF R
<1>5. sent \in Signals /\ Len(sent) \in Nat
  <2>1. Lengths \subseteq Nat \ {0}
    BY LengthFacts
  <2>2. Len(sent) \in Nat /\ sent \in [1 .. Len(sent) -> Lengths]
    BY <1>1
  <2>3. sent \in [1 .. Len(sent) -> Nat \ {0}]
    BY <2>1, <2>2
  <2> QED BY <2>2, <2>3 DEF Signals
<1>6. Len(received) \in Nat
  BY DEF Types
<1>7. msgbox.free \in 0 .. KernelWords - 1
  BY <1>1, <1>2, LengthFacts
<1>8. read_free \in Nat /\ siglen \in Nat
  BY <1>1, LengthFacts
<1> QED BY <1>1, <1>2, <1>3, <1>4, <1>5, <1>6, <1>7, <1>8

-----------------------------------------------------------------------------
(* The senders.                                                            *)

(* What is sent: the words and what the history gets.                      *)
IsMessage(words, accepted) ==
  \/ \E n \in Lengths : words = UserMessage(n) /\ accepted = <<n>>
  \/ words = SystemMessage /\ accepted = <<>>

(* The words of a signal for the program.                                  *)
LEMMA UserMessageWords ==
  ASSUME sent \in Signals, NEW n \in Nat \ {0}
  PROVE  LET words == UserMessage(n) IN
         /\ Len(words) = n + 1
         /\ words \in [1 .. n + 1 -> Int]
         /\ words[1] = HeaderCut(n)
         /\ words[2] = Len(sent) + 1
<1> DEFINE tail == [i \in 1 .. n |-> Len(sent) + 1]
           head == <<HeaderCut(n)>>
           words == UserMessage(n)
<1>1. Len(sent) + 1 \in Nat /\ HeaderCut(n) \in Int
  BY DEF HeaderCut, Signals
<1>2. tail \in Seq(Int) /\ Len(tail) = n /\ \A i \in 1 .. n : tail[i] = Len(sent) + 1
  BY <1>1
<1>3. head \in Seq(Int) /\ Len(head) = 1 /\ head[1] = HeaderCut(n)
  BY <1>1
<1>4. words = head \o tail
  BY DEF UserMessage
<1> HIDE DEF head, tail, words
<1>5. words \in Seq(Int) /\ Len(words) = n + 1 /\ words[1] = head[1] /\ words[2] = tail[1]
  <2>1. /\ words \in Seq(Int) /\ Len(words) = Len(head) + Len(tail)
        /\ \A i \in 1 .. Len(head) + Len(tail) :
             words[i] = IF i <= Len(head) THEN head[i] ELSE tail[i - Len(head)]
    BY <1>2, <1>3, <1>4, ConcatProperties
  <2>2. \A i \in 1 .. 1 + n : words[i] = IF i <= 1 THEN head[i] ELSE tail[i - 1]
    BY <1>2, <1>3, <2>1
  <2>3. 1 \in 1 .. 1 + n /\ 2 \in 1 .. 1 + n
    OBVIOUS
  <2>4. words[1] = head[1] /\ words[2] = tail[2 - 1]
    BY <2>2, <2>3
  <2> QED BY <1>2, <1>3, <2>1, <2>4
<1>6. words \in [1 .. n + 1 -> Int]
  BY <1>5
<1> QED BY <1>2, <1>3, <1>5, <1>6 DEF words

(* No message is half as long as the box of the kernel.                    *)
LEMMA MessageLength ==
  ASSUME sent \in Signals, NEW words, NEW accepted, IsMessage(words, accepted)
  PROVE  Len(words) \in Nat \ {0} /\ 2 * Len(words) < KernelWords
<1>1. CASE words = SystemMessage
  <2>1. Len(words) = 2
    BY <1>1 DEF SystemMessage
  <2> QED BY <2>1, LengthFacts
<1>2. CASE \E n \in Lengths : words = UserMessage(n)
  <2>1. PICK n \in Lengths : words = UserMessage(n)
    BY <1>2
  <2>2. n \in Nat \ {0} /\ n <= Longest
    BY LengthFacts
  <2>3. Len(words) = n + 1
    BY <2>1, <2>2, UserMessageWords
  <2> QED BY <2>2, <2>3, LengthFacts
<1> QED BY <1>1, <1>2 DEF IsMessage

(* The part of the invariant that does not speak of contents.              *)
Known == IInv /\ Types /\ Counts /\ Control

(* Both ways of sending, for a task whose box is not too small: whoever    *)
(* finds the box full finds it with signals in it.                         *)
Sends(words, accepted) ==
  LET put == KernelPut(words) IN
  /\ RequestSoftint
  /\ msgbox' = put.box
  /\ status' = TRUE
  /\ level' = (IF status THEN level ELSE "run")
  /\ oldLlv' = (IF status THEN oldLlv ELSE level)
  /\ sent' = (IF put.ok THEN sent \o accepted ELSE sent)
  /\ msgbox'.free # KernelWords - 1
  /\ msgbox'.free \in 0 .. msgbox.free
  /\ msgbox'.write \in 0 .. KernelWords - 1
  /\ msgbox'.free + Behind(read_ptr, msgbox'.write, KernelWords)
       = msgbox.free + Behind(read_ptr, msgbox.write, KernelWords)
  /\ handler = "read" =>
       msgbox'.free + Behind(signal, msgbox'.write, KernelWords)
         = msgbox.free + Behind(signal, msgbox.write, KernelWords)
  /\ UNCHANGED <<iret, call, handlerVars, boxVars, programVars, received>>

(* Both ways of sending do what Sends says.                                *)
LEMMA SendStep ==
  ASSUME Known, NEW words, NEW accepted, IsMessage(words, accepted),
         Send(words, accepted) \/ SendWithWait(words, accepted)
  PROVE  Sends(words, accepted)
<1> DEFINE put == KernelPut(words)
           n == Len(words)
           w == msgbox.write
           f == msgbox.free
           K == KernelWords
<1>1. Types /\ Counts /\ Control
  BY DEF Known
<1>2. /\ w \in 0 .. K - 1 /\ f \in 0 .. K - 1 /\ K \in Nat /\ call.words \in Nat /\ signaldw \in Nat
      /\ read_ptr \in 0 .. K - 1 /\ signal \in 0 .. K - 1
      /\ sent \in Signals
  BY <1>1, TypeFacts, LengthFacts
<1>3. n \in Nat \ {0} /\ 2 * n < K
  BY <1>2, MessageLength
<1>4. msgbox' = put.box /\ RequestSoftint /\ sent' = (IF put.ok THEN sent \o accepted ELSE sent)
      /\ UNCHANGED <<iret, call, handlerVars, boxVars, programVars, received>>
  BY DEF Send, SendWithWait
<1>5. put = SendInto(msgbox, words, K, 0)
  BY DEF KernelPut
<1>6. /\ f + 0 <= K - 1 + 0 - Behind(read_ptr, w, K)
      /\ handler = "read" => f <= K - 1 + 0 - Behind(signal, w, K)
  <2>1. f + (IF call.op = "ret" THEN call.words ELSE 0) = K - 1 - Behind(read_ptr, w, K)
        /\ (handler = "read" => f = K - 1 - signaldw - Behind(signal, w, K))
    BY <1>1 DEF Counts, CountsAreExact
  <2>2. Behind(read_ptr, w, K) \in Int /\ Behind(signal, w, K) \in Int
    BY <1>2 DEF Behind
  <2> HIDE DEF f, w, K
  <2> QED BY <1>2, <2>1, <2>2
<1>7. /\ put.box.write \in 0 .. K - 1
      /\ put.box.free \in 0 .. f
      /\ put.box.free + Behind(read_ptr, put.box.write, K) = f + Behind(read_ptr, w, K)
  BY <1>2, <1>3, <1>5, <1>6, SendIntoMoves
<1>8. handler = "read" =>
        put.box.free + Behind(signal, put.box.write, K) = f + Behind(signal, w, K)
  BY <1>2, <1>3, <1>5, <1>6, SendIntoMoves
<1>9. \/ put.ok /\ put.box.free < f
      \/ ~put.ok /\ f < K - 1
  <2>1. \/ w + n < K /\ f - n < 0 /\ ~put.ok
        \/ w + n < K /\ f - n >= 0 /\ put.ok /\ put.box.free = f - n
        \/ w + n >= K /\ f - (K - w) < 0 /\ ~put.ok
        \/ w + n >= K /\ f - (K - w) - n < 0 /\ ~put.ok
        \/ w + n >= K /\ put.ok /\ put.box.free = f - (K - w) - n
    BY <1>2, <1>3, <1>5, SendIntoCases
  <2> HIDE DEF put, n, w, f, K
  <2> QED BY <1>2, <1>3, <2>1
<1>10. put.box.free # K - 1 /\ (~put.ok => status)
  <2>1. status <=> f # K - 1
    BY <1>1 DEF Control
  <2> HIDE DEF put, n, w, f, K
  <2> QED BY <1>2, <1>7, <1>9, <2>1
<1>11. status' = TRUE /\ level' = (IF status THEN level ELSE "run")
       /\ oldLlv' = (IF status THEN oldLlv ELSE level)
  <2>1. CASE put.ok \/ Send(words, accepted)
    BY <2>1 DEF Send, SendWithWait, Wake
  <2>2. CASE ~put.ok /\ SendWithWait(words, accepted)
    <3>1. status \in BOOLEAN /\ status
      BY <1>1, <1>10, <2>2 DEF Types, TypeOK
    <3> QED BY <2>2, <3>1 DEF SendWithWait
  <2> QED BY <2>1, <2>2
<1> HIDE DEF put, n, w, f, K
<1> QED BY <1>4, <1>7, <1>8, <1>10, <1>11 DEF Sends, put, n, w, f, K

(* Sending keeps the control invariant: who is woken had found nothing.    *)
LEMMA SendControl ==
  ASSUME Known, NEW words, NEW accepted, Sends(words, accepted)
  PROVE  Control'
<1>1. Control /\ IInv
  BY DEF Known
<1>2. nest = 0 => /\ ~request /\ call.op # "ret"
                  /\ call.llv # "sleep"
  <2>1. nest = 0 => call.op # "ret" /\ (call.al = 128 => phase \in {"enter", "given", "woken"}) /\ ~request
    BY <1>1, ZeroNestMeansUnmasked
  <2> QED BY <1>1, <2>1 DEF Control
<1>3. ~status /\ level = "sleep" => nest = 0
  <2>1. ASSUME ~status, level = "sleep"
        PROVE  nest = 0
    <3>1. phase = "slept" /\ ~request /\ handler # "read" /\ ~boxfull /\ call = NoCall
      <4>1. read_free = 0 /\ phase = "slept" /\ call = NoCall /\ handler = "out" /\ ~request
        BY <1>1, <2>1 DEF Control
      <4>2. ~boxfull
        BY <1>1, <4>1 DEF Control
      <4> QED BY <4>1, <4>2
    <3> QED BY <1>1, <3>1, AsleepMeansUnmasked DEF NoCall
  <2> QED BY <2>1
<1>4. /\ nest' = (IF nest = 0 THEN 255 ELSE nest)
      /\ request' = (request \/ nest = 0)
      /\ status' = TRUE
      /\ level' = (IF status THEN level ELSE "run")
      /\ oldLlv' = (IF status THEN oldLlv ELSE level)
      /\ msgbox'.free # KernelWords - 1
      /\ UNCHANGED <<iret, call, frame, handler, read_free, boxfull, phase>>
  BY DEF Sends, RequestSoftint, handlerVars, boxVars, programVars
<1>5. level' = "run" \/ (status /\ level' = level)
  BY <1>4
<1>6. level' = "run"
  BY <1>1, <1>4, <1>5 DEF Control, Known, Types, TypeOK, Levels
<1>7. status' /\ oldLlv' = "sleep" => /\ phase = "slept" /\ call.op # "nest" /\ (request' \/ handler # "out")
                                   /\ ~boxfull /\ (handler = "out" => read_free = 0)
  <2>1. CASE status
    BY <1>1, <1>4, <2>1 DEF Control
  <2>2. CASE ~status
    <3>1. ASSUME level = "sleep"
          PROVE  phase = "slept" /\ call.op # "nest" /\ request' /\ ~boxfull /\ read_free = 0
      <4>1. read_free = 0 /\ phase = "slept" /\ call = NoCall
        BY <1>1, <3>1 DEF Control
      <4>2. ~boxfull
        BY <1>1, <4>1 DEF Control
      <4> QED BY <1>3, <1>4, <2>2, <3>1, <4>1, <4>2 DEF NoCall
    <3> QED BY <1>4, <2>2, <3>1
  <2> QED BY <2>1, <2>2
<1>8. (status <=> msgbox.free # KernelWords - 1)' /\ (nest = 0 => ~status)' /\ (request => status)'
  BY <1>4
<1>9. (call.op = "ret" => ~request /\ level = "run")'
      /\ (call.op = "nest" => level = "run" /\ handler = "out" /\ call.words = 0)'
      /\ (call.llv = "sleep" => call.op = "nest" /\ call.al = 128 /\ phase = "slept" /\ read_free = 0 /\ ~request)'
  BY <1>1, <1>2, <1>4, <1>6 DEF Control
<1>10. (boxfull => read_free > 0)' /\ (frame = "none" <=> handler = "out")'
       /\ (frame = "sleep" => phase = "slept" /\ read_free = 0)'
       /\ (handler = "left" => iret \/ call.op = "ret")'
  BY <1>1, <1>4 DEF Control
<1> QED BY <1>4, <1>6, <1>7, <1>8, <1>9, <1>10 DEF Control

(* What sendusersignal returns is a ring.                                  *)
LEMMA SendIntoShape ==
  ASSUME NEW ring, ring = [mem |-> ring.mem, write |-> ring.write, free |-> ring.free],
         NEW words, NEW size, NEW reserve
  PROVE  LET new == SendInto(ring, words, size, reserve).box IN
         new = [mem |-> new.mem, write |-> new.write, free |-> new.free]
<1> DEFINE wraps   == ring.write + Len(words) >= size
           skipped == IF wraps THEN size - ring.write ELSE 0
           start   == IF wraps THEN 0 ELSE ring.write
           free    == ring.free - skipped
           mem     == IF wraps THEN [ring.mem EXCEPT ![ring.write] = Rewind,
                                                     ![ring.write + 1] = skipped]
                      ELSE ring.mem
           put     == SendInto(ring, words, size, reserve)
<1>1. put = IF wraps /\ free < reserve THEN Failure(ring)
            ELSE IF free - Len(words) < reserve
            THEN Failure([mem |-> Put(mem, start, <<>>), write |-> start, free |-> free])
            ELSE [box |-> [mem |-> Put(mem, start, words), write |-> start + Len(words),
                           free |-> free - Len(words)],
                  ok |-> TRUE]
  BY DEF SendInto
<1> HIDE DEF put, wraps, free, mem, start, skipped
<1>2. \/ put.box = ring
      \/ \E m, w, f : put.box = [mem |-> m, write |-> w, free |-> f]
  BY <1>1 DEF Failure
<1>3. put.box = [mem |-> put.box.mem, write |-> put.box.write, free |-> put.box.free]
  <2>1. CASE put.box = ring
    BY <2>1
  <2>2. CASE \E m, w, f : put.box = [mem |-> m, write |-> w, free |-> f]
    <3>1. PICK m, w, f : put.box = [mem |-> m, write |-> w, free |-> f]
      BY <2>2
    <3> QED BY <3>1
  <2> QED BY <1>2, <2>1, <2>2
<1> QED BY <1>3 DEF put

(* What waits in the kernel's box is not more than the words used in it.   *)
LEMMA PendingFacts ==
  ASSUME Known, NEW c, NEW vK, NEW vB, RingsHold(c, vK, vB)
  PROVE  /\ vK[R] \in 1 .. Len(sent) + 1
         /\ c[Len(sent) + 1] \in Nat /\ c[vK[R]] \in Nat
         /\ Pending(c, vK) \in Nat
         /\ KernelUsed \in Nat /\ Pending(c, vK) <= KernelUsed
         /\ msgbox.free <= KernelWords - 1 + 0 - Behind(R, msgbox.write, KernelWords)
<1> DEFINE w == msgbox.write
           f == msgbox.free
           K == KernelWords
<1>1. Types /\ Counts /\ Control
  BY DEF Known
<1>2. /\ w \in 0 .. K - 1 /\ f \in 0 .. K - 1 /\ K \in Nat /\ call.words \in Nat /\ signaldw \in Nat
      /\ R \in 0 .. K - 1 /\ read_ptr \in 0 .. K - 1 /\ signal \in 0 .. K - 1
      /\ sent \in Signals /\ Len(sent) \in Nat /\ msgbox.mem \in Memories(K)
  BY <1>1, TypeFacts, LengthFacts
<1>3. /\ Sums(sent, c) /\ vK \in Numbers(K)
      /\ Filled(1, sent, c, msgbox.mem, vK, R, w, K)
      /\ vK[w] = Len(sent) + 1
  BY DEF RingsHold, Numbers
<1>4. /\ vK[R] \in 1 .. Len(sent) + 1
      /\ c[vK[R]] \in Nat /\ c[vK[w]] \in Nat
      /\ c[vK[w]] - c[vK[R]] <= Behind(R, w, K)
      /\ Behind(R, w, K) \in 0 .. K - 1
  BY <1>2, <1>3, FilledPending
<1>5. c[vK[R]] <= c[Len(sent) + 1]
  BY <1>2, <1>3, <1>4 DEF Sums
<1>6. f <= K - 1 + 0 - Behind(R, w, K)
  <2>1. f + (IF call.op = "ret" THEN call.words ELSE 0) = K - 1 - Behind(read_ptr, w, K)
        /\ (handler = "read" => f = K - 1 - signaldw - Behind(signal, w, K))
    BY <1>1 DEF Counts, CountsAreExact
  <2>2. Behind(read_ptr, w, K) \in Int /\ Behind(signal, w, K) \in Int
    BY <1>2, SMTT(30) DEF Behind
  <2>3. R = (IF handler = "read" THEN signal ELSE read_ptr)
    BY DEF R
  <2> HIDE DEF f, w, K
  <2> QED BY <1>2, <2>1, <2>2, <2>3, SMTT(30)
<1>7. Pending(c, vK) = c[vK[w]] - c[vK[R]] /\ KernelUsed = K - 1 - f
  BY <1>3 DEF Pending, KernelUsed
<1> HIDE DEF w, f, K
<1>8. Pending(c, vK) \in Nat /\ KernelUsed \in Nat /\ Pending(c, vK) <= KernelUsed
  BY <1>2, <1>3, <1>4, <1>5, <1>6, <1>7, SMTT(30)
<1> QED BY <1>3, <1>4, <1>6, <1>8 DEF w, f, K

(* When senders are calm, the signal fits or waits alone.                  *)
LEMMA CalmFits ==
  ASSUME Known, NEW c, NEW vK, NEW vB, RingsHold(c, vK, vB), Calm
  PROVE  /\ Fit(Pending(c, vK))
         /\ \/ \A n \in Lengths : Fit(Pending(c, vK) + n)
            \/ Alone /\ Pending(c, vK) = 0
<1> DEFINE p == Pending(c, vK)
<1>1. p \in Nat /\ KernelUsed \in Nat /\ p <= KernelUsed
  BY PendingFacts
<1>2. read_free \in Nat /\ box.write \in 0 .. UserWords - 1 /\ read_free < UserWords
  BY TypeFacts, LengthFacts DEF Known, Counts
<1>3. /\ Longest \in Nat \ {0} /\ UserWords \in Nat
      /\ \A n \in Lengths : n \in Nat \ {0} /\ n <= Longest
  BY LengthFacts
<1> HIDE DEF p
<1>4. CASE Fitting
  <2>1. read_free + KernelUsed + 2 * Longest < UserWords
    BY <1>4 DEF Fitting, Longest
  <2>2. Fit(p)
    BY <1>1, <1>2, <1>3, <2>1 DEF Fit, Longest
  <2>3. ASSUME NEW n \in Lengths PROVE Fit(p + n)
    BY <1>1, <1>2, <1>3, <2>1 DEF Fit, Longest
  <2> QED BY <2>2, <2>3 DEF p
<1>5. CASE Alone
  <2>1. p = 0
    BY <1>1, <1>5 DEF Alone
  <2>2. Fit(p)
    BY <1>2, <1>3, <2>1 DEF Fit
  <2> QED BY <1>5, <2>1, <2>2 DEF p
<1> QED BY <1>4, <1>5 DEF Calm

(* The contents of the boxes are right.                                    *)
Held == \E c, vK, vB : RingsHold(c, vK, vB) /\ CalmHolds(c, vK)

(* One more signal in the history.                                         *)
LEMMA HistoryGrows ==
  ASSUME NEW s, s \in Seq(Lengths), NEW n \in Lengths, NEW c, Sums(s, c)
  PROVE  /\ s \o <<n>> \in Seq(Lengths) /\ s \o <<n>> \in Signals
         /\ Len(s \o <<n>>) = Len(s) + 1
         /\ (s \o <<n>>)[Len(s) + 1] = n
         /\ \E c2 : /\ Sums(s \o <<n>>, c2)
                    /\ GoesOn(s, c, s \o <<n>>, c2)
                    /\ c2[Len(s) + 2] = c[Len(s) + 1] + n
<1> DEFINE s2 == s \o <<n>>
           L == Len(s)
           c2 == [k \in 1 .. L + 2 |-> IF k = L + 2 THEN c[L + 1] + n ELSE c[k]]
<1>1. L \in Nat /\ n \in Nat \ {0} /\ c \in [1 .. L + 1 -> Nat]
  BY LengthFacts DEF Sums
<1>2. /\ s2 \in Seq(Lengths) /\ Len(s2) = L + 1
      /\ \A k \in 1 .. L : s2[k] = s[k]
      /\ s2[L + 1] = n
  <2>1. <<n>> \in Seq(Lengths) /\ Len(<<n>>) = 1 /\ <<n>>[1] = n
    OBVIOUS
  <2>2. /\ s2 \in Seq(Lengths) /\ Len(s2) = L + 1
        /\ \A k \in 1 .. L + 1 : s2[k] = IF k <= L THEN s[k] ELSE <<n>>[k - L]
    BY <2>1, ConcatProperties
  <2>3. \A k \in 1 .. L : s2[k] = s[k]
    BY <1>1, <2>2
  <2>4. s2[L + 1] = <<n>>[(L + 1) - L]
    BY <1>1, <2>2
  <2> HIDE DEF s2
  <2> QED BY <1>1, <2>1, <2>2, <2>3, <2>4
<1> HIDE DEF s2
<1>3. s2 \in Signals
  <2>1. s2 \in [1 .. L + 1 -> Lengths]
    BY <1>1, <1>2
  <2>2. s2 \in [1 .. L + 1 -> Nat \ {0}]
    BY <2>1, LengthFacts
  <2>3. L + 1 \in Nat
    BY <1>1
  <2> QED BY <2>2, <2>3 DEF Signals
<1>4. /\ c2 \in [1 .. L + 2 -> Nat]
      /\ \A k \in 1 .. L + 1 : c2[k] = c[k]
      /\ c2[L + 2] = c[L + 1] + n
  BY <1>1
<1> HIDE DEF c2
<1>5. \A k \in 1 .. Len(s2) : c2[k + 1] = c2[k] + s2[k]
  <2> TAKE k \in 1 .. Len(s2)
  <2>1. CASE k \in 1 .. L
    <3>1. c[k + 1] = c[k] + s[k]
      BY <2>1 DEF Sums
    <3>2. k + 1 \in 1 .. L + 1 /\ k \in 1 .. L + 1
      BY <1>1, <2>1
    <3> QED BY <1>2, <1>4, <2>1, <3>1, <3>2
  <2>2. CASE k = L + 1
    BY <1>1, <1>2, <1>4, <2>2
  <2> QED BY <1>1, <1>2, <2>1, <2>2
<1>6. \A j, k \in 1 .. Len(s2) + 1 : j <= k => c2[j] <= c2[k]
  <2> TAKE j, k \in 1 .. Len(s2) + 1
  <2> HAVE j <= k
  <2>1. CASE k \in 1 .. L + 1
    <3>1. j \in 1 .. L + 1
      BY <1>1, <2>1
    <3>2. c[j] <= c[k]
      BY <2>1, <3>1 DEF Sums
    <3> QED BY <1>4, <2>1, <3>1, <3>2
  <2>2. CASE k = L + 2 /\ j \in 1 .. L + 1
    <3>1. c[j] <= c[L + 1] /\ c[j] \in Nat /\ c[L + 1] \in Nat
      <4>1. /\ \A i, k1 \in 1 .. L + 1 : i <= k1 => c[i] <= c[k1]
        BY DEF Sums
      <4>2. L + 1 \in 1 .. L + 1 /\ j <= L + 1
        BY <1>1, <2>2
      <4> QED BY <1>1, <2>2, <4>1, <4>2
    <3> QED BY <1>1, <1>4, <2>2, <3>1
  <2>3. CASE k = L + 2 /\ j = L + 2
    BY <1>1, <1>4, <2>3
  <2> QED BY <1>1, <1>2, <2>1, <2>2, <2>3
<1>7. Sums(s2, c2)
  <2>1. Len(s2) + 1 = L + 2
    BY <1>1, <1>2
  <2> QED BY <1>4, <1>5, <1>6, <2>1 DEF Sums
<1>8. GoesOn(s, c, s2, c2)
  BY <1>1, <1>2, <1>4 DEF GoesOn
<1> QED BY <1>2, <1>3, <1>4, <1>7, <1>8 DEF s2

(* Sending keeps types and counts.                                         *)
LEMMA SendTypes ==
  ASSUME Known, NEW words, NEW accepted, IsMessage(words, accepted), Sends(words, accepted),
         msgbox'.mem \in Memories(KernelWords)
  PROVE  Types' /\ Counts'
<1>1. Types /\ Counts
  BY DEF Known
<1>2. /\ msgbox' = KernelPut(words).box
      /\ sent' = (IF KernelPut(words).ok THEN sent \o accepted ELSE sent)
      /\ status' = TRUE /\ level' \in {level, "run"} /\ oldLlv' \in {oldLlv, level}
      /\ nest' \in {nest, 255} /\ request' = (request \/ nest = 0)
      /\ msgbox'.free \in 0 .. msgbox.free /\ msgbox'.write \in 0 .. KernelWords - 1
      /\ UNCHANGED <<iret, call, frame, handler, read_ptr, signal, signaldw, box, read_free, boxfull,
                     phase, opt, position, siglen, received>>
  BY DEF Sends, RequestSoftint, handlerVars, boxVars, programVars
<1>3. msgbox' \in Rings(KernelWords) /\ msgbox'.free < KernelWords
  <2>1. msgbox' = [mem |-> msgbox'.mem, write |-> msgbox'.write, free |-> msgbox'.free]
    <3>1. msgbox = [mem |-> msgbox.mem, write |-> msgbox.write, free |-> msgbox.free]
      BY <1>1, TypeFacts
    <3> QED BY <1>2, <3>1, SendIntoShape DEF KernelPut
  <2>2. msgbox.free \in 0 .. KernelWords - 1 /\ KernelWords \in Nat
    BY <1>1, TypeFacts, LengthFacts
  <2>3. msgbox'.free \in 0 .. KernelWords /\ msgbox'.free < KernelWords
    BY <1>2, <2>2
  <2> QED BY <1>2, <2>1, <2>3 DEF Rings, Memories
<1>4. sent' \in Seq(Lengths)
  <2>1. sent \in Seq(Lengths)
    BY <1>1 DEF Types
  <2>2. accepted \in Seq(Lengths)
    <3>1. CASE \E n \in Lengths : accepted = <<n>>
      BY <3>1
    <3>2. CASE accepted = <<>>
      BY <3>2
    <3> QED BY <3>1, <3>2 DEF IsMessage
  <2> QED BY <1>2, <2>1, <2>2, ConcatProperties
<1>5. TypeOK'
  <2>1. nest' \in 0 .. 255
    <3>1. nest \in 0 .. 255
      BY <1>1 DEF Types, TypeOK
    <3>2. nest' = nest \/ nest' = 255
      BY <1>2
    <3> QED BY <3>1, <3>2
  <2>2. status' \in BOOLEAN /\ request' \in BOOLEAN /\ level' \in Levels /\ oldLlv' \in Levels
    BY <1>1, <1>2 DEF Types, TypeOK, Levels
  <2> QED BY <1>1, <1>2, <1>3, <2>1, <2>2 DEF Types, TypeOK
<1>6. Types'
  BY <1>1, <1>2, <1>4, <1>5 DEF Types
<1>7. Counts'
  <2> DEFINE given == IF call.op = "ret" THEN call.words ELSE 0
             b1 == Behind(read_ptr, msgbox.write, KernelWords)
             b2 == Behind(signal, msgbox.write, KernelWords)
             f == msgbox.free
  <2>1. /\ f + given = KernelWords - 1 - b1
        /\ handler = "read" => f = KernelWords - 1 - signaldw - b2
        /\ box.free + read_free = UserWords
        /\ read_free = siglen + Behind(position, box.write, UserWords)
        /\ read_free < UserWords
    BY <1>1 DEF Counts, CountsAreExact
  <2>2. /\ f \in Int /\ given \in Int /\ b1 \in Int /\ b2 \in Int /\ KernelWords \in Int /\ signaldw \in Int
    <3>1. f \in Int /\ call.words \in Int /\ read_ptr \in Int /\ signal \in Int /\ signaldw \in Int
          /\ msgbox.write \in Int
      BY <1>1, TypeFacts
    <3> QED BY <3>1, LengthFacts DEF Behind
  <2>3. /\ msgbox'.free + Behind(read_ptr, msgbox'.write, KernelWords) = f + b1
        /\ handler = "read" => msgbox'.free + Behind(signal, msgbox'.write, KernelWords) = f + b2
        /\ msgbox'.free \in Int
    BY <1>2 DEF Sends
  <2>4. Behind(read_ptr, msgbox'.write, KernelWords) \in Int /\ Behind(signal, msgbox'.write, KernelWords) \in Int
    <3>1. read_ptr \in Int /\ signal \in Int /\ msgbox'.write \in Int
      BY <1>1, <1>2, TypeFacts, SMTT(30)
    <3> QED BY <3>1, LengthFacts DEF Behind
  <2> HIDE DEF given, b1, b2, f
  <2>5. /\ msgbox'.free + given = KernelWords - 1 - Behind(read_ptr, msgbox'.write, KernelWords)
        /\ handler = "read" => msgbox'.free = KernelWords - 1 - signaldw - Behind(signal, msgbox'.write, KernelWords)
    BY <2>1, <2>2, <2>3, <2>4
  <2> QED BY <1>2, <2>1, <2>5 DEF Counts, CountsAreExact, given
<1> QED BY <1>6, <1>7

(* What is accepted becomes the last signal of the kernel's box.           *)
LEMMA SendHeld ==
  ASSUME Known, NEW c, NEW vK, NEW vB, RingsHold(c, vK, vB), CalmHolds(c, vK), Calm,
         NEW words, NEW accepted, IsMessage(words, accepted), Sends(words, accepted)
  PROVE  msgbox'.mem \in Memories(KernelWords) /\ Held'
<1> DEFINE put == KernelPut(words)
<1>1. Types
  BY DEF Known
<1>2. /\ msgbox.write \in 0 .. KernelWords - 1 /\ msgbox.free \in 0 .. KernelWords - 1 /\ KernelWords \in Nat
      /\ R \in 0 .. KernelWords - 1 /\ msgbox.mem \in Memories(KernelWords)
      /\ sent \in Signals /\ Len(sent) \in Nat /\ sent \in Seq(Lengths)
      /\ box.mem \in Memories(UserWords) /\ box.write \in 0 .. UserWords - 1
      /\ position \in 0 .. UserWords - 1 /\ UserWords \in Nat
  BY <1>1, TypeFacts, LengthFacts DEF Types
<1>3. /\ Sums(sent, c) /\ vK \in Numbers(KernelWords) /\ vB \in Numbers(UserWords)
      /\ Filled(1, sent, c, msgbox.mem, vK, R, msgbox.write, KernelWords)
      /\ msgbox.mem[msgbox.write] = Eos
      /\ Filled(0, sent, c, box.mem, vB, position, box.write, UserWords)
      /\ box.mem[box.write] = Eos
      /\ vK[msgbox.write] = Len(sent) + 1
      /\ vB[box.write] = vK[R]
      /\ vB[position] = Len(received) + 1
  BY DEF RingsHold, Numbers
<1>4. /\ vK[R] \in 1 .. Len(sent) + 1
      /\ c[Len(sent) + 1] \in Nat /\ c[vK[R]] \in Nat
      /\ Pending(c, vK) \in Nat
      /\ msgbox.free <= KernelWords - 1 + 0 - Behind(R, msgbox.write, KernelWords)
  BY PendingFacts
<1>5. Len(words) \in Nat \ {0} /\ 2 * Len(words) < KernelWords
  BY <1>2, MessageLength
<1>6. /\ msgbox' = put.box
      /\ sent' = (IF put.ok THEN sent \o accepted ELSE sent)
      /\ R' = R
      /\ UNCHANGED <<handler, read_ptr, signaldw, box, read_free, position, received>>
  BY DEF Sends, R, handlerVars, boxVars, programVars
<1>7. put = SendInto(msgbox, words, KernelWords, 0)
  BY DEF KernelPut
<1>8. /\ Fit(Pending(c, vK))
      /\ \/ \A n \in Lengths : Fit(Pending(c, vK) + n)
         \/ Alone /\ Pending(c, vK) = 0
  BY CalmFits
<1> HIDE DEF put
(* Nothing is accepted for the program.                                    *)
<1>9. ASSUME Sent(1, sent, c, vK, R, put.box, KernelWords, vK[msgbox.write]), sent' = sent
      PROVE  msgbox'.mem \in Memories(KernelWords) /\ Held'
  <2>1. PICK v2 \in Numbers(KernelWords) :
             /\ put.box.mem \in Memories(KernelWords) /\ put.box.write \in 0 .. KernelWords - 1
             /\ Filled(1, sent, c, put.box.mem, v2, R, put.box.write, KernelWords)
             /\ put.box.mem[put.box.write] = Eos
             /\ v2[R] = vK[R]
             /\ v2[put.box.write] = vK[msgbox.write]
    BY <1>9 DEF Sent
  <2>2. RingsHold(c, v2, vB)'
    BY <1>3, <1>6, <1>9, <2>1 DEF RingsHold, Numbers
  <2>3. Fit(Pending(c, v2))'
    BY <1>6, <1>8, <1>9, <2>1 DEF Fit, Pending
  <2>4. CalmHolds(c, v2)'
    BY <2>3 DEF CalmHolds
  <2> QED BY <1>6, <2>1, <2>2, <2>4 DEF Held
<1>13. Room(1, sent, c, vK, R, msgbox, KernelWords, 0)
  BY <1>2, <1>3, <1>4 DEF Room
<1>10. CASE ~put.ok
  <2>1. Sent(1, sent, c, vK, R, put.box, KernelWords, vK[msgbox.write])
    BY <1>5, <1>7, <1>10, <1>13, SendIntoFilled
  <2> QED BY <1>6, <1>9, <1>10, <2>1
<1>11. CASE put.ok /\ words = SystemMessage /\ accepted = <<>>
  <2>1. Len(words) = 2 /\ words[1] = SystemSignal /\ words \in [1 .. 2 -> Int]
    BY <1>11 DEF SystemMessage, SystemSignal, Eos
  <2>2. LaysOne(1, sent, vK[msgbox.write], words) /\ IdBehind(1, vK[msgbox.write], words) = vK[msgbox.write]
    BY <2>1 DEF LaysOne, IdBehind
  <2>3. Sent(1, sent, c, vK, R, put.box, KernelWords, vK[msgbox.write])
    BY <1>5, <1>7, <1>11, <1>13, <2>2, SendIntoFilled
  <2>4. sent' = sent
    BY <1>2, <1>6, <1>11, ConcatEmptySeq
  <2> QED BY <1>9, <2>3, <2>4
<1>12. CASE put.ok /\ \E n \in Lengths : words = UserMessage(n) /\ accepted = <<n>>
  <2>1. PICK n \in Lengths : words = UserMessage(n) /\ accepted = <<n>>
    BY <1>12
  <2> DEFINE s2 == sent \o <<n>>
             L == Len(sent)
  <2>2. n \in Nat \ {0}
    BY LengthFacts
  <2>a. /\ s2 \in Signals
        /\ Len(s2) = L + 1
        /\ s2[L + 1] = n
        /\ \E c2 : /\ Sums(s2, c2)
                   /\ GoesOn(sent, c, s2, c2)
                   /\ c2[L + 2] = c[L + 1] + n
    BY <1>2, <1>3, HistoryGrows
  <2>b. PICK c2 : /\ Sums(s2, c2)
                  /\ GoesOn(sent, c, s2, c2)
                  /\ c2[L + 2] = c[L + 1] + n
    BY <2>a
  <2>3. /\ s2 \in Signals
        /\ Len(s2) = L + 1
        /\ s2[L + 1] = n
        /\ Sums(s2, c2)
        /\ GoesOn(sent, c, s2, c2)
        /\ \A k \in 1 .. L + 1 : c2[k] = c[k]
        /\ c2[L + 2] = c[L + 1] + n
    BY <2>a, <2>b DEF GoesOn
  <2> HIDE DEF s2, L
  <2>4. L \in Nat /\ L <= Len(s2) /\ vK[msgbox.write] = L + 1 /\ vK[msgbox.write] \in 1 .. Len(s2) /\ L = Len(sent)
    BY <1>2, <1>3, <2>3 DEF L
  <2>5. Filled(1, s2, c2, msgbox.mem, vK, R, msgbox.write, KernelWords)
    BY <1>2, <1>3, <2>3, <2>4, FilledGrows DEF L
  <2>6. Filled(0, s2, c2, box.mem, vB, position, box.write, UserWords)
    BY <1>2, <1>3, <2>3, <2>4, FilledGrows DEF L
  <2>7. /\ Len(words) = n + 1 /\ words \in [1 .. n + 1 -> Int]
        /\ words[1] = HeaderCut(n) /\ words[2] = L + 1
    BY <1>2, <2>1, <2>2, UserMessageWords DEF L
  <2>8. LaysOne(1, s2, vK[msgbox.write], words) /\ IdBehind(1, vK[msgbox.write], words) = L + 2
    <3>1. words[1] # SystemSignal
      BY <2>2, <2>7 DEF HeaderCut, SystemSignal
    <3>2. LaysOne(1, s2, vK[msgbox.write], words)
      BY <2>2, <2>3, <2>4, <2>7 DEF LaysOne
    <3> QED BY <2>4, <3>1, <3>2 DEF IdBehind
  <2>9. Sent(1, s2, c2, vK, R, put.box, KernelWords, L + 2)
    <3>1. Sent(1, s2, c2, vK, R, put.box, KernelWords, IdBehind(1, vK[msgbox.write], words))
      <4>1. Room(1, s2, c2, vK, R, msgbox, KernelWords, 0)
        BY <1>2, <1>3, <1>4, <2>3, <2>5, SMTT(30) DEF Room
      <4> QED BY <1>5, <1>7, <1>12, <2>8, <4>1, SendIntoFilled
    <3> QED BY <2>8, <3>1
  <2>10. PICK v2 \in Numbers(KernelWords) :
             /\ put.box.mem \in Memories(KernelWords) /\ put.box.write \in 0 .. KernelWords - 1
             /\ Filled(1, s2, c2, put.box.mem, v2, R, put.box.write, KernelWords)
             /\ put.box.mem[put.box.write] = Eos
             /\ v2[R] = vK[R]
             /\ v2[put.box.write] = L + 2
    BY <2>9 DEF Sent
  <2>11. sent' = s2 /\ Len(sent') = L + 1
    BY <1>6, <1>12, <2>1, <2>3 DEF s2
  <2>12. RingsHold(c2, v2, vB)'
    <3>1. L + 2 = Len(sent') + 1
      BY <2>4, <2>11
    <3> QED BY <1>3, <1>6, <2>3, <2>6, <2>10, <2>11, <3>1 DEF RingsHold, Numbers
  <2>13. Pending(c2, v2)' = Pending(c, vK) + n /\ Pending(c, vK) \in Nat
    <3>1. c2[vK[R]] = c[vK[R]] /\ c2[Len(sent') + 1] = c[L + 1] + n
      <4>1. Len(sent') + 1 = L + 2
        BY <2>4, <2>11
      <4> QED BY <1>4, <2>3, <4>1 DEF L
    <3> QED BY <1>4, <1>6, <2>2, <2>10, <3>1 DEF Pending, L
  <2>14. CASE \A m \in Lengths : Fit(Pending(c, vK) + m)
    <3>1. Fit(Pending(c2, v2))'
      <4>1. Fit(Pending(c, vK) + n)
        BY <2>14
      <4> QED BY <1>6, <2>13, <4>1 DEF Fit
    <3>2. CalmHolds(c2, v2)'
      BY <3>1 DEF CalmHolds
    <3> QED BY <1>6, <2>10, <2>12, <3>2 DEF Held
  <2>15. CASE Alone /\ Pending(c, vK) = 0
    <3>1. msgbox.free = KernelWords - 1 /\ handler = "out" /\ ~request /\ msgbox.write + Longest + 1 < KernelWords
      <4>1. KernelWords - 1 - msgbox.free = 0
        BY <2>15 DEF Alone, KernelUsed
      <4> QED BY <1>2, <2>15, <4>1 DEF Alone, Longest
    <3>2. n <= Longest /\ Longest \in Nat
      BY LengthFacts
    <3>3. put.box.mem = Put(msgbox.mem, msgbox.write, words)
      <4>1. msgbox.write + Len(words) < KernelWords /\ msgbox.free - Len(words) >= 0
        BY <1>2, <2>2, <2>7, <3>1, <3>2
      <4>2. \/ msgbox.write + Len(words) < KernelWords /\ msgbox.free - Len(words) < 0
            \/ msgbox.write + Len(words) < KernelWords /\ put.box.mem = Put(msgbox.mem, msgbox.write, words)
            \/ msgbox.write + Len(words) >= KernelWords
        BY <1>2, <1>5, <1>7, SendIntoCases
      <4> QED BY <1>2, <1>5, <4>1, <4>2
    <3>4. R = msgbox.write
      <4>1. R = read_ptr /\ msgbox.free + (IF call.op = "ret" THEN call.words ELSE 0)
                = KernelWords - 1 - Behind(read_ptr, msgbox.write, KernelWords) /\ call.words \in Nat
        BY <1>1, <3>1, TypeFacts DEF Known, Counts, CountsAreExact, R
      <4>2. Behind(read_ptr, msgbox.write, KernelWords) \in Nat
        BY <1>2, <4>1, SMTT(30) DEF Behind
      <4>3. Behind(read_ptr, msgbox.write, KernelWords) = 0
        BY <1>2, <3>1, <4>1, <4>2, SMTT(30)
      <4> QED BY <1>2, <4>1, <4>3 DEF Behind
    <3>5. put.box.mem[R] = HeaderCut(n)
      <4> DEFINE w == msgbox.write
                 l == Len(words)
      <4>1. w \in Nat /\ l = n + 1 /\ w + Longest + 1 < KernelWords /\ n <= Longest
            /\ n \in Nat \ {0} /\ Longest \in Nat /\ KernelWords \in Nat
        BY <1>2, <2>2, <2>7, <3>1, <3>2
      <4> HIDE DEF w, l
      <4>2. w \in 0 .. KernelWords /\ w + l <= KernelWords /\ w < w + l /\ w <= w
        BY <4>1
      <4>3. Len(words) \in Nat /\ words \in [1 .. Len(words) -> Int] /\ l = Len(words)
            /\ w + Len(words) <= KernelWords
        BY <2>7, <4>1, <4>2 DEF l
      <4>4. \A i \in 0 .. KernelWords : w <= i /\ i < w + Len(words) =>
              Put(msgbox.mem, w, words)[i] = words[i - w + 1]
        BY <1>2, <4>2, <4>3, PutCells, SMTT(30)
      <4>5. Put(msgbox.mem, w, words)[w] = words[w - w + 1] /\ w - w + 1 = 1
        BY <4>1, <4>2, <4>3, <4>4
      <4> QED BY <2>7, <3>3, <3>4, <4>5 DEF w
    <3>6. Single(v2)'
      <4>1. HeaderCut(n) < SystemSignal
        BY <2>2 DEF HeaderCut, SystemSignal
      <4>2. handler' # "read"
        BY <1>6, <3>1
      <4>3. v2[R] = L + 1
        BY <1>3, <2>4, <2>10, <3>4
      <4> QED BY <1>6, <2>11, <3>5, <4>1, <4>2, <4>3 DEF Single
    <3>7. status' /\ oldLlv' = "sleep" => Fit(Pending(c2, v2))'
      <4>1. Control'
        BY SendControl
      <4>2. status' /\ oldLlv' = "sleep" => read_free' = 0
        BY <1>6, <3>1, <4>1 DEF Control
      <4>3. ASSUME read_free' = 0 PROVE Fit(Pending(c2, v2))'
        <5>1. Pending(c2, v2)' = n /\ n <= Longest /\ 2 * Longest < UserWords /\ Longest \in Nat \ {0}
          BY <2>2, <2>13, <2>15, LengthFacts
        <5> QED BY <1>2, <2>2, <4>3, <5>1 DEF Fit, Longest
      <4> QED BY <4>2, <4>3
    <3>8. CalmHolds(c2, v2)'
      BY <3>6, <3>7 DEF CalmHolds
    <3> QED BY <1>6, <2>10, <2>12, <3>8 DEF Held
  <2> QED BY <1>8, <2>14, <2>15
<1>14. put.ok \in BOOLEAN
  BY <1>5, <1>7, <1>13, SendIntoFilled
<1> QED BY <1>10, <1>11, <1>12, <1>14 DEF IsMessage

-----------------------------------------------------------------------------
(* The kernel: shell calls and soft interrupts.                            *)

(* If the last signal is the next one, it alone waits.                     *)
LEMMA SinglePending ==
  ASSUME Known, NEW c, NEW vK, NEW vB, RingsHold(c, vK, vB), vK[R] = Len(sent)
  PROVE  Pending(c, vK) \in Lengths /\ Pending(c, vK) = sent[Len(sent)] /\ Len(sent) \in Nat \ {0}
<1>1. vK[R] \in 1 .. Len(sent) + 1 /\ c[vK[R]] \in Nat
  BY PendingFacts
<1>2. sent \in Seq(Lengths) /\ Len(sent) \in Nat
  BY TypeFacts DEF Known, Types
<1>3. Len(sent) \in 1 .. Len(sent)
  BY <1>1, <1>2
<1>4. c[Len(sent) + 1] = c[Len(sent)] + sent[Len(sent)] /\ sent[Len(sent)] \in Lengths
  BY <1>2, <1>3 DEF RingsHold, Sums
<1>5. sent[Len(sent)] \in Nat
  BY <1>4, LengthFacts
<1> QED BY <1>1, <1>3, <1>4, <1>5 DEF Pending

(* Into an empty box fits whatever waits.                                  *)
LEMMA EmptyFits ==
  ASSUME Known, NEW c, NEW vK, NEW vB, RingsHold(c, vK, vB), CalmHolds(c, vK), read_free = 0
  PROVE  Fit(Pending(c, vK))
<1>1. CASE Single(vK)
  <2>1. Pending(c, vK) \in Lengths
    BY <1>1, SinglePending DEF Single
  <2>2. Pending(c, vK) \in Nat /\ Pending(c, vK) <= Longest /\ Longest \in Nat /\ 2 * Longest < UserWords
        /\ UserWords \in Nat
    BY <2>1, LengthFacts
  <2> HIDE DEF Pending
  <2> QED BY <2>2 DEF Fit, Longest
<1> QED BY <1>1 DEF CalmHolds

(* The contents do not change when nothing is written or read.             *)
LEMMA RingsSame ==
  ASSUME NEW c, NEW vK, NEW vB, RingsHold(c, vK, vB),
         UNCHANGED <<sent, received, position>>, R' = R,
         msgbox'.mem = msgbox.mem, msgbox'.write = msgbox.write,
         box'.mem = box.mem, box'.write = box.write
  PROVE  RingsHold(c, vK, vB)'
BY DEF RingsHold

(* What fitted still fits when the program gives words back.               *)
LEMMA CalmSame ==
  ASSUME Known, NEW c, NEW vK, NEW vB, RingsHold(c, vK, vB), CalmHolds(c, vK),
         sent' = sent, R' = R, msgbox'.mem = msgbox.mem, box'.write = box.write,
         read_free' \in Nat, read_free' <= read_free,
         handler' = "read" => signaldw' = 0 \/ (handler = "read" /\ signaldw' = signaldw),
         status' /\ oldLlv' = "sleep" => (status /\ oldLlv = "sleep") \/ read_free = 0
  PROVE  CalmHolds(c, vK)'
<1>1. Pending(c, vK)' = Pending(c, vK) /\ Pending(c, vK) \in Nat
  BY PendingFacts DEF Pending
<1>2. read_free \in Nat /\ box.write \in Nat /\ UserWords \in Nat /\ Longest \in Nat
  BY TypeFacts, LengthFacts DEF Known
<1>3. ASSUME Fit(Pending(c, vK)) PROVE Fit(Pending(c, vK))'
  <2> HIDE DEF Pending
  <2> QED BY <1>1, <1>2, <1>3 DEF Fit, Longest
<1>4. ASSUME Single(vK) PROVE Single(vK)'
  BY <1>4 DEF Single
<1>5. status' /\ oldLlv' = "sleep" => Fit(Pending(c, vK))
  BY EmptyFits DEF CalmHolds
<1> QED BY <1>3, <1>4, <1>5 DEF CalmHolds

(* Both together, for a step that sends and reads nothing.                 *)
LEMMA HeldSame ==
  ASSUME Known, Held,
         UNCHANGED <<sent, received, position>>, R' = R,
         msgbox'.mem = msgbox.mem, msgbox'.write = msgbox.write,
         box'.mem = box.mem, box'.write = box.write,
         read_free' \in Nat, read_free' <= read_free,
         handler' = "read" => signaldw' = 0 \/ (handler = "read" /\ signaldw' = signaldw),
         status' /\ oldLlv' = "sleep" => (status /\ oldLlv = "sleep") \/ read_free = 0
  PROVE  Held'
<1>1. PICK c, vK, vB : RingsHold(c, vK, vB) /\ CalmHolds(c, vK)
  BY DEF Held
<1>2. RingsHold(c, vK, vB)'
  BY <1>1, RingsSame
<1>3. CalmHolds(c, vK)'
  BY <1>1, CalmSame
<1> QED BY <1>2, <1>3 DEF Held

(* The inductive invariant.                                                *)
Inv == Known /\ Held

(* The words of a call are those by which the count of free words of the   *)
(* kernel's box was behind; status says whether signals are left.          *)
LEMMA GivenBack ==
  ASSUME Known, call.op # "none", GiveBack
  PROVE  /\ msgbox' \in Rings(KernelWords)
         /\ msgbox'.mem = msgbox.mem /\ msgbox'.write = msgbox.write
         /\ msgbox'.free = msgbox.free + call.words
         /\ msgbox'.free \in 0 .. KernelWords - 1
         /\ msgbox'.free = KernelWords - 1 - Behind(read_ptr, msgbox.write, KernelWords)
         /\ status' <=> msgbox'.free # KernelWords - 1
         /\ status' = (status /\ msgbox'.free # KernelWords - 1)
         /\ call.op = "nest" => msgbox'.free = msgbox.free
         /\ handler # "read"
<1> DEFINE b == Behind(read_ptr, msgbox.write, KernelWords)
<1>1. Types /\ Counts /\ Control /\ IInv
  BY DEF Known
<1>2. /\ msgbox.write \in 0 .. KernelWords - 1 /\ msgbox.free \in 0 .. KernelWords - 1 /\ KernelWords \in Nat
      /\ read_ptr \in 0 .. KernelWords - 1 /\ call.words \in Nat /\ msgbox.mem \in Memories(KernelWords)
      /\ msgbox = [mem |-> msgbox.mem, write |-> msgbox.write, free |-> msgbox.free]
  BY <1>1, TypeFacts, LengthFacts
<1>3. msgbox' = [msgbox EXCEPT !.free = @ + call.words] /\ status' = (status /\ msgbox'.free # KernelWords - 1)
  BY DEF GiveBack
<1>4. msgbox' = [mem |-> msgbox.mem, write |-> msgbox.write, free |-> msgbox.free + call.words]
  BY <1>2, <1>3
<1>5. /\ msgbox'.mem = msgbox.mem /\ msgbox'.write = msgbox.write
      /\ msgbox'.free = msgbox.free + call.words
  BY <1>4
<1>6. call.op \in {"nest", "ret"} /\ handler # "read"
  BY <1>1 DEF IInv, Shape, CallOK, Places
<1>7. (call.op = "nest" => call.words = 0) /\ (status <=> msgbox.free # KernelWords - 1)
      /\ msgbox.free + (IF call.op = "ret" THEN call.words ELSE 0) = KernelWords - 1 - b
  BY <1>1 DEF Control, Counts, CountsAreExact
<1>8. b \in Nat
  BY <1>2 DEF Behind
<1>9. msgbox.free + call.words = KernelWords - 1 - b
  <2>1. CASE call.op = "ret"
    BY <1>7, <2>1
  <2>2. CASE call.op = "nest"
    BY <1>2, <1>7, <2>2
  <2> QED BY <1>6, <2>1, <2>2
<1> HIDE DEF b
<1>10. msgbox'.free \in 0 .. KernelWords - 1 /\ (call.op = "nest" => msgbox'.free = msgbox.free)
  BY <1>2, <1>5, <1>7, <1>8, <1>9
<1>11. status' <=> msgbox'.free # KernelWords - 1
  <2>1. CASE status
    BY <1>3, <2>1
  <2>2. CASE ~status
    <3>1. msgbox.free = KernelWords - 1
      BY <1>7, <2>2
    <3>2. call.words = 0
      BY <1>2, <1>8, <1>9, <3>1
    <3>3. msgbox'.free = KernelWords - 1
      BY <1>2, <1>5, <3>1, <3>2
    <3>4. ~status'
      BY <1>3, <2>2
    <3> QED BY <3>3, <3>4
  <2>3. status \in BOOLEAN
    BY <1>1 DEF Types, TypeOK
  <2> QED BY <2>1, <2>2, <2>3
<1>12. msgbox' \in Rings(KernelWords)
  <2>1. msgbox.free + call.words \in 0 .. KernelWords
    BY <1>2, <1>5, <1>10
  <2> QED BY <1>2, <1>4, <2>1 DEF Rings, Memories
<1> QED BY <1>3, <1>5, <1>6, <1>9, <1>10, <1>11, <1>12 DEF b

(* The two shell calls keep types, counts and contents.                    *)
LEMMA CallStep ==
  ASSUME Inv, AddNestSleep \/ SoftintReturn
  PROVE  Types' /\ Counts' /\ Held'
<1>1. Known /\ Held /\ Types /\ Counts /\ Control /\ IInv
  BY DEF Inv, Known
<1>2. /\ call.op # "none" /\ GiveBack /\ call' = NoCall
      /\ nest' \in {255, Byte(nest + call.al)} /\ request' \in {request, TRUE}
      /\ iret' \in {iret, TRUE} /\ level' \in {level, call.llv} /\ oldLlv' \in {oldLlv, call.llv}
      /\ level' # level => call.llv # "keep"
      /\ oldLlv' # oldLlv => call.llv # "keep"
      /\ UNCHANGED <<frame, handler, read_ptr, signal, signaldw, box, read_free, boxfull,
                     phase, opt, position, siglen, sent, received>>
  BY DEF AddNestSleep, SoftintReturn, handlerVars, boxVars, programVars
<1>3. /\ msgbox' \in Rings(KernelWords)
      /\ msgbox'.mem = msgbox.mem /\ msgbox'.write = msgbox.write
      /\ msgbox'.free = msgbox.free + call.words
      /\ msgbox'.free \in 0 .. KernelWords - 1
      /\ msgbox'.free = KernelWords - 1 - Behind(read_ptr, msgbox.write, KernelWords)
      /\ status' = (status /\ msgbox'.free # KernelWords - 1)
      /\ handler # "read"
  BY <1>1, <1>2, GivenBack
<1>4. level' \in Levels /\ oldLlv' \in Levels
  <2>1. call.llv \in {"keep", "sleep"} /\ level \in Levels /\ oldLlv \in Levels
    BY <1>1 DEF Types, TypeOK
  <2> QED BY <1>2, <2>1 DEF Levels
<1>5. nest' \in 0 .. 255
  <2>1. nest + call.al \in Int
    BY <1>1 DEF IInv, Shape, CallOK
  <2> QED BY <1>2, <2>1, ByteIsByte
<1>6. msgbox'.free < KernelWords
  BY <1>3, LengthFacts
<1>7. call'.op = "none" /\ call'.llv = "keep" /\ call'.words = 0
  BY <1>2 DEF NoCall
<1>8. TypeOK'
  <2>1. status' \in BOOLEAN /\ request' \in BOOLEAN /\ iret' \in BOOLEAN
    BY <1>1, <1>2, <1>3 DEF Types, TypeOK
  <2> QED BY <1>1, <1>2, <1>3, <1>4, <1>5, <1>6, <1>7, <2>1 DEF Types, TypeOK
<1>9. Types'
  BY <1>1, <1>2, <1>7, <1>8 DEF Types
<1>10. Counts'
  <2>1. msgbox'.free + 0 = msgbox'.free
    BY <1>3
  <2> QED BY <1>1, <1>2, <1>3, <1>7, <2>1 DEF Counts, CountsAreExact
<1>11. status' /\ oldLlv' = "sleep" => (status /\ oldLlv = "sleep") \/ read_free = 0
  <2>1. call.llv = "sleep" => read_free = 0
    BY <1>1 DEF Control
  <2> QED BY <1>2, <1>3, <2>1
<1>12. Held'
  <2>1. read_free \in Nat /\ R' = R
    BY <1>1, <1>2, TypeFacts DEF R
  <2> QED BY <1>1, <1>2, <1>3, <1>11, <2>1, HeldSame
<1> QED BY <1>9, <1>10, <1>12

(* TAPI_AddNestSleep: a task goes to sleep only without signals.           *)
LEMMA AddNestControl ==
  ASSUME Inv, AddNestSleep
  PROVE  Control'
<1>1. Known /\ Control /\ IInv /\ Types
  BY DEF Inv, Known
<1>2. /\ call.op = "nest" /\ GiveBack /\ call' = NoCall
      /\ UNCHANGED <<iret, frame, handler, read_ptr, signal, signaldw, box, read_free, boxfull,
                     phase, opt, position, siglen, sent, received>>
  BY DEF AddNestSleep, handlerVars, boxVars, programVars
<1>3. /\ status' <=> msgbox'.free # KernelWords - 1
      /\ status' = (status /\ msgbox'.free # KernelWords - 1)
      /\ msgbox'.free = msgbox.free
  BY <1>1, <1>2, GivenBack
<1>4. status' = status
  BY <1>1, <1>3 DEF Control, Types, TypeOK
<1>5. level = "run" /\ handler = "out" /\ (status => oldLlv # "sleep")
  BY <1>1, <1>2 DEF Control
<1>6. call'.op = "none" /\ call'.llv = "keep"
  BY <1>2 DEF NoCall
<1>7. CASE Byte(nest + call.al) = 0 /\ status'
  <2>1. /\ nest' = 255 /\ request' = TRUE /\ level' = level
        /\ oldLlv' = (IF call.llv # "keep" THEN call.llv ELSE oldLlv)
    BY <1>7 DEF AddNestSleep
  <2>2. call.llv = "sleep" => phase = "slept" /\ read_free = 0
    BY <1>1 DEF Control
  <2>3. oldLlv' = "sleep" => phase = "slept" /\ read_free = 0 /\ ~boxfull
    <3>1. oldLlv' = "sleep" => call.llv = "sleep"
      BY <1>4, <1>5, <1>7, <2>1
    <3> QED BY <1>1, <2>2, <3>1 DEF Control
  <2>4. nest' # 0 /\ level' # "sleep"
    BY <1>5, <2>1
  <2> QED BY <1>1, <1>2, <1>3, <1>4, <1>5, <1>6, <1>7, <2>1, <2>3, <2>4 DEF Control
<1>8. CASE ~(Byte(nest + call.al) = 0 /\ status')
  <2>1. /\ nest' = Byte(nest + call.al)
        /\ level' = (IF ~status' /\ call.llv # "keep" THEN call.llv ELSE level)
        /\ UNCHANGED <<oldLlv, request>>
    BY <1>8 DEF AddNestSleep
  <2>2. call.llv \in {"keep", "sleep"} /\ (call.llv = "sleep" => phase = "slept" /\ read_free = 0)
    BY <1>1 DEF Control, Types, TypeOK
  <2>3. level' = "sleep" => phase = "slept" /\ read_free = 0 /\ ~status'
    BY <1>5, <2>1, <2>2
  <2>4. nest' = 0 => ~status'
    BY <1>8, <2>1
  <2> QED BY <1>1, <1>2, <1>3, <1>4, <1>5, <1>6, <2>1, <2>3, <2>4 DEF Control
<1> QED BY <1>7, <1>8

(* TAPI_Softint1Ret.                                                       *)
LEMMA ReturnControl ==
  ASSUME Inv, SoftintReturn
  PROVE  Control'
<1>1. Known /\ Control /\ IInv /\ Types
  BY DEF Inv, Known
<1>2. /\ call.op = "ret" /\ GiveBack /\ call' = NoCall /\ iret' = TRUE
      /\ UNCHANGED <<level, oldLlv, frame, handler, read_ptr, signal, signaldw, box, read_free, boxfull,
                     phase, opt, position, siglen, sent, received>>
  BY DEF SoftintReturn, handlerVars, boxVars, programVars
<1>3. /\ status' <=> msgbox'.free # KernelWords - 1
      /\ status' = (status /\ msgbox'.free # KernelWords - 1)
  BY <1>1, <1>2, GivenBack
<1>4. status' => status
  BY <1>3
<1>5. level = "run" /\ handler = "left" /\ ~request
  BY <1>1, <1>2 DEF Control, IInv, Places
<1>6. call'.op = "none" /\ call'.llv = "keep"
  BY <1>2 DEF NoCall
<1>7. /\ nest' = 0 => ~status'
      /\ request' => status'
  <2>1. CASE Byte(nest + call.al) = 0 /\ status'
    BY <2>1 DEF SoftintReturn
  <2>2. CASE ~(Byte(nest + call.al) = 0 /\ status')
    <3>1. nest' = Byte(nest + call.al) /\ request' = request
      BY <2>2 DEF SoftintReturn
    <3> QED BY <1>5, <2>2, <3>1
  <2> QED BY <2>1, <2>2
<1> QED BY <1>1, <1>2, <1>3, <1>4, <1>5, <1>6, <1>7 DEF Control

(* The handler begins: the level in its frame is the one before the        *)
(* interrupt.                                                              *)
LEMMA EnterStep ==
  ASSUME Inv, EnterHandler
  PROVE  Types' /\ Counts' /\ Control' /\ Held'
<1>1. Known /\ Held /\ Types /\ Counts /\ Control /\ IInv
  BY DEF Inv, Known
<1>2. /\ level = "run" /\ call = NoCall /\ call.op = "none" /\ request /\ request' = FALSE /\ iret' = FALSE
      /\ frame' = (IF iret THEN frame ELSE oldLlv)
      /\ handler' = "read" /\ signal' = read_ptr /\ signaldw' = 0
      /\ UNCHANGED <<msgbox, status, nest, level, oldLlv, call, read_ptr, box, read_free, boxfull,
                     phase, opt, position, siglen, sent, received>>
  BY DEF EnterHandler, boxVars, programVars, NoCall
<1>3. handler # "read" /\ (iret => handler = "left") /\ (handler = "left" => iret)
  BY <1>1, <1>2 DEF IInv, Places, Control
<1>4. frame' \in Levels /\ (frame' = "sleep" => phase = "slept" /\ read_free = 0)
  <2>1. CASE iret
    <3>1. frame' = frame /\ handler # "out"
      BY <1>2, <1>3, <2>1
    <3> QED BY <1>1, <3>1 DEF Types, TypeOK, Control
  <2>2. CASE ~iret
    <3>1. handler = "out" /\ status
      BY <1>1, <1>2, <1>3, <2>2 DEF Types, TypeOK, Control
    <3> QED BY <1>1, <1>2, <2>2, <3>1 DEF Types, TypeOK, Control
  <2> QED BY <2>1, <2>2
<1>5. Types'
  BY <1>1, <1>2, <1>4 DEF Types, TypeOK
<1>6. Counts'
  <2>1. msgbox.free \in Int /\ msgbox.free + 0 = KernelWords - 1 - Behind(read_ptr, msgbox.write, KernelWords)
    BY <1>1, <1>2, TypeFacts DEF Counts, CountsAreExact
  <2>2. Behind(read_ptr, msgbox.write, KernelWords) \in Int
    <3>1. /\ read_ptr \in 0 .. KernelWords - 1 /\ msgbox.write \in 0 .. KernelWords - 1
          /\ KernelWords \in Nat
      BY <1>1, TypeFacts, LengthFacts
    <3> QED BY <3>1 DEF Behind
  <2>3. msgbox.free = KernelWords - 1 - 0 - Behind(read_ptr, msgbox.write, KernelWords)
    BY <2>1, <2>2, LengthFacts
  <2> QED BY <1>1, <1>2, <2>3 DEF Counts, CountsAreExact
<1>7. Control'
  <2>1. frame' # "none"
    BY <1>4 DEF Levels
  <2> QED BY <1>1, <1>2, <1>4, <2>1 DEF Control
<1>8. Held'
  <2>1. R' = R /\ read_free \in Nat
    BY <1>1, <1>2, <1>3, TypeFacts DEF R
  <2> QED BY <1>1, <1>2, <2>1, HeldSame
<1> QED BY <1>5, <1>6, <1>7, <1>8

(* The handler returns to a level at which nothing has come meanwhile.     *)
LEMMA LeaveStep ==
  ASSUME Inv, LeaveHandler
  PROVE  Types' /\ Counts' /\ Control' /\ Held'
<1>1. Known /\ Held /\ Types /\ Counts /\ Control /\ IInv
  BY DEF Inv, Known
<1>2. /\ level = "run" /\ call = NoCall /\ call.op = "none" /\ call.llv = "keep" /\ ~request /\ iret' = FALSE
      /\ level' = frame /\ frame' = "none" /\ handler' = "out" /\ iret
      /\ UNCHANGED <<msgbox, status, nest, oldLlv, request, call, read_ptr, signal, signaldw,
                     box, read_free, boxfull, phase, opt, position, siglen, sent, received>>
  BY DEF LeaveHandler, boxVars, programVars, NoCall
<1>3. handler = "left" /\ frame # "none" /\ frame \in Levels
  BY <1>1, <1>2 DEF IInv, Places, Control, Types, TypeOK
<1>4. phase = "slept" /\ ~boxfull => ~status
  <2>1. phase = "slept" /\ ~boxfull => nest = 0
    BY <1>1, <1>2, <1>3, AsleepMeansUnmasked
  <2> QED BY <1>1, <2>1 DEF Control
<1>5. Types'
  BY <1>1, <1>2, <1>3 DEF Types, TypeOK
<1>6. Counts'
  BY <1>1, <1>2 DEF Counts, CountsAreExact
<1>7. Control'
  <2>1. frame = "sleep" => phase = "slept" /\ read_free = 0 /\ ~boxfull
    BY <1>1 DEF Control
  <2>2. level' = "sleep" => phase = "slept" /\ read_free = 0 /\ ~status
    BY <1>2, <1>4, <2>1
  <2>3. ~(status /\ oldLlv = "sleep")
    BY <1>1, <1>4 DEF Control
  <2> QED BY <1>1, <1>2, <2>2, <2>3 DEF Control
<1>8. Held'
  <2>1. R' = R /\ read_free \in Nat
    BY <1>1, <1>2, <1>3, TypeFacts DEF R
  <2> QED BY <1>1, <1>2, <2>1, HeldSame
<1> QED BY <1>5, <1>6, <1>7, <1>8

(* The program goes on without touching its box.                           *)
LEMMA ProgramStep ==
  ASSUME Inv, WaitSignal \/ SleepOrNot \/ MaskAgain \/ EndCommands \/ BackToProgram
  PROVE  Types' /\ Counts' /\ Control' /\ Held'
<1>1. Known /\ Held /\ Types /\ Counts /\ Control /\ IInv
  BY DEF Inv, Known
<1>2. /\ handler = "out" /\ level = "run" /\ call = NoCall /\ call.op = "none" /\ call.llv = "keep" /\ ~request
      /\ UNCHANGED <<msgbox, status, nest, level, oldLlv, request, iret, frame, handler, read_ptr, signal,
                     signaldw, box, read_free, boxfull, position, siglen, sent, received>>
  <2>1. /\ Running
        /\ UNCHANGED <<msgbox, status, nest, level, oldLlv, request, iret, handlerVars, boxVars,
                       position, siglen, sent, received>>
    BY DEF WaitSignal, SleepOrNot, MaskAgain, EndCommands, BackToProgram, kernelVars
  <2> QED BY <2>1 DEF Running, handlerVars, boxVars, NoCall
<1>3. /\ \/ call' = NoCall /\ call'.op = "none" /\ call'.llv = "keep" /\ call'.words = 0
         \/ /\ call'.op = "nest" /\ call'.words = 0
            /\ \/ call'.llv = "keep"
               \/ call'.llv = "sleep" /\ phase' = "slept" /\ read_free = 0 /\ call'.al = 128
      /\ phase' \in {"user", "enter", "given", "slept", "woken", "leave"}
      /\ opt' \in BOOLEAN
  <2>1. CASE WaitSignal
    BY <1>1, <2>1 DEF WaitSignal, AddNest
  <2>2. CASE SleepOrNot
    BY <1>1, <2>2 DEF SleepOrNot, AddNest, Types
  <2>3. CASE MaskAgain
    BY <1>1, <2>3 DEF MaskAgain, AddNest, Types
  <2>4. CASE EndCommands
    BY <1>1, <2>4 DEF EndCommands, AddNest, Types
  <2>5. CASE BackToProgram
    BY <1>1, <1>2, <2>5 DEF BackToProgram, kernelVars, NoCall, Types
  <2> QED BY <2>1, <2>2, <2>3, <2>4, <2>5
<1>4. Types'
  BY <1>1, <1>2, <1>3 DEF Types, TypeOK
<1>5. Counts'
  BY <1>1, <1>2, <1>3 DEF Counts, CountsAreExact
<1>6. ~(status /\ oldLlv = "sleep") /\ frame = "none" /\ frame # "sleep"
  BY <1>1, <1>2 DEF Control
<1>7. Control'
  BY <1>1, <1>2, <1>3, <1>6 DEF Control
<1>8. Held'
  <2>1. R' = R /\ read_free \in Nat
    BY <1>1, <1>2, TypeFacts DEF R
  <2> QED BY <1>1, <1>2, <2>1, HeldSame
<1> QED BY <1>4, <1>5, <1>7, <1>8

(* The program gives words back.                                           *)
LEMMA GiveWordsStep ==
  ASSUME Inv, GiveWordsBack
  PROVE  Types' /\ Counts' /\ Control' /\ Held'
<1>1. Known /\ Held /\ Types /\ Counts /\ Control /\ IInv
  BY DEF Inv, Known
<1>2. /\ handler = "out" /\ level = "run" /\ call = NoCall /\ call.op = "none" /\ call.llv = "keep" /\ ~request
      /\ call.words = 0 /\ phase = "enter" /\ phase' = "given"
      /\ box' = [box EXCEPT !.free = @ + siglen]
      /\ read_free' = read_free - siglen /\ siglen' = 0
      /\ \/ boxfull' = FALSE /\ call' = AddNest(2, "keep")
         \/ /\ UNCHANGED <<boxfull, call>>
            /\ ~boxfull \/ siglen = 0
      /\ UNCHANGED <<msgbox, status, nest, level, oldLlv, request, iret, frame, handler, read_ptr, signal,
                     signaldw, opt, position, sent, received>>
  BY DEF GiveWordsBack, Running, handlerVars, NoCall
<1>3. \/ call'.op = "none" /\ call' = call
      \/ call'.op = "nest" /\ call'.al = 2
  BY <1>2 DEF AddNest
<1>4. call'.llv = "keep" /\ call'.words = 0
  BY <1>2 DEF AddNest
<1>5. /\ box.free + read_free = UserWords /\ box.free \in 0 .. UserWords
      /\ read_free = siglen + Behind(position, box.write, UserWords)
      /\ read_free \in Nat /\ siglen \in Nat /\ UserWords \in Nat /\ read_free < UserWords
      /\ Behind(position, box.write, UserWords) \in Nat
      /\ box.write \in 0 .. UserWords - 1 /\ box.mem \in Memories(UserWords)
  <2>1. box.write \in 0 .. UserWords - 1 /\ position \in 0 .. UserWords - 1 /\ UserWords \in Nat
    BY <1>1, TypeFacts, LengthFacts
  <2>2. Behind(position, box.write, UserWords) \in Nat
    BY <2>1 DEF Behind
  <2> QED BY <1>1, <2>1, <2>2, TypeFacts DEF Counts, CountsAreExact
<1>6. box' = [mem |-> box.mem, write |-> box.write, free |-> box.free + siglen]
  <2>1. box = [mem |-> box.mem, write |-> box.write, free |-> box.free]
    BY <1>1, TypeFacts
  <2> QED BY <1>2, <2>1
<1>7. /\ box'.mem = box.mem /\ box'.write = box.write /\ box'.free = box.free + siglen
  BY <1>6
<1>8. /\ box.free + siglen \in 0 .. UserWords
      /\ read_free' \in Nat /\ read_free' <= read_free /\ read_free' < UserWords
      /\ box'.free + read_free' = UserWords
      /\ read_free' = 0 + Behind(position, box.write, UserWords)
      /\ siglen = 0 => read_free' = read_free
  <2> DEFINE b == Behind(position, box.write, UserWords)
  <2> HIDE DEF b
  <2> QED BY <1>2, <1>5, <1>7 DEF b
<1>9. Types'
  <2>1. box' \in Rings(UserWords)
    BY <1>5, <1>6, <1>8 DEF Rings, Memories
  <2>2. boxfull' \in BOOLEAN
    BY <1>1, <1>2 DEF Types
  <2>3. siglen' \in 0 .. UserWords /\ read_free' \in 0 .. UserWords
    BY <1>2, <1>5, <1>8
  <2> QED BY <1>1, <1>2, <1>3, <1>4, <2>1, <2>2, <2>3 DEF Types, TypeOK
<1>10. Counts'
  <2>1. CountsAreExact'
    BY <1>1, <1>2, <1>3, <1>7, <1>8 DEF Counts, CountsAreExact
  <2> QED BY <1>1, <1>2, <1>8, <2>1 DEF Counts
<1>11. Control'
  <2>1. boxfull' => boxfull /\ siglen = 0
    BY <1>2
  <2>2. boxfull' => read_free' > 0
    BY <1>1, <1>8, <2>1 DEF Control
  <2>3. ~(status /\ oldLlv = "sleep") /\ frame = "none" /\ frame # "sleep"
    BY <1>1, <1>2 DEF Control
  <2> QED BY <1>1, <1>2, <1>3, <1>4, <2>2, <2>3 DEF Control
<1>12. Held'
  <2>1. R' = R
    BY <1>2 DEF R
  <2> QED BY <1>1, <1>2, <1>7, <1>8, <2>1, HeldSame
<1> QED BY <1>9, <1>10, <1>11, <1>12

-----------------------------------------------------------------------------
(* The handler reads.                                                      *)

(* What the handler finds where it reads.                                  *)
LEMMA HandlerSees ==
  ASSUME Known, NEW c, NEW vK, NEW vB, RingsHold(c, vK, vB), handler = "read"
  PROVE  /\ \/ Code = Eos /\ signal = msgbox.write
            \/ RewindAt(1, sent, c, msgbox.mem, vK, signal, msgbox.write, KernelWords)
            \/ WholeAt(1, sent, c, msgbox.mem, vK, signal, msgbox.write, KernelWords)
         /\ R = signal
         /\ msgbox.free = KernelWords - 1 - signaldw - Behind(signal, msgbox.write, KernelWords)
         /\ Behind(signal, msgbox.write, KernelWords) \in Nat
         /\ signal \in 0 .. KernelWords - 1 /\ KernelWords \in Nat /\ signaldw \in Nat
         /\ call.op = "none" /\ ~request
<1>1. Types /\ Counts /\ IInv
  BY DEF Known
<1>2. /\ signal \in 0 .. KernelWords - 1 /\ KernelWords \in Nat /\ signaldw \in Nat
      /\ msgbox.write \in 0 .. KernelWords - 1 /\ msgbox.mem \in Memories(KernelWords)
      /\ sent \in Signals
  BY <1>1, TypeFacts, LengthFacts
<1>3. R = signal
  BY DEF R
<1>4. /\ vK \in Numbers(KernelWords)
      /\ Filled(1, sent, c, msgbox.mem, vK, signal, msgbox.write, KernelWords)
      /\ msgbox.mem[msgbox.write] = Eos
  BY <1>3 DEF RingsHold, Numbers
<1>5. \/ msgbox.mem[signal] = Eos /\ signal = msgbox.write
      \/ RewindAt(1, sent, c, msgbox.mem, vK, signal, msgbox.write, KernelWords)
      \/ WholeAt(1, sent, c, msgbox.mem, vK, signal, msgbox.write, KernelWords)
  BY <1>2, <1>4, ReaderSees
<1>6. Behind(signal, msgbox.write, KernelWords) \in Nat
  BY <1>2 DEF Behind
<1>7. call.op = "none" /\ ~request
  BY <1>1 DEF IInv, Places
<1> QED BY <1>1, <1>2, <1>3, <1>5, <1>6, <1>7 DEF Code, Counts

(* The contents when the handler has read on.                              *)
LEMMA HandlerMoves ==
  ASSUME NEW c, NEW vK, NEW vB, RingsHold(c, vK, vB),
         UNCHANGED <<sent, received, position>>,
         msgbox'.mem = msgbox.mem, msgbox'.write = msgbox.write,
         box'.mem = box.mem, box'.write = box.write,
         Filled(1, sent, c, msgbox.mem, vK, R', msgbox.write, KernelWords),
         vK[R'] = vK[R]
  PROVE  RingsHold(c, vK, vB)'
BY DEF RingsHold

(* When what waits fits, it still does.                                    *)
LEMMA FitSame ==
  ASSUME NEW c, NEW vK, Fit(Pending(c, vK)), sent' = sent, vK[R'] = vK[R],
         box'.write = box.write, read_free' = read_free
  PROVE  CalmHolds(c, vK)'
<1>1. Pending(c, vK)' = Pending(c, vK)
  BY DEF Pending
<1>2. Fit(Pending(c, vK))'
  BY <1>1 DEF Fit
<1> QED BY <1>2 DEF CalmHolds

(* The handler reads what it does not pass on.                             *)
LEMMA ReadStep ==
  ASSUME Inv, HandleSystemSignal \/ HandleRewind
  PROVE  Types' /\ Counts' /\ Control' /\ Held'
<1>1. Known /\ Held /\ Types /\ Counts /\ Control /\ IInv
  BY DEF Inv, Known
<1>2. /\ handler = "read"
      /\ UNCHANGED <<msgbox, status, nest, level, oldLlv, request, iret, call, frame, handler, read_ptr,
                     box, read_free, boxfull, phase, opt, position, siglen, sent, received>>
  BY DEF HandleSystemSignal, HandleRewind, Handling, kernelVars, boxVars, programVars
<1>3. PICK c, vK, vB : RingsHold(c, vK, vB) /\ CalmHolds(c, vK)
  BY <1>1 DEF Held
<1> DEFINE F(e) == Filled(1, sent, c, msgbox.mem, vK, e, msgbox.write, KernelWords)
           B(e) == Behind(e, msgbox.write, KernelWords)
<1>4. /\ \/ Code = Eos
         \/ RewindAt(1, sent, c, msgbox.mem, vK, signal, msgbox.write, KernelWords)
         \/ WholeAt(1, sent, c, msgbox.mem, vK, signal, msgbox.write, KernelWords)
      /\ R = signal
      /\ msgbox.free = KernelWords - 1 - signaldw - B(signal)
      /\ B(signal) \in Nat
      /\ signal \in 0 .. KernelWords - 1 /\ KernelWords \in Nat /\ signaldw \in Nat
      /\ call.op = "none" /\ ~request
  BY <1>1, <1>2, <1>3, HandlerSees
<1>5. /\ F(signal') /\ vK[signal'] = vK[signal]
      /\ signal' \in 0 .. KernelWords - 1
      /\ signaldw' \in Nat
      /\ msgbox.free = KernelWords - 1 - signaldw' - B(signal')
      /\ msgbox.mem[signal] >= SystemSignal
  <2>1. CASE HandleSystemSignal
    <3>1. Code = SystemSignal /\ signal' = signal + 2 /\ signaldw' = signaldw + 2
      BY <2>1 DEF HandleSystemSignal
    <3>2. msgbox.mem[signal] = SystemSignal
      BY <3>1 DEF Code
    <3>3. WholeAt(1, sent, c, msgbox.mem, vK, signal, msgbox.write, KernelWords)
      BY <1>4, <3>1, <3>2 DEF RewindAt, SystemSignal, Eos, Rewind
    <3>4. IsSystem(1, msgbox.mem, signal)
      BY <3>2 DEF IsSystem
    <3>5. /\ Span(1, sent, msgbox.mem, vK, signal) = 2
          /\ NextId(1, msgbox.mem, vK, signal) = vK[signal]
      BY <3>4 DEF Span, NextId
    <3>6. F(signal + 2) /\ vK[signal + 2] = vK[signal] /\ signal + 2 \in 0 .. KernelWords - 1
          /\ B(signal + 2) = B(signal) - 2
      BY <3>3, <3>5 DEF WholeAt
    <3> HIDE DEF B
    <3>7. msgbox.free = KernelWords - 1 - (signaldw + 2) - (B(signal) - 2)
      BY <1>4
    <3> QED BY <1>4, <3>1, <3>2, <3>6, <3>7 DEF SystemSignal
  <2>2. CASE HandleRewind
    <3>1. Code = Rewind /\ signal' = 0 /\ signaldw' = signaldw + msgbox.mem[signal + 1]
      BY <2>2 DEF HandleRewind
    <3>2. msgbox.mem[signal] = Rewind
      BY <3>1 DEF Code
    <3>3. RewindAt(1, sent, c, msgbox.mem, vK, signal, msgbox.write, KernelWords)
      BY <1>4, <3>1, <3>2 DEF WholeAt, Eos, Rewind
    <3>4. F(0) /\ vK[0] = vK[signal] /\ B(0) = B(signal) - (KernelWords - signal)
          /\ signaldw' = signaldw + (KernelWords - signal)
      BY <3>1, <3>3 DEF RewindAt
    <3>5. KernelWords - signal \in Nat /\ signaldw' \in Nat
      BY <1>4, <3>4
    <3> HIDE DEF B
    <3>6. msgbox.free = KernelWords - 1 - signaldw' - B(0)
      BY <1>4, <3>4, <3>5
    <3> QED BY <1>4, <3>1, <3>2, <3>4, <3>5, <3>6 DEF SystemSignal, Rewind
  <2> QED BY <2>1, <2>2
<1> HIDE DEF F, B
<1>6. R' = signal'
  BY <1>2 DEF R
<1>7. Fit(Pending(c, vK))
  <2>1. ~Single(vK)
    <3>1. Single(vK) => msgbox.mem[signal] < SystemSignal
      BY <1>4 DEF Single
    <3>2. msgbox.mem[signal] \in Int
      BY <1>1, <1>4, TypeFacts, SMTT(30) DEF Memories
    <3> QED BY <1>5, <3>1, <3>2 DEF SystemSignal
  <2> QED BY <1>3, <2>1 DEF CalmHolds
<1>8. RingsHold(c, vK, vB)'
  BY <1>2, <1>3, <1>4, <1>5, <1>6, HandlerMoves DEF F
<1>9. CalmHolds(c, vK)'
  BY <1>2, <1>4, <1>5, <1>6, <1>7, FitSame
<1>10. Types'
  BY <1>1, <1>2, <1>5, SMTT(30) DEF Types, TypeOK
<1>11. Counts'
  BY <1>1, <1>2, <1>5 DEF Counts, CountsAreExact, B
<1>12. Control'
  BY <1>1, <1>2 DEF Control
<1> QED BY <1>8, <1>9, <1>10, <1>11, <1>12 DEF Held

(* The end of a run: what was handled is reported, and where to go on.     *)
LEMMA EndStep ==
  ASSUME Inv, EndOfRun
  PROVE  Types' /\ Counts' /\ Control' /\ Held'
<1>1. Known /\ Held /\ Types /\ Counts /\ Control /\ IInv
  BY DEF Inv, Known
<1>2. /\ handler = "read" /\ level = "run" /\ ~request
      /\ Done \/ Code = Eos
      /\ read_ptr' = signal
      /\ handler' = "left"
      /\ call' = Softint1Ret(signaldw, 1)
      /\ UNCHANGED <<msgbox, status, nest, level, oldLlv, request, iret, frame, signal, signaldw,
                     box, read_free, boxfull, phase, opt, position, siglen, sent, received>>
  BY DEF EndOfRun, Handling, boxVars, programVars
<1>3. call'.op = "ret" /\ call'.words = signaldw /\ call'.llv = "keep" /\ call'.al = 1
  BY <1>2 DEF Softint1Ret
<1>4. PICK c, vK, vB : RingsHold(c, vK, vB) /\ CalmHolds(c, vK)
  BY <1>1 DEF Held
<1>5. /\ R = signal
      /\ msgbox.free = KernelWords - 1 - signaldw - Behind(signal, msgbox.write, KernelWords)
      /\ Behind(signal, msgbox.write, KernelWords) \in Nat
      /\ signal \in 0 .. KernelWords - 1 /\ KernelWords \in Nat /\ signaldw \in Nat
      /\ call.op = "none"
  BY <1>1, <1>2, <1>4, HandlerSees
<1>6. R' = signal
  BY <1>2 DEF R
<1>7. Fit(Pending(c, vK))
  <2>1. ~Single(vK)
    <3>1. Single(vK) => msgbox.mem[signal] < SystemSignal /\ signaldw = 0
      BY <1>2, <1>5 DEF Single
    <3>2. signaldw = 0 => Code = Eos
      BY <1>2, LengthFacts DEF Done
    <3> QED BY <3>1, <3>2 DEF Code, Eos, SystemSignal
  <2> QED BY <1>4, <2>1 DEF CalmHolds
<1>8. RingsHold(c, vK, vB)'
  BY <1>2, <1>4, <1>5, <1>6, RingsSame
<1>9. CalmHolds(c, vK)'
  BY <1>2, <1>5, <1>6, <1>7, FitSame
<1>10. Types'
  BY <1>1, <1>2, <1>3, <1>5 DEF Types, TypeOK
<1>11. Counts'
  <2>1. msgbox.free + signaldw = KernelWords - 1 - Behind(signal, msgbox.write, KernelWords)
    BY <1>1, <1>5, TypeFacts, SMTT(30)
  <2> QED BY <1>1, <1>2, <1>3, <2>1 DEF Counts, CountsAreExact
<1>12. Control'
  BY <1>1, <1>2, <1>3 DEF Control
<1> QED BY <1>8, <1>9, <1>10, <1>11, <1>12 DEF Held

-----------------------------------------------------------------------------
(* The program reads.                                                      *)

(* The program reads the next signal, or skips to the start of its box.    *)
LEMMA ProgramSees ==
  ASSUME Known, NEW c, NEW vK, NEW vB, RingsHold(c, vK, vB)
  PROVE  /\ \/ Cell = Eos /\ position = box.write
            \/ RewindAt(0, sent, c, box.mem, vB, position, box.write, UserWords)
            \/ WholeAt(0, sent, c, box.mem, vB, position, box.write, UserWords)
         /\ read_free = siglen + Behind(position, box.write, UserWords)
         /\ Behind(position, box.write, UserWords) \in Nat
         /\ position \in 0 .. UserWords - 1 /\ UserWords \in Nat
         /\ siglen \in Nat /\ read_free \in Nat /\ read_free < UserWords
         /\ box.write \in 0 .. UserWords - 1
         /\ vB[position] = Len(received) + 1 /\ Len(received) \in Nat
<1>1. Types /\ Counts
  BY DEF Known
<1>2. /\ position \in 0 .. UserWords - 1 /\ UserWords \in Nat /\ siglen \in Nat /\ read_free \in Nat
      /\ box.write \in 0 .. UserWords - 1 /\ box.mem \in Memories(UserWords)
      /\ sent \in Signals /\ Len(received) \in Nat
  BY <1>1, TypeFacts, LengthFacts
<1>3. /\ vB \in Numbers(UserWords)
      /\ Filled(0, sent, c, box.mem, vB, position, box.write, UserWords)
      /\ box.mem[box.write] = Eos
      /\ vB[position] = Len(received) + 1
  BY DEF RingsHold, Numbers
<1>4. \/ box.mem[position] = Eos /\ position = box.write
      \/ RewindAt(0, sent, c, box.mem, vB, position, box.write, UserWords)
      \/ WholeAt(0, sent, c, box.mem, vB, position, box.write, UserWords)
  BY <1>2, <1>3, ReaderSees
<1>5. Behind(position, box.write, UserWords) \in Nat
  BY <1>2 DEF Behind
<1> QED BY <1>1, <1>2, <1>3, <1>4, <1>5 DEF Cell, Counts, CountsAreExact

(* A word of a signal at the position of the program is that of the next   *)
(* signal.                                                                 *)
LEMMA NextSignal ==
  ASSUME Known, NEW c, NEW vK, NEW vB, RingsHold(c, vK, vB), Cell > 0
  PROVE  /\ Cell = Len(received) + 1 /\ Cell \in 1 .. Len(sent)
         /\ sent[Cell] \in Nat \ {0}
         /\ position + sent[Cell] \in 0 .. UserWords - 1
         /\ vB[position + sent[Cell]] = Cell + 1
         /\ Filled(0, sent, c, box.mem, vB, position + sent[Cell], box.write, UserWords)
         /\ Behind(position + sent[Cell], box.write, UserWords)
              = Behind(position, box.write, UserWords) - sent[Cell]
<1>1. /\ \/ Cell = Eos
         \/ RewindAt(0, sent, c, box.mem, vB, position, box.write, UserWords)
         \/ WholeAt(0, sent, c, box.mem, vB, position, box.write, UserWords)
      /\ vB[position] = Len(received) + 1 /\ Len(received) \in Nat
      /\ position \in 0 .. UserWords - 1 /\ UserWords \in Nat
  BY ProgramSees
<1>2. sent \in Signals /\ Len(sent) \in Nat
  BY TypeFacts DEF Known
<1>3. WholeAt(0, sent, c, box.mem, vB, position, box.write, UserWords)
  BY <1>1 DEF RewindAt, Cell, Eos, Rewind
<1>4. ~IsSystem(0, box.mem, position)
  BY DEF IsSystem
<1>5. vB[position] <= Len(sent) /\ box.mem[position + 0] = vB[position]
  BY <1>3, <1>4 DEF WholeAt, Whole
<1>6. Cell = vB[position]
  BY <1>1, <1>5 DEF Cell
<1>7. Cell \in 1 .. Len(sent) /\ Cell = Len(received) + 1
  BY <1>1, <1>2, <1>5, <1>6
<1>8. sent[Cell] \in Nat \ {0}
  BY <1>2, <1>7 DEF Signals
<1>9. Span(0, sent, box.mem, vB, position) = sent[Cell]
      /\ NextId(0, box.mem, vB, position) = Cell + 1
  BY <1>4, <1>6, <1>8 DEF Span, NextId
<1> QED BY <1>3, <1>7, <1>8, <1>9 DEF WholeAt

(* The history of the program: the signals 1, 2, 3 and so on.              *)
LEMMA NumbersGoOn ==
  ASSUME NEW r \in Seq(Nat), r = [i \in 1 .. Len(r) |-> i]
  PROVE  LET q == Append(r, Len(r) + 1) IN
         q \in Seq(Nat) /\ Len(q) = Len(r) + 1 /\ q = [i \in 1 .. Len(q) |-> i]
<1> DEFINE q == Append(r, Len(r) + 1)
<1>1. Len(r) \in Nat /\ \A i \in 1 .. Len(r) : r[i] = i
  <2>1. \A i \in 1 .. Len(r) : [j \in 1 .. Len(r) |-> j][i] = i
    OBVIOUS
  <2> QED BY <2>1
<1>2. /\ q \in Seq(Nat) /\ Len(q) = Len(r) + 1
      /\ \A i \in 1 .. Len(r) : q[i] = r[i]
      /\ q[Len(r) + 1] = Len(r) + 1
  BY <1>1, AppendProperties
<1>3. q \in [1 .. Len(q) -> Nat]
  <2> HIDE DEF q
  <2> QED BY <1>2
<1>4. \A i \in 1 .. Len(q) : q[i] = i
  <2>1. TAKE i \in 1 .. Len(q)
  <2>2. i \in 1 .. Len(r) \/ i = Len(r) + 1
    BY <1>1, <1>2
  <2> HIDE DEF q
  <2> QED BY <1>1, <1>2, <2>2
<1> HIDE DEF q
<1>5. q = [i \in 1 .. Len(q) |-> i]
  BY <1>3, <1>4
<1> QED BY <1>2, <1>5 DEF q

(* The program reads a signal or skips to the start of its box.            *)
LEMMA ReceiveStep ==
  ASSUME Inv, Receive \/ SkipToStart
  PROVE  Types' /\ Counts' /\ Control' /\ Held'
<1>1. Known /\ Held /\ Types /\ Counts /\ Control /\ IInv
  BY DEF Inv, Known
<1>2. UNCHANGED <<msgbox, status, nest, level, oldLlv, request, iret, call, frame, handler, read_ptr,
                  signal, signaldw, box, read_free, boxfull, phase, opt, sent>>
  BY DEF Receive, SkipToStart, kernelVars, handlerVars, boxVars
<1>3. PICK c, vK, vB : RingsHold(c, vK, vB) /\ CalmHolds(c, vK)
  BY <1>1 DEF Held
<1> DEFINE F(e) == Filled(0, sent, c, box.mem, vB, e, box.write, UserWords)
           B(e) == Behind(e, box.write, UserWords)
<1>4. /\ \/ Cell = Eos
         \/ RewindAt(0, sent, c, box.mem, vB, position, box.write, UserWords)
         \/ WholeAt(0, sent, c, box.mem, vB, position, box.write, UserWords)
      /\ read_free = siglen + B(position)
      /\ B(position) \in Nat
      /\ position \in 0 .. UserWords - 1 /\ UserWords \in Nat
      /\ siglen \in Nat /\ read_free \in Nat /\ read_free < UserWords
      /\ box.write \in 0 .. UserWords - 1
      /\ vB[position] = Len(received) + 1
  BY <1>1, <1>3, ProgramSees
<1>5. received \in Seq(Nat) /\ received = [i \in 1 .. Len(received) |-> i]
  BY <1>1 DEF Types
<1>6. /\ F(position') /\ position' \in 0 .. UserWords - 1
      /\ vB[position'] = Len(received') + 1
      /\ siglen' \in Nat /\ read_free = siglen' + B(position')
      /\ received' \in Seq(Nat) /\ received' = [i \in 1 .. Len(received') |-> i]
  <2>1. CASE Receive
    <3>1. /\ Cell > 0 /\ received' = Append(received, Cell)
          /\ position' = position + sent[Cell] /\ siglen' = siglen + sent[Cell]
      BY <2>1 DEF Receive
    <3>2. /\ Cell = Len(received) + 1 /\ sent[Cell] \in Nat \ {0}
          /\ position' \in 0 .. UserWords - 1
          /\ vB[position'] = Cell + 1
          /\ F(position') /\ B(position') = B(position) - sent[Cell]
      BY <1>1, <1>3, <3>1, NextSignal
    <3>3. received' \in Seq(Nat) /\ Len(received') = Len(received) + 1
          /\ received' = [i \in 1 .. Len(received') |-> i]
      BY <1>5, <3>1, <3>2, NumbersGoOn
    <3> HIDE DEF F, B
    <3>4. vB[position'] = Len(received') + 1
      BY <3>2, <3>3
    <3>5. siglen' \in Nat /\ read_free = siglen' + B(position')
      <4>1. \A n, b \in Nat : siglen + b = (siglen + n) + (b - n)
        BY <1>4
      <4>2. siglen' = siglen + sent[Cell] /\ B(position') = B(position) - sent[Cell]
            /\ sent[Cell] \in Nat
        BY <3>1, <3>2
      <4>3. siglen' \in Nat
        BY <1>4, <4>2
      <4> QED BY <1>4, <4>1, <4>2, <4>3
    <3> QED BY <3>2, <3>3, <3>4, <3>5
  <2>2. CASE SkipToStart
    <3>1. /\ Cell = Rewind /\ position' = 0 /\ siglen' = siglen + box.mem[position + 1]
          /\ received' = received
      BY <2>2 DEF SkipToStart
    <3>2. box.mem[position] = Rewind
      BY <3>1 DEF Cell
    <3>3. RewindAt(0, sent, c, box.mem, vB, position, box.write, UserWords)
      BY <1>4, <3>1, <3>2 DEF WholeAt, Eos, Rewind
    <3>4. F(0) /\ vB[0] = vB[position] /\ B(0) = B(position) - (UserWords - position)
          /\ siglen' = siglen + (UserWords - position)
      BY <3>1, <3>3 DEF RewindAt
    <3> HIDE DEF F, B
    <3>5. siglen' \in Nat /\ read_free = siglen' + B(0)
      BY <1>4, <3>4
    <3> QED BY <1>4, <1>5, <3>1, <3>4, <3>5
  <2>3. Receive \/ SkipToStart
    OBVIOUS
  <2> QED BY <2>1, <2>2, <2>3
<1>7. RingsHold(c, vK, vB)'
  <2>1. R' = R
    BY <1>2 DEF R
  <2> QED BY <1>2, <1>3, <1>6, <2>1 DEF RingsHold
<1>8. CalmHolds(c, vK)'
  <2>1. R' = R
    BY <1>2 DEF R
  <2>2. read_free' \in Nat /\ read_free' <= read_free
    BY <1>2, <1>4
  <2>3. msgbox'.mem = msgbox.mem /\ box'.write = box.write
    BY <1>2
  <2>4. /\ handler' = "read" => signaldw' = 0 \/ (handler = "read" /\ signaldw' = signaldw)
        /\ status' /\ oldLlv' = "sleep" => (status /\ oldLlv = "sleep") \/ read_free = 0
        /\ sent' = sent
    BY <1>2
  <2> QED BY <1>1, <1>3, <2>1, <2>2, <2>3, <2>4, CalmSame
<1>9. Types'
  <2>1. siglen' \in 0 .. UserWords
    <3>1. B(position') \in Nat
      <4>1. ASSUME NEW p \in 0 .. UserWords - 1 PROVE Behind(p, box.write, UserWords) \in Nat
        BY <1>4, SMTT(30) DEF Behind
      <4> QED BY <1>6, <4>1 DEF B
    <3> HIDE DEF B, F
    <3> QED BY <1>4, <1>6, <3>1, SMTT(30)
  <2> QED BY <1>1, <1>2, <1>6, <2>1 DEF Types, TypeOK
<1>10. Counts'
  BY <1>1, <1>2, <1>6 DEF Counts, CountsAreExact
<1>11. Control'
  BY <1>1, <1>2 DEF Control
<1> QED BY <1>7, <1>8, <1>9, <1>10, <1>11 DEF Held

-----------------------------------------------------------------------------
(* The handler passes a signal on.                                         *)

(* The signal that the handler finds for the program.                      *)
LEMMA HandlerSignal ==
  ASSUME Known, NEW c, NEW vK, NEW vB, RingsHold(c, vK, vB), handler = "read", Code < SystemSignal
  PROVE  /\ vK[signal] \in 1 .. Len(sent) /\ -2 - Code = sent[vK[signal]] /\ -2 - Code \in Lengths
         /\ signal + (-2 - Code) + 1 \in 0 .. KernelWords - 1
         /\ vK[signal + (-2 - Code) + 1] = vK[signal] + 1
         /\ Filled(1, sent, c, msgbox.mem, vK, signal + (-2 - Code) + 1, msgbox.write, KernelWords)
         /\ Behind(signal + (-2 - Code) + 1, msgbox.write, KernelWords)
              = Behind(signal, msgbox.write, KernelWords) - ((-2 - Code) + 1)
         /\ Len(Words(signal + 1, -2 - Code)) = -2 - Code
         /\ LaysOne(0, sent, vK[signal], Words(signal + 1, -2 - Code))
         /\ IdBehind(0, vK[signal], Words(signal + 1, -2 - Code)) = vK[signal] + 1
<1> DEFINE id == vK[signal]
           n  == -2 - Code
           m  == msgbox.mem
           ws == Words(signal + 1, n)
<1>1. /\ \/ Code = Eos
         \/ RewindAt(1, sent, c, m, vK, signal, msgbox.write, KernelWords)
         \/ WholeAt(1, sent, c, m, vK, signal, msgbox.write, KernelWords)
      /\ R = signal
      /\ signal \in 0 .. KernelWords - 1 /\ KernelWords \in Nat
  BY HandlerSees
<1>2. /\ m \in Memories(KernelWords) /\ sent \in Signals /\ Len(sent) \in Nat /\ sent \in Seq(Lengths)
  BY TypeFacts DEF Known, Types
<1>3. id \in 1 .. Len(sent) + 1
  BY <1>1, PendingFacts
<1>4. WholeAt(1, sent, c, m, vK, signal, msgbox.write, KernelWords)
  BY <1>1 DEF RewindAt, Code, Eos, Rewind, SystemSignal
<1>5. ~IsSystem(1, m, signal)
  BY DEF IsSystem, Code, SystemSignal
<1>6. id <= Len(sent) /\ m[signal + 1] = id /\ m[signal] = HeaderCut(sent[id])
  BY <1>4, <1>5 DEF WholeAt, Whole
<1>7. id \in 1 .. Len(sent) /\ sent[id] \in Lengths /\ sent[id] \in Nat \ {0}
  <2>1. id \in 1 .. Len(sent)
    BY <1>2, <1>3, <1>6
  <2>2. sent[id] \in Lengths
    BY <1>2, <2>1
  <2> QED BY <2>1, <2>2, LengthFacts
<1>8. n = sent[id]
  BY <1>6, <1>7 DEF Code, HeaderCut
<1>9. Span(1, sent, m, vK, signal) = sent[id] + 1 /\ NextId(1, m, vK, signal) = id + 1
  BY <1>5 DEF Span, NextId
<1>10. signal + (sent[id] + 1) = signal + n + 1 /\ sent[id] + 1 = n + 1
  BY <1>1, <1>7, <1>8
<1>11. /\ signal + n + 1 \in 0 .. KernelWords - 1
       /\ vK[signal + n + 1] = id + 1
       /\ Filled(1, sent, c, m, vK, signal + n + 1, msgbox.write, KernelWords)
       /\ Behind(signal + n + 1, msgbox.write, KernelWords)
            = Behind(signal, msgbox.write, KernelWords) - (n + 1)
  <2> HIDE DEF n, id, m
  <2> QED BY <1>4, <1>9, <1>10 DEF WholeAt, id, m
<1>12. n \in Nat \ {0}
  BY <1>7, <1>8
<1> HIDE DEF n
<1>13. Len(ws) = n /\ ws \in [1 .. n -> Int] /\ ws[1] = id
  <2>1. ws = [i \in 1 .. n |-> m[signal + 1 + i - 1]]
    BY DEF Words
  <2>2. \A i \in 1 .. n : m[signal + 1 + i - 1] \in Int
    <3>1. TAKE i \in 1 .. n
    <3>2. signal + 1 + i - 1 \in 0 .. KernelWords
      BY <1>1, <1>11, <1>12
    <3> QED BY <1>2, <3>2 DEF Memories
  <2>3. 1 \in 1 .. n /\ signal + 1 + 1 - 1 = signal + 1
    BY <1>1, <1>12
  <2> HIDE DEF ws
  <2>4. Len(ws) = n
    BY <1>12, <2>1
  <2> QED BY <1>6, <2>1, <2>2, <2>3, <2>4
<1> HIDE DEF ws, id
<1>14. LaysOne(0, sent, id, ws)
  <2>1. ws[1 + 0] = id /\ sent[id] + 0 = n
    BY <1>7, <1>8, <1>13
  <2> QED BY <1>7, <1>12, <1>13, <2>1 DEF LaysOne
<1>15. IdBehind(0, id, ws) = id + 1
  BY DEF IdBehind
<1> QED BY <1>7, <1>8, <1>11, <1>13, <1>14, <1>15 DEF n, ws, id, m

(* What the handler's attempt to pass it on leaves of the program's box.   *)
LEMMA HandlerPuts ==
  ASSUME Known, NEW c, NEW vK, NEW vB, RingsHold(c, vK, vB), handler = "read", Code < SystemSignal,
         NEW put, put = UserPut(Words(signal + 1, -2 - Code)),
         box' = put.box, read_free' = read_free + (box.free - put.box.free)
  PROVE  /\ put = SendInto(box, Words(signal + 1, -2 - Code), UserWords, 1) /\ put.ok \in BOOLEAN
         /\ put.ok => Sent(0, sent, c, vB, position, box', UserWords, vK[signal] + 1)
         /\ ~put.ok => Sent(0, sent, c, vB, position, box', UserWords, vK[signal])
         /\ box' \in Rings(UserWords)
         /\ read_free' \in Nat /\ read_free' >= read_free /\ read_free' < UserWords
         /\ read_free' \in 0 .. UserWords
         /\ box'.free + read_free' = UserWords
         /\ read_free' = siglen + Behind(position, box'.write, UserWords)
<1> DEFINE ws == Words(signal + 1, -2 - Code)
           U == UserWords
<1>1. Types /\ Counts /\ Control /\ IInv
  BY DEF Known
<1>2. /\ box.mem \in Memories(U) /\ box.write \in 0 .. U - 1 /\ U \in Nat
      /\ box.free \in 0 .. U /\ position \in 0 .. U - 1
      /\ read_free \in Nat /\ siglen \in Nat /\ sent \in Signals
      /\ box = [mem |-> box.mem, write |-> box.write, free |-> box.free]
  BY <1>1, TypeFacts, LengthFacts
<1>3. ~boxfull
  BY <1>1 DEF IInv, FullMasks
<1>4. put = SendInto(box, ws, U, 1)
  BY <1>3 DEF UserPut
<1>5. /\ box.free + read_free = U /\ read_free < U
      /\ read_free = siglen + Behind(position, box.write, U)
      /\ Behind(position, box.write, U) \in Nat
  <2>1. Behind(position, box.write, U) \in Nat
    BY <1>2 DEF Behind
  <2> QED BY <1>1, <2>1 DEF Counts, CountsAreExact
<1>6. box.free <= U - 1 + 1 - Behind(position, box.write, U) /\ box.free >= 1
      /\ box.free \in Int /\ box.free \in 1 .. U
  <2> HIDE DEF U
  <2>1. \A b, g \in Nat : g + b <= read_free => (box.free <= U - 1 + 1 - b)
    BY <1>2, <1>5
  <2> QED BY <1>2, <1>5, <2>1
<1>7. Len(ws) \in Nat /\ LaysOne(0, sent, vK[signal], ws) /\ IdBehind(0, vK[signal], ws) = vK[signal] + 1
  <2>1. Len(ws) = -2 - Code /\ -2 - Code \in Lengths
    BY HandlerSignal
  <2>2. Len(ws) \in Nat
    BY <2>1, LengthFacts
  <2> QED BY <2>2, HandlerSignal
<1>8. vB[box.write] = vK[signal]
  BY DEF RingsHold, R
<1>9. Room(0, sent, c, vB, position, box, U, 1)
  BY <1>2, <1>6 DEF Room, RingsHold, Numbers
<1> HIDE DEF ws, U
<1>10. /\ put.ok \in BOOLEAN
       /\ ~put.ok => Sent(0, sent, c, vB, position, put.box, U, vB[box.write])
       /\ put.ok /\ LaysOne(0, sent, vB[box.write], ws) =>
            Sent(0, sent, c, vB, position, put.box, U, IdBehind(0, vB[box.write], ws))
  BY <1>4, <1>7, <1>9, SendIntoFilled
<1>11. /\ put.box.write \in 0 .. U - 1
       /\ put.box.free \in 1 .. box.free
       /\ put.box.free + Behind(position, put.box.write, U) = box.free + Behind(position, box.write, U)
  BY <1>2, <1>4, <1>6, <1>7, SendIntoMoves
<1>12. put.box = [mem |-> put.box.mem, write |-> put.box.write, free |-> put.box.free]
  BY <1>2, <1>4, SendIntoShape
<1>13. put.box.mem \in Memories(U)
  BY <1>7, <1>8, <1>10 DEF Sent
<1>14. box' \in Rings(U)
  <2>1. put.box.free \in 0 .. U
    BY <1>2, <1>11
  <2> QED BY <1>11, <1>12, <1>13, <2>1 DEF Rings, Memories
<1>15. Behind(position, put.box.write, U) \in Nat
  <2>1. put.box.write \in 0 .. U - 1 /\ position \in 0 .. U - 1 /\ U \in Nat
    BY <1>2, <1>11
  <2> QED BY <2>1 DEF Behind
<1>16. /\ read_free' \in Nat /\ read_free' >= read_free /\ read_free' < U
       /\ read_free' \in 0 .. U
       /\ put.box.free + read_free' = U
       /\ read_free' = siglen + Behind(position, put.box.write, U)
  <2> DEFINE b == Behind(position, box.write, U)
             b2 == Behind(position, put.box.write, U)
             g == put.box.free
  <2> HIDE DEF b, b2, g
  <2>1. /\ g \in 1 .. box.free /\ g + b2 = box.free + b /\ b \in Nat /\ b2 \in Nat
        /\ read_free' = read_free + (box.free - g) /\ read_free = siglen + b
        /\ box.free + read_free = U /\ box.free \in 1 .. U
    BY <1>5, <1>6, <1>11, <1>15 DEF b, b2, g
  <2>2. g \in Nat /\ box.free \in Nat /\ g <= box.free /\ g >= 1
    BY <1>2, <2>1
  <2> QED BY <1>2, <2>1, <2>2 DEF b2, g
<1> QED BY <1>4, <1>7, <1>8, <1>10, <1>14, <1>16 DEF ws, U

(* A signal taken out of the kernel's box is no longer pending.            *)
LEMMA PendingTaken ==
  ASSUME Known, NEW c, NEW vK, NEW vB, RingsHold(c, vK, vB), vK[R] \in 1 .. Len(sent),
         sent' = sent, vK[R'] = vK[R] + 1
  PROVE  /\ Pending(c, vK) \in Nat
         /\ sent[vK[R]] \in Nat /\ sent[vK[R]] <= Pending(c, vK)
         /\ Pending(c, vK)' = Pending(c, vK) - sent[vK[R]]
         /\ vK[R] = Len(sent) => Pending(c, vK) = sent[vK[R]]
<1> DEFINE id == vK[R]
           top == Len(sent) + 1
<1>1. sent \in Signals /\ Len(sent) \in Nat
  BY TypeFacts DEF Known
<1>2. sent[id] \in Nat
  BY <1>1 DEF Signals
<1>3. /\ c[id + 1] = c[id] + sent[id] /\ c[id] \in Nat /\ c[top] \in Nat /\ c[id + 1] \in Nat
      /\ c[id + 1] <= c[top]
  <2>1. Sums(sent, c) /\ id \in 1 .. top /\ id + 1 \in 1 .. top /\ top \in 1 .. top /\ id + 1 <= top
    BY <1>1 DEF RingsHold
  <2> QED BY <2>1 DEF Sums
<1>4. Pending(c, vK) = c[top] - c[id]
  BY DEF Pending
<1>5. Pending(c, vK)' = c[top] - c[id + 1]
  BY DEF Pending
<1> HIDE DEF id, top
<1>6. /\ c[top] - c[id] \in Nat /\ sent[id] <= c[top] - c[id]
      /\ c[top] - c[id + 1] = (c[top] - c[id]) - sent[id]
  BY <1>2, <1>3
<1>7. id = Len(sent) => c[top] - c[id] = sent[id]
  BY <1>2, <1>3 DEF top
<1> QED BY <1>2, <1>4, <1>5, <1>6, <1>7 DEF id

(* Fit for other values of the variables.                                  *)
FitAt(g, w, p) ==
  /\ g + p < UserWords
  /\ w + p < UserWords \/ g + p + Max(Lengths) < UserWords

(* What fits, fits; and the rest fits behind it.                           *)
LEMMA FitPut ==
  ASSUME Known, NEW words, NEW p \in Nat, Len(words) \in Lengths, Len(words) <= p,
         NEW put, put = SendInto(box, words, UserWords, 1),
         box' = put.box, read_free' = read_free + (box.free - put.box.free)
  PROVE  /\ Fit(p) => put.ok /\ FitAt(read_free', box'.write, p - Len(words))
         /\ put.ok /\ p = Len(words) => FitAt(read_free', box'.write, p - Len(words))
<1> DEFINE n == Len(words)
           w == box.write
           U == UserWords
           L == Longest
           g == read_free
           p2 == p - n
           F2 == FitAt(read_free', box'.write, p2)
<1>1. /\ w \in 0 .. U - 1 /\ U \in Nat /\ box.free \in Int /\ g \in Nat
      /\ L \in Nat /\ n \in Nat /\ n <= L /\ p2 \in Nat /\ p2 = p - n
  <2>1. n \in Nat /\ n <= L
    BY LengthFacts
  <2>2. Types /\ p2 \in Nat
    BY <2>1 DEF Known
  <2> QED BY <2>1, <2>2, TypeFacts, LengthFacts
<1>2. g < U /\ box.free = U - g
  <2>1. g < U /\ box.free + g = U
    BY DEF Known, Counts, CountsAreExact
  <2> HIDE DEF U, g
  <2> QED BY <1>1, <2>1
<1>3. \/ w + n < U /\ box.free - n < 1 /\ ~put.ok
      \/ /\ w + n < U /\ box.free - n >= 1
         /\ put.ok /\ put.box.write = w + n /\ put.box.free = box.free - n
      \/ w + n >= U /\ box.free - (U - w) < 1 /\ ~put.ok
      \/ w + n >= U /\ box.free - (U - w) - n < 1 /\ ~put.ok
      \/ /\ w + n >= U /\ box.free - (U - w) - n >= 1
         /\ put.ok /\ put.box.write = n /\ put.box.free = box.free - (U - w) - n
  BY <1>1, SendIntoCases, SMTT(30)
<1>4. read_free' = g + (box.free - put.box.free) /\ box'.write = put.box.write
  OBVIOUS
<1>5. Fit(p) <=> g + p < U /\ (w + p < U \/ g + p + L < U)
  BY DEF Fit, Longest
<1>6. F2 <=> read_free' + p2 < U /\ (box'.write + p2 < U \/ read_free' + p2 + L < U)
  BY DEF FitAt, Longest
<1> HIDE DEF n, w, U, L, g, p2, F2
<1>7. Fit(p) => put.ok
  BY <1>1, <1>2, <1>3, <1>5, SMTT(30)
<1>8. CASE ~put.ok
  BY <1>7, <1>8
<1>9. CASE w + n < U /\ put.ok
  <2>1. box.free - n >= 1 /\ put.box.write = w + n /\ put.box.free = box.free - n
    BY <1>1, <1>3, <1>9
  <2>2. read_free' = g + n /\ box'.write = w + n
    BY <1>1, <1>2, <1>4, <2>1
  <2>3. Fit(p) => F2
    BY <1>1, <1>2, <1>5, <1>6, <2>2
  <2>4. p = n => F2
    BY <1>1, <1>2, <1>6, <1>9, <2>1, <2>2
  <2> QED BY <1>7, <2>3, <2>4 DEF n, p2, F2
<1>10. CASE w + n >= U /\ put.ok
  <2>1. /\ box.free - (U - w) - n >= 1
        /\ put.box.write = n /\ put.box.free = box.free - (U - w) - n
    BY <1>1, <1>3, <1>10
  <2>2. read_free' = g + (U - w) + n /\ box'.write = n
    BY <1>1, <1>2, <1>4, <2>1, SMTT(30)
  <2>3. Fit(p) => F2
    <3>1. SUFFICES ASSUME Fit(p) PROVE F2
      OBVIOUS
    <3>2. g + p < U /\ g + p + L < U
      BY <1>1, <1>5, <1>10, <3>1
    <3>3. U - w <= n /\ U - w + p2 + n = U - w + p
      BY <1>1, <1>10
    <3>4. read_free' + p2 < U
      BY <1>1, <2>2, <3>2, <3>3
    <3>5. box'.write + p2 < U
      BY <1>1, <2>2, <3>2, SMTT(30)
    <3> QED BY <1>6, <3>4, <3>5
  <2>4. p = n => F2
    BY <1>1, <1>2, <1>6, <1>10, <2>1, <2>2
  <2> QED BY <1>7, <2>3, <2>4 DEF n, p2, F2
<1> QED BY <1>1, <1>8, <1>9, <1>10 DEF n, p2, F2

(* The reader at two places has equally much before it only if they are one. *)
LEMMA SameBehind ==
  ASSUME NEW size \in Nat, NEW a \in 0 .. size - 1, NEW b \in 0 .. size - 1, NEW w \in 0 .. size - 1,
         Behind(a, w, size) = Behind(b, w, size)
  PROVE  a = b
BY DEF Behind

(* A signal is passed on to the program.                                   *)
LEMMA PassOnStep ==
  ASSUME Inv, PassOn
  PROVE  Types' /\ Counts' /\ Control' /\ Held'
<1> DEFINE n   == -2 - Code
           put == UserPut(Words(signal + 1, n))
<1>1. Known /\ Held /\ Types /\ Counts /\ Control /\ IInv
  BY DEF Inv, Known
<1>2. /\ handler = "read" /\ level = "run" /\ ~request /\ call = NoCall
      /\ Code < SystemSignal /\ put.ok
      /\ box' = put.box /\ read_free' = read_free + (box.free - put.box.free)
      /\ frame' = "run" /\ signaldw' = signaldw + n + 1 /\ signal' = signal + n + 1
      /\ UNCHANGED <<msgbox, status, nest, level, oldLlv, request, iret, call, handler, read_ptr,
                     boxfull, phase, opt, position, siglen, sent, received>>
  BY DEF PassOn, Handling, kernelVars, programVars
<1>3. PICK c, vK, vB : RingsHold(c, vK, vB) /\ CalmHolds(c, vK)
  BY <1>1 DEF Held
<1>4. /\ R = signal
      /\ msgbox.free = KernelWords - 1 - signaldw - Behind(signal, msgbox.write, KernelWords)
      /\ Behind(signal, msgbox.write, KernelWords) \in Nat
      /\ signal \in 0 .. KernelWords - 1 /\ KernelWords \in Nat /\ signaldw \in Nat
  BY <1>1, <1>2, <1>3, HandlerSees
<1>5. /\ vK[signal] \in 1 .. Len(sent) /\ n = sent[vK[signal]] /\ n \in Lengths /\ n \in Nat
      /\ signal' \in 0 .. KernelWords - 1
      /\ vK[signal'] = vK[signal] + 1
      /\ Filled(1, sent, c, msgbox.mem, vK, signal', msgbox.write, KernelWords)
      /\ Behind(signal', msgbox.write, KernelWords)
           = Behind(signal, msgbox.write, KernelWords) - (n + 1)
      /\ Len(Words(signal + 1, n)) = n
  <2>1. -2 - Code \in Nat
    BY <1>1, <1>2, <1>3, HandlerSignal, LengthFacts
  <2> QED BY <1>1, <1>2, <1>3, <2>1, HandlerSignal
<1> HIDE DEF n
<1>6. /\ put = SendInto(box, Words(signal + 1, n), UserWords, 1)
      /\ Sent(0, sent, c, vB, position, box', UserWords, vK[signal] + 1)
      /\ box' \in Rings(UserWords)
      /\ read_free' \in 0 .. UserWords /\ read_free' < UserWords
      /\ box'.free + read_free' = UserWords
      /\ read_free' = siglen + Behind(position, box'.write, UserWords)
  BY <1>1, <1>2, <1>3, HandlerPuts DEF n
<1> HIDE DEF put
<1>i. n \in Nat /\ signaldw \in Nat /\ KernelWords \in Nat
  BY <1>4, <1>5
<1>7. R' = signal'
  BY <1>2 DEF R
<1>8. PICK vB2 \in Numbers(UserWords) :
        /\ Filled(0, sent, c, box'.mem, vB2, position, box'.write, UserWords)
        /\ box'.mem[box'.write] = Eos
        /\ vB2[position] = vB[position]
        /\ vB2[box'.write] = vK[signal] + 1
  BY <1>6 DEF Sent
<1>9. RingsHold(c, vK, vB2)'
  BY <1>2, <1>3, <1>5, <1>7, <1>8 DEF RingsHold, Numbers
<1>10. Fit(Pending(c, vK))'
  <2>1. /\ Pending(c, vK) \in Nat /\ n <= Pending(c, vK)
        /\ Pending(c, vK)' = Pending(c, vK) - n
        /\ vK[R] = Len(sent) => Pending(c, vK) = n
    BY <1>1, <1>2, <1>3, <1>4, <1>5, <1>7, PendingTaken
  <2>2. \A p \in Nat : n <= p /\ (Fit(p) \/ p = n) => FitAt(read_free', box'.write, p - n)
    <3>1. TAKE p \in Nat
    <3>2. HAVE n <= p /\ (Fit(p) \/ p = n)
    <3> QED BY <1>1, <1>2, <1>5, <1>6, <3>2, FitPut
  <2>3. Fit(Pending(c, vK)) \/ Pending(c, vK) = n
    BY <1>3, <1>4, <1>5, <2>1 DEF CalmHolds, Single
  <2>4. FitAt(read_free', box'.write, Pending(c, vK) - n)
    <3> HIDE DEF Pending
    <3> QED BY <2>1, <2>2, <2>3
  <2>5. FitAt(read_free', box'.write, Pending(c, vK)')
    BY <2>1, <2>4
  <2> QED BY <2>5 DEF Fit, FitAt
<1>11. CalmHolds(c, vK)'
  BY <1>10 DEF CalmHolds
<1>12. Types'
  <2>1. signaldw' \in Nat
    <3>1. signaldw' = signaldw + n + 1
      BY <1>2
    <3> QED BY <1>i, <3>1
  <2>2. frame' \in Levels
    BY <1>2 DEF Levels
  <2>3. TypeOK'
    <3>1. signal' \in 0 .. KernelWords - 1 /\ box' \in Rings(UserWords) /\ read_free' \in 0 .. UserWords
      BY <1>5, <1>6
    <3> QED BY <1>1, <1>2, <2>2, <3>1 DEF Types, TypeOK
  <2> QED BY <1>1, <1>2, <2>1, <2>3 DEF Types
<1>13. Counts'
  <2>1. msgbox.free = KernelWords - 1 - signaldw' - Behind(signal', msgbox.write, KernelWords)
    <3>1. \A b \in Nat : KernelWords - 1 - signaldw - b = KernelWords - 1 - (signaldw + n + 1) - (b - (n + 1))
      BY <1>i
    <3>2. signaldw' = signaldw + n + 1
      BY <1>2
    <3> QED BY <1>4, <1>5, <3>1, <3>2
  <2> QED BY <1>1, <1>2, <1>6, <2>1 DEF Counts, CountsAreExact
<1>14. Control'
  <2>1. ~boxfull
    BY <1>1, <1>2 DEF IInv, FullMasks
  <2> QED BY <1>1, <1>2, <2>1 DEF Control
<1> QED BY <1>9, <1>11, <1>12, <1>13, <1>14 DEF Held

(* Only a signal that came while nothing else waited finds the box full.   *)
LEMMA BoxFullStep ==
  ASSUME Inv, BoxFull
  PROVE  Types' /\ Counts' /\ Control' /\ Held'
<1> DEFINE n   == -2 - Code
           put == UserPut(Words(signal + 1, n))
<1>1. Known /\ Held /\ Types /\ Counts /\ Control /\ IInv
  BY DEF Inv, Known
<1>2. /\ handler = "read" /\ level = "run" /\ ~request /\ call = NoCall
      /\ Code < SystemSignal /\ ~put.ok
      /\ box' = put.box /\ read_free' = read_free + (box.free - put.box.free)
      /\ boxfull' = TRUE /\ handler' = "left" /\ call' = Softint1Ret(signaldw, 255)
      /\ UNCHANGED <<msgbox, status, nest, level, oldLlv, request, iret, frame, read_ptr, signal,
                     signaldw, phase, opt, position, siglen, sent, received>>
  BY DEF BoxFull, Handling, programVars
<1>3. PICK c, vK, vB : RingsHold(c, vK, vB) /\ CalmHolds(c, vK)
  BY <1>1 DEF Held
<1>4. /\ R = signal
      /\ msgbox.free = KernelWords - 1 - signaldw - Behind(signal, msgbox.write, KernelWords)
      /\ Behind(signal, msgbox.write, KernelWords) \in Nat
      /\ signal \in 0 .. KernelWords - 1 /\ KernelWords \in Nat /\ signaldw \in Nat
      /\ call.op = "none"
  BY <1>1, <1>2, <1>3, HandlerSees
<1>5. /\ vK[signal] \in 1 .. Len(sent) /\ n = sent[vK[signal]] /\ n \in Lengths /\ n \in Nat
      /\ Len(Words(signal + 1, n)) = n
      /\ vK[signal + n + 1] = vK[signal] + 1
  <2>1. -2 - Code \in Nat
    BY <1>1, <1>2, <1>3, HandlerSignal, LengthFacts
  <2> QED BY <1>1, <1>2, <1>3, <2>1, HandlerSignal
<1> HIDE DEF n
<1>6. /\ put = SendInto(box, Words(signal + 1, n), UserWords, 1)
      /\ Sent(0, sent, c, vB, position, box', UserWords, vK[signal])
      /\ box' \in Rings(UserWords)
      /\ read_free' \in Nat /\ read_free' \in 0 .. UserWords /\ read_free' < UserWords
      /\ read_free' >= read_free
      /\ box'.free + read_free' = UserWords
      /\ read_free' = siglen + Behind(position, box'.write, UserWords)
  BY <1>1, <1>2, <1>3, HandlerPuts DEF n
<1> HIDE DEF put
<1>7. /\ Pending(c, vK) \in Nat /\ n <= Pending(c, vK)
  <2>1. Types /\ sent \in Signals /\ Len(sent) \in Nat /\ Sums(sent, c)
    BY <1>1, <1>3, TypeFacts DEF RingsHold
  <2> DEFINE id == vK[signal]
             top == Len(sent) + 1
  <2>2. id \in 1 .. top /\ id + 1 \in 1 .. top /\ top \in 1 .. top /\ id + 1 <= top
    BY <1>5, <2>1
  <2>3. /\ c[id + 1] = c[id] + sent[id] /\ c[id] \in Nat /\ c[top] \in Nat /\ c[id + 1] \in Nat
        /\ c[id + 1] <= c[top]
    BY <1>5, <2>1, <2>2 DEF Sums
  <2>4. Pending(c, vK) = c[top] - c[id]
    BY <1>4 DEF Pending
  <2> HIDE DEF id, top
  <2>5. n = sent[id]
    BY <1>5 DEF id
  <2> QED BY <1>5, <2>3, <2>4, <2>5
<1>8. ~Fit(Pending(c, vK))
  <2>1. \A p \in Nat : n <= p => ~Fit(p)
    <3>1. TAKE p \in Nat
    <3>2. HAVE n <= p
    <3> QED BY <1>1, <1>2, <1>5, <1>6, <3>2, FitPut
  <2> QED BY <1>7, <2>1
<1>9. vK[R] = Len(sent) /\ msgbox.mem[R] < SystemSignal /\ signaldw = 0
  BY <1>2, <1>3, <1>8 DEF CalmHolds, Single
<1>10. read_free > 0 /\ ~(status /\ oldLlv = "sleep")
  <2>1. read_free # 0
    BY <1>1, <1>3, <1>8, EmptyFits
  <2>2. read_free \in Nat
    BY <1>1, TypeFacts
  <2> QED BY <1>3, <1>8, <2>1, <2>2 DEF CalmHolds
<1>11. signal = read_ptr
  <2>1. /\ signal \in 0 .. KernelWords - 1 /\ read_ptr \in 0 .. KernelWords - 1
        /\ msgbox.write \in 0 .. KernelWords - 1 /\ KernelWords \in Nat /\ msgbox.free \in Int
    BY <1>1, TypeFacts, LengthFacts
  <2>2. msgbox.free + 0 = KernelWords - 1 - Behind(read_ptr, msgbox.write, KernelWords)
    BY <1>1, <1>4 DEF Counts, CountsAreExact
  <2>3. Behind(read_ptr, msgbox.write, KernelWords) \in Int
    BY <2>1 DEF Behind
  <2>4. \A a, b \in Int : msgbox.free = KernelWords - 1 - 0 - a /\ msgbox.free + 0 = KernelWords - 1 - b => a = b
    BY <2>1
  <2>5. Behind(signal, msgbox.write, KernelWords) = Behind(read_ptr, msgbox.write, KernelWords)
    BY <1>4, <1>9, <2>2, <2>3, <2>4
  <2> QED BY <2>1, <2>5, SameBehind
<1>12. R' = signal
  BY <1>2, <1>11 DEF R
<1>13. PICK vB2 \in Numbers(UserWords) :
        /\ Filled(0, sent, c, box'.mem, vB2, position, box'.write, UserWords)
        /\ box'.mem[box'.write] = Eos
        /\ vB2[position] = vB[position]
        /\ vB2[box'.write] = vK[signal]
  BY <1>6 DEF Sent
<1>14. RingsHold(c, vK, vB2)'
  BY <1>2, <1>3, <1>4, <1>12, <1>13 DEF RingsHold, Numbers
<1>15. CalmHolds(c, vK)'
  <2>1. Single(vK)'
    BY <1>2, <1>4, <1>9, <1>12 DEF Single
  <2> QED BY <1>2, <1>10, <2>1 DEF CalmHolds
<1>16. call'.op = "ret" /\ call'.words = 0 /\ call'.llv = "keep" /\ call'.al = 255
  BY <1>2, <1>9 DEF Softint1Ret
<1>17. Types'
  BY <1>1, <1>2, <1>6, <1>16 DEF Types, TypeOK
<1>18. Counts'
  BY <1>1, <1>2, <1>4, <1>6, <1>16 DEF Counts, CountsAreExact
<1>19. Control'
  <2>1. read_free' > 0 /\ frame # "sleep"
    <3>1. read_free' > 0
      BY <1>1, <1>6, <1>10, TypeFacts
    <3> QED BY <1>1, <1>10, <3>1 DEF Control
  <2> QED BY <1>1, <1>2, <1>10, <1>16, <2>1 DEF Control
<1> QED BY <1>14, <1>15, <1>17, <1>18, <1>19 DEF Held

-----------------------------------------------------------------------------
(* The invariant of calm senders, and what follows from it.                *)

(* A calm sender keeps the invariant.                                      *)
LEMMA SendingStep ==
  ASSUME Inv, Calm, NEW words, NEW accepted, IsMessage(words, accepted),
         Send(words, accepted) \/ SendWithWait(words, accepted)
  PROVE  Types' /\ Counts' /\ Control' /\ Held'
<1>1. Known /\ Held
  BY DEF Inv
<1>2. Sends(words, accepted)
  BY <1>1, SendStep
<1>3. PICK c, vK, vB : RingsHold(c, vK, vB) /\ CalmHolds(c, vK)
  BY <1>1 DEF Held
<1>4. msgbox'.mem \in Memories(KernelWords) /\ Held'
  BY <1>1, <1>2, <1>3, SendHeld
<1>5. Types' /\ Counts'
  BY <1>1, <1>2, <1>4, SendTypes
<1>6. Control'
  BY <1>1, <1>2, SendControl
<1> QED BY <1>4, <1>5, <1>6

(* What is sent is a message.                                              *)
LEMMA MessagesSent ==
  ASSUME SignalMessage \/ SignalMessage2
  PROVE  \E words, accepted : /\ IsMessage(words, accepted)
                              /\ Send(words, accepted) \/ SendWithWait(words, accepted)
<1>1. CASE \E n \in Lengths : Send(UserMessage(n), <<n>>)
  <2>1. PICK n \in Lengths : Send(UserMessage(n), <<n>>)
    BY <1>1
  <2>2. IsMessage(UserMessage(n), <<n>>)
    BY DEF IsMessage
  <2> QED BY <2>1, <2>2
<1>2. CASE Send(SystemMessage, <<>>)
  <2>1. IsMessage(SystemMessage, <<>>)
    BY DEF IsMessage
  <2> QED BY <1>2, <2>1
<1>3. CASE \E n \in Lengths : SendWithWait(UserMessage(n), <<n>>)
  <2>1. PICK n \in Lengths : SendWithWait(UserMessage(n), <<n>>)
    BY <1>3
  <2>2. IsMessage(UserMessage(n), <<n>>)
    BY DEF IsMessage
  <2> QED BY <2>1, <2>2
<1> QED BY <1>1, <1>2, <1>3 DEF SignalMessage, SignalMessage2

(* A new ring is empty.                                                    *)
LEMMA NewRingFacts ==
  ASSUME NEW size \in Nat, size > 0, NEW f \in 0 .. size
  PROVE  LET ring == NewRing(size, f) IN
         /\ ring \in Rings(size) /\ ring.mem \in Memories(size) /\ ring.write = 0 /\ ring.free = f
         /\ ring.mem[0] = Eos
<1> DEFINE mem == [i \in 0 .. size |-> Eos]
<1>1. mem \in Memories(size) /\ mem[0] = Eos
  BY DEF Memories, Eos
<1>2. NewRing(size, f) = [mem |-> mem, write |-> 0, free |-> f]
  BY DEF NewRing
<1>3. 0 \in 0 .. size - 1
  OBVIOUS
<1> HIDE DEF mem
<1> QED BY <1>1, <1>2, <1>3 DEF Rings, Memories

(* At the beginning both boxes are empty.                                  *)
LEMMA InitInv == Init => Inv
<1> SUFFICES ASSUME Init PROVE Inv
  OBVIOUS
<1>1. IInv
  BY InitIInv
<1>2. /\ KernelWords \in Nat /\ UserWords \in Nat /\ KernelWords > 4 /\ UserWords > 2
  BY LengthFacts
<1>3. /\ msgbox \in Rings(KernelWords) /\ msgbox.mem \in Memories(KernelWords)
      /\ msgbox.write = 0 /\ msgbox.free = KernelWords - 1 /\ msgbox.mem[0] = Eos
  <2>1. KernelWords - 1 \in 0 .. KernelWords
    BY <1>2
  <2> QED BY <1>2, <2>1, NewRingFacts DEF Init
<1>4. /\ box \in Rings(UserWords) /\ box.mem \in Memories(UserWords)
      /\ box.write = 0 /\ box.free = UserWords /\ box.mem[0] = Eos
  <2>1. UserWords \in 0 .. UserWords
    BY <1>2
  <2> QED BY <1>2, <2>1, NewRingFacts DEF Init
<1>5. call.op = "none" /\ call.llv = "keep" /\ call.words = 0
  BY DEF Init, NoCall
<1>6. Len(sent) = 0 /\ Len(received) = 0 /\ sent = <<>> /\ received = <<>>
  BY DEF Init
<1>7. sent \in Seq(Lengths) /\ received \in Seq(Nat) /\ received = [i \in 1 .. Len(received) |-> i]
  BY <1>6
<1>8. Types
  <2>1. 0 \in 0 .. KernelWords - 1 /\ 0 \in 0 .. UserWords - 1 /\ 0 \in 0 .. UserWords /\ 0 \in 0 .. 255
        /\ KernelWords - 1 < KernelWords
    BY <1>2
  <2>2. /\ status = FALSE /\ nest = 0 /\ level = "run" /\ oldLlv = "run" /\ request = FALSE /\ iret = FALSE
        /\ frame = "none" /\ handler = "out" /\ read_ptr = 0 /\ signal = 0 /\ signaldw = 0
        /\ read_free = 0 /\ boxfull = FALSE /\ phase = "user" /\ opt = FALSE /\ position = 0 /\ siglen = 0
    BY DEF Init
  <2>3. TypeOK
    BY <1>3, <1>4, <1>5, <2>1, <2>2 DEF TypeOK, Levels
  <2>4. boxfull \in BOOLEAN /\ opt \in BOOLEAN /\ signaldw \in Nat /\ call.words \in Nat
    <3>1. boxfull = FALSE /\ opt = FALSE
      BY <2>2
    <3>2. signaldw = 0
      BY <2>2
    <3>3. signaldw \in Nat /\ call.words \in Nat
      BY <1>5, <3>2
    <3> QED BY <3>1, <3>3
  <2> QED BY <1>7, <2>3, <2>4 DEF Types
<1>9. Counts
  <2>1. Behind(0, 0, KernelWords) = 0 /\ Behind(0, 0, UserWords) = 0
    BY <1>2 DEF Behind
  <2> QED BY <1>2, <1>3, <1>4, <1>5, <2>1 DEF Init, Counts, CountsAreExact
<1>10. Control
  BY <1>3, <1>5 DEF Init, Control
<1>11. Held
  <2> DEFINE c  == [k \in 1 .. 1 |-> 0]
             vK == [i \in 0 .. KernelWords |-> 1]
             vB == [i \in 0 .. UserWords |-> 1]
  <2>1. Sums(sent, c)
    BY <1>6 DEF Sums
  <2>2. /\ vK \in [0 .. KernelWords -> Nat] /\ vK[0] = 1
        /\ vB \in [0 .. UserWords -> Nat] /\ vB[0] = 1 /\ c[1] = 0
    BY <1>2
  <2> HIDE DEF c, vK, vB
  <2>3. ASSUME NEW h, NEW mem, NEW v, v[0] = 1
        PROVE  Row(h, sent, c, mem, v, 0, 0)
    BY <1>6, <2>2, <2>3 DEF Row
  <2>4. R = 0
    BY DEF Init, R
  <2>5. RingsHold(c, vK, vB)
    <3>1. /\ Filled(1, sent, c, msgbox.mem, vK, 0, 0, KernelWords)
          /\ Filled(0, sent, c, box.mem, vB, 0, 0, UserWords)
      <4>1. Row(1, sent, c, msgbox.mem, vK, 0, 0) /\ Row(0, sent, c, box.mem, vB, 0, 0)
        BY <2>2, <2>3
      <4>2. 0 <= 0
        OBVIOUS
      <4> QED BY <4>1, <4>2 DEF Filled
    <3>2. position = 0
      BY DEF Init
    <3>3. vK[R] = 1 /\ vB[position] = 1 /\ vK[msgbox.write] = 1 /\ vB[box.write] = 1
      BY <1>3, <1>4, <2>2, <2>4, <3>2
    <3> QED BY <1>3, <1>4, <1>6, <2>1, <2>2, <2>4, <3>1, <3>2, <3>3 DEF RingsHold
  <2>6. Pending(c, vK) = 0
    BY <1>6, <2>2, <2>4 DEF Pending
  <2>7. Fit(0)
    BY <1>2, <1>4 DEF Fit, Init
  <2> QED BY <2>5, <2>6, <2>7 DEF Held, CalmHolds
<1> QED BY <1>1, <1>8, <1>9, <1>10, <1>11 DEF Inv, Known

(* Calm senders take no step that others cannot take.                      *)
LEMMA CalmIsNext == CalmNext => Next
BY DEF CalmNext, Next

(* Every step keeps the invariant.                                         *)
LEMMA StepInv ==
  ASSUME Inv, CalmNext
  PROVE  Inv'
<1>1. IInv'
  BY CalmIsNext, NextIInv DEF Inv, Known
<1>2. Types' /\ Counts' /\ Control' /\ Held'
  <2>1. CASE Calm /\ (SignalMessage \/ SignalMessage2)
    <3>1. PICK words, accepted : /\ IsMessage(words, accepted)
                                 /\ Send(words, accepted) \/ SendWithWait(words, accepted)
      BY <2>1, MessagesSent
    <3> QED BY <2>1, <3>1, SendingStep
  <2>2. CASE AddNestSleep
    BY <2>2, CallStep, AddNestControl
  <2>3. CASE SoftintReturn
    BY <2>3, CallStep, ReturnControl
  <2>4. CASE EnterHandler
    BY <2>4, EnterStep
  <2>5. CASE LeaveHandler
    BY <2>5, LeaveStep
  <2>6. CASE PassOn
    BY <2>6, PassOnStep
  <2>7. CASE BoxFull
    BY <2>7, BoxFullStep
  <2>8. CASE HandleSystemSignal \/ HandleRewind
    BY <2>8, ReadStep
  <2>9. CASE EndOfRun
    BY <2>9, EndStep
  <2>10. CASE Receive \/ SkipToStart
    BY <2>10, ReceiveStep
  <2>11. CASE WaitSignal \/ SleepOrNot \/ MaskAgain \/ EndCommands \/ BackToProgram
    BY <2>11, ProgramStep
  <2>12. CASE GiveWordsBack
    BY <2>12, GiveWordsStep
  <2> QED BY <2>1, <2>2, <2>3, <2>4, <2>5, <2>6, <2>7, <2>8, <2>9, <2>10, <2>11, <2>12 DEF CalmNext
<1> QED BY <1>1, <1>2 DEF Inv, Known

(* So does a step of others.                                               *)
LEMMA StutterInv ==
  ASSUME Inv, UNCHANGED vars
  PROVE  Inv'
<1>1. UNCHANGED <<msgbox, status, nest, level, oldLlv, request, iret, call, frame, handler, read_ptr, signal,
                  signaldw, box, read_free, boxfull, phase, opt, position, siglen, sent, received>>
  BY DEF vars, kernelVars, handlerVars, boxVars, programVars
<1>2. IInv'
  BY NextIInv DEF Inv, Known
<1>3. Types' /\ Counts' /\ Control'
  BY <1>1 DEF Inv, Known, Types, TypeOK, Counts, CountsAreExact, Control
<1>4. Held'
  <2>1. R' = R
    BY <1>1 DEF R
  <2>2. read_free' \in Nat /\ read_free' <= read_free
    BY <1>1, TypeFacts DEF Inv, Known
  <2> QED BY <1>1, <2>1, <2>2, HeldSame DEF Inv
<1> QED BY <1>2, <1>3, <1>4 DEF Inv, Known

(* So it always holds.                                                    *)
LEMMA CalmInv == CalmSpec => []Inv
<1>1. Inv /\ [CalmNext]_vars => Inv'
  BY StepInv, StutterInv
<1> QED BY <1>1, InitInv, PTL DEF CalmSpec

(* With calm senders the state always has the right shape: no reader or    *)
(* writer leaves its box, and no count goes below 0 or above the size of   *)
(* the box.                                                                *)
THEOREM CalmTypes == CalmSpec => []TypeOK
<1>1. Inv => TypeOK
  BY DEF Inv, Known, Types
<1> QED BY <1>1, CalmInv, PTL

(* With calm senders the counts of free words in both boxes stay exact,    *)
(* however the boxes wrap and become full and whatever order handler and   *)
(* program run in.                                                         *)
THEOREM CalmCounts == CalmSpec => []CountsAreExact
<1>1. Inv => CountsAreExact
  BY DEF Inv, Known, Counts
<1> QED BY <1>1, CalmInv, PTL

(* The program is not ahead of the senders.                                *)
LEMMA InOrder ==
  ASSUME Inv
  PROVE  Len(received) \in Nat /\ Len(sent) \in Nat /\ Len(received) <= Len(sent)
<1>1. Known /\ Held /\ Types
  BY DEF Inv, Known
<1>2. PICK c, vK, vB : RingsHold(c, vK, vB)
  BY <1>1 DEF Held
<1>3. /\ position \in 0 .. UserWords - 1 /\ UserWords \in Nat /\ Len(sent) \in Nat /\ Len(received) \in Nat
      /\ box.write \in 0 .. UserWords - 1 /\ box.mem \in Memories(UserWords) /\ sent \in Signals
  BY <1>1, TypeFacts, LengthFacts
<1>4. vB[position] \in 1 .. Len(sent) + 1
  <2>1. /\ vB \in Numbers(UserWords) /\ Sums(sent, c)
        /\ Filled(0, sent, c, box.mem, vB, position, box.write, UserWords)
    BY <1>2 DEF RingsHold, Numbers
  <2> QED BY <1>3, <2>1, FilledPending
<1>5. vB[position] = Len(received) + 1
  BY <1>2 DEF RingsHold
<1> QED BY <1>3, <1>4, <1>5

(* Nothing lies behind a reader that is where the writer is.               *)
LEMMA NothingLeft ==
  ASSUME NEW size \in Nat, NEW a \in 0 .. size - 1, NEW w \in 0 .. size - 1, Behind(a, w, size) = 0
  PROVE  a = w
BY DEF Behind

(* With calm senders no wakeup is lost: a task that sleeps has received    *)
(* every signal that was accepted for it (cmd018, TAPI_AddNestSleep,       *)
(* TAPI_Softint1Ret).                                                      *)
THEOREM CalmSleepers == CalmSpec => []NoLostWakeup
<1>1. ASSUME Inv, level = "sleep"
      PROVE  ~status /\ ~request /\ read_free = 0 /\ Len(received) = Len(sent)
  <2>1. Known /\ Held /\ Types /\ Counts /\ Control
    BY <1>1 DEF Inv, Known
  <2>2. ~status /\ ~request /\ read_free = 0 /\ call.op = "none" /\ handler = "out"
    BY <1>1, <2>1 DEF Control, NoCall
  <2>3. PICK c, vK, vB : RingsHold(c, vK, vB)
    BY <2>1 DEF Held
  <2>4. msgbox.free = KernelWords - 1 /\ R = read_ptr
    BY <2>1, <2>2 DEF Control, R
  <2>5. /\ read_ptr \in 0 .. KernelWords - 1 /\ msgbox.write \in 0 .. KernelWords - 1 /\ KernelWords \in Nat
        /\ position \in 0 .. UserWords - 1 /\ box.write \in 0 .. UserWords - 1 /\ UserWords \in Nat
        /\ siglen \in Nat /\ Len(received) \in Nat /\ Len(sent) \in Nat
    BY <2>1, TypeFacts, LengthFacts
  <2>6. Behind(read_ptr, msgbox.write, KernelWords) = 0
    <3>1. msgbox.free + 0 = KernelWords - 1 - Behind(read_ptr, msgbox.write, KernelWords)
      BY <2>1, <2>2 DEF Counts, CountsAreExact
    <3>2. Behind(read_ptr, msgbox.write, KernelWords) \in Int
      BY <2>5 DEF Behind
    <3> QED BY <2>4, <2>5, <3>1, <3>2
  <2>7. Behind(position, box.write, UserWords) = 0
    <3>1. 0 = siglen + Behind(position, box.write, UserWords)
      BY <2>1, <2>2 DEF Counts, CountsAreExact
    <3>2. Behind(position, box.write, UserWords) \in Nat
      BY <2>5 DEF Behind
    <3> QED BY <2>5, <3>1, <3>2
  <2>8. read_ptr = msgbox.write /\ position = box.write
    BY <2>5, <2>6, <2>7, NothingLeft
  <2>9. Len(sent) + 1 = Len(received) + 1
    BY <2>3, <2>4, <2>8 DEF RingsHold
  <2> QED BY <2>2, <2>5, <2>9
<1>2. Inv => NoLostWakeup
  BY <1>1 DEF NoLostWakeup
<1> QED BY <1>2, CalmInv, PTL

(* With calm senders a program never sleeps while signals are in its box.  *)
THEOREM CalmAwake == CalmSpec => []AwakeWithSignals
<1>1. Inv => AwakeWithSignals
  BY DEF Inv, Known, Control, AwakeWithSignals
<1> QED BY <1>1, CalmInv, PTL

(* With calm senders the program sees no signal twice, although the        *)
(* handler begins anew where its last run began when the box was full.     *)
THEOREM CalmNoneTwice == CalmSpec => []NoneTwice
<1>1. ASSUME Inv PROVE NoneTwice
  <2>1. received = [i \in 1 .. Len(received) |-> i]
    BY <1>1 DEF Inv, Known, Types
  <2>2. \A i \in DOMAIN received : received[i] = i
    <3> DEFINE d == 1 .. Len(received)
    <3> HIDE DEF d
    <3>1. received = [i \in d |-> i]
      BY <2>1 DEF d
    <3> QED BY <3>1
  <2> QED BY <2>2 DEF NoneTwice
<1> QED BY <1>1, CalmInv, PTL

(* A sequence is a function on its indices.                                *)
LEMMA SequenceIsFunction ==
  ASSUME NEW S, NEW q \in Seq(S), NEW k, Len(q) = k
  PROVE  q \in [1 .. k -> S]
OBVIOUS

(* A signal the kernel accepts is accepted by the mailbox; one it does     *)
(* not accept, or that is not for the program, is a stutter there.         *)
LEMMA Accepting ==
  ASSUME Inv, SignalMessage \/ SignalMessage2
  PROVE  [Mail!Next]_(Mail!mailVars)
<1> DEFINE waiting == [i \in 1 .. Len(sent) - Len(received) |-> Len(received) + i]
           d == Len(sent) - Len(received)
<1>1. Len(received) \in Nat /\ Len(sent) \in Nat /\ Len(received) <= Len(sent) /\ sent \in Seq(Lengths)
      /\ MaxSent \in Nat
  BY InOrder, LengthFacts DEF Inv, Known, Types
<1>2. PICK words, accepted : /\ IsMessage(words, accepted)
                             /\ Send(words, accepted) \/ SendWithWait(words, accepted)
  BY MessagesSent
<1>3. Len(sent) < MaxSent /\ received' = received /\ sent' \in {sent, sent \o accepted}
  BY <1>2 DEF SignalMessage, SignalMessage2, Send, SendWithWait
<1>4. CASE sent' = sent
  BY <1>3, <1>4 DEF Mail!mailVars
<1>5. CASE accepted = <<>> /\ sent' = sent \o accepted
  <2>1. sent' = sent
    BY <1>1, <1>5
  <2> QED BY <1>4, <2>1
<1>6. CASE \E n \in Lengths : accepted = <<n>> /\ sent' = sent \o <<n>>
  <2>1. Len(sent') = Len(sent) + 1
    BY <1>1, <1>6
  <2>2. waiting' = [i \in 1 .. d + 1 |-> Len(received) + i]
    BY <1>1, <1>3, <2>1
  <2>3. d \in Nat /\ Len(received) + (d + 1) = Len(sent) + 1
    BY <1>1
  <2>4. waiting' = Append(waiting, Len(sent) + 1)
    <3>1. waiting \in Seq(Nat) /\ Len(waiting) = d
      BY <1>1, <2>3
    <3>2. \A i \in 1 .. d : waiting[i] = Len(received) + i
      OBVIOUS
    <3>3. /\ Append(waiting, Len(sent) + 1) \in [1 .. d + 1 -> Nat]
          /\ \A i \in 1 .. d : Append(waiting, Len(sent) + 1)[i] = waiting[i]
          /\ Append(waiting, Len(sent) + 1)[d + 1] = Len(sent) + 1
      <4> HIDE DEF waiting, d
      <4>1. /\ Append(waiting, Len(sent) + 1) \in Seq(Nat)
            /\ Len(Append(waiting, Len(sent) + 1)) = d + 1
        BY <1>1, <3>1, AppendProperties
      <4>2. Append(waiting, Len(sent) + 1) \in [1 .. d + 1 -> Nat]
        BY <4>1, SequenceIsFunction
      <4>3. Append(waiting, Len(sent) + 1)[Len(waiting) + 1] = Len(sent) + 1
        BY <1>1, <3>1, AppendProperties
      <4>4. \A i \in 1 .. Len(waiting) : Append(waiting, Len(sent) + 1)[i] = waiting[i]
        BY <1>1, <3>1, AppendProperties
      <4> QED BY <3>1, <4>2, <4>3, <4>4
    <3>4. \A i \in 1 .. d + 1 : Append(waiting, Len(sent) + 1)[i] = Len(received) + i
      <4>1. TAKE i \in 1 .. d + 1
      <4>2. i \in 1 .. d \/ i = d + 1
        <5> HIDE DEF d
        <5> QED BY <2>3
      <4> HIDE DEF waiting, d
      <4> QED BY <2>3, <3>2, <3>3, <4>2
    <3> HIDE DEF waiting, d
    <3> QED BY <2>2, <3>3, <3>4
  <2>5. Len(sent) + 1 \in 1 .. MaxSent
    BY <1>1, <1>3
  <2> QED BY <1>3, <2>4, <2>5 DEF Mail!Next, Mail!Accept
<1> QED BY <1>2, <1>3, <1>4, <1>5, <1>6 DEF IsMessage

(* What the program reads is the first signal of the mailbox.              *)
LEMMA Receiving ==
  ASSUME Inv, Receive
  PROVE  [Mail!Next]_(Mail!mailVars)
<1> DEFINE waiting == [i \in 1 .. Len(sent) - Len(received) |-> Len(received) + i]
           d == Len(sent) - Len(received)
           r == Len(received)
<1>1. /\ r \in Nat /\ Len(sent) \in Nat /\ r <= Len(sent)
      /\ received \in Seq(Nat)
  BY InOrder DEF Inv, Known, Types
<1>2. Cell > 0 /\ received' = Append(received, Cell) /\ sent' = sent
  BY DEF Receive
<1>3. Cell = r + 1 /\ Cell <= Len(sent)
  <2>1. PICK c, vK, vB : RingsHold(c, vK, vB)
    BY DEF Inv, Held
  <2>2. Cell = r + 1 /\ Cell \in 1 .. Len(sent)
    BY <1>2, <2>1, NextSignal DEF Inv
  <2> QED BY <2>2
<1>4. Len(received') = r + 1
  BY <1>1, <1>2, <1>3, AppendProperties
<1>5. d \in Nat /\ d >= 1 /\ Len(sent) - (r + 1) = d - 1 /\ d - 1 \in Nat
  <2>1. \A a, b \in Nat : b + 1 <= a => a - b \in Nat /\ a - b >= 1 /\ a - (b + 1) = (a - b) - 1
                                        /\ (a - b) - 1 \in Nat
    OBVIOUS
  <2> QED BY <1>1, <1>3, <2>1
<1>6. waiting' = [i \in 1 .. d - 1 |-> (r + 1) + i]
  BY <1>2, <1>4, <1>5
<1>7. waiting \in Seq(Nat) /\ Len(waiting) = d /\ \A i \in 1 .. d : waiting[i] = r + i
  BY <1>1, <1>5
<1> HIDE DEF waiting, d, r
<1>8. waiting # <<>> /\ Head(waiting) = r + 1
  <2>1. waiting # <<>>
    BY <1>5, <1>7
  <2>2. waiting[1] = r + 1
    BY <1>5, <1>7
  <2> QED BY <1>7, <2>1, <2>2, HeadTailProperties
<1>9. waiting' = Tail(waiting)
  <2>1. /\ Tail(waiting) \in Seq(Nat) /\ Len(Tail(waiting)) = d - 1
        /\ \A i \in 1 .. d - 1 : Tail(waiting)[i] = waiting[i + 1]
    BY <1>7, <1>8, HeadTailProperties
  <2>2. Tail(waiting) \in [1 .. d - 1 -> Nat]
    BY <2>1, SequenceIsFunction
  <2>3. \A i \in 1 .. d - 1 : Tail(waiting)[i] = (r + 1) + i
    <3>1. TAKE i \in 1 .. d - 1
    <3>2. i + 1 \in 1 .. d
      BY <1>5
    <3> QED BY <1>1, <1>7, <2>1, <3>2
  <2> QED BY <1>6, <2>2, <2>3
<1> QED BY <1>2, <1>3, <1>8, <1>9 DEF Mail!Next, Mail!Receive, waiting

(* All other steps are stutters of the mailbox.                            *)
LEMMA Silent ==
  ASSUME UNCHANGED <<sent, received>>
  PROVE  [Mail!Next]_(Mail!mailVars)
BY DEF Mail!mailVars

(* With calm senders the two boxes, the handler between them and the       *)
(* program implement the mailbox: every accepted signal is received once,  *)
(* in order. This is the safety part of ImplementsMailbox; that each is    *)
(* received in the end, under fairness, is checked by TLC only.            *)
THEOREM CalmMailbox == CalmSpec => Mail!Init /\ [][Mail!Next]_(Mail!mailVars)
<1>1. ASSUME Init PROVE Mail!Init
  <2>1. sent = <<>> /\ received = <<>>
    BY <1>1 DEF Init
  <2> QED BY <2>1 DEF Mail!Init
<1>2. ASSUME Inv, [CalmNext]_vars PROVE [Mail!Next]_(Mail!mailVars)
  <2>1. CASE SignalMessage \/ SignalMessage2
    BY <1>2, <2>1, Accepting
  <2>2. CASE Receive
    BY <1>2, <2>2, Receiving
  <2>3. CASE UNCHANGED <<sent, received>>
    BY <2>3, Silent
  <2>4. UNCHANGED vars => UNCHANGED <<sent, received>>
    BY DEF vars
  <2>5. CalmNext => SignalMessage \/ SignalMessage2 \/ Receive \/ UNCHANGED <<sent, received>>
    <3>1. AddNestSleep \/ SoftintReturn \/ EnterHandler \/ LeaveHandler => UNCHANGED <<sent, received>>
      BY DEF AddNestSleep, SoftintReturn, EnterHandler, LeaveHandler
    <3>2. PassOn \/ BoxFull \/ HandleSystemSignal \/ HandleRewind \/ EndOfRun => UNCHANGED <<sent, received>>
      BY DEF PassOn, BoxFull, HandleSystemSignal, HandleRewind, EndOfRun
    <3>3. SkipToStart \/ WaitSignal \/ GiveWordsBack \/ SleepOrNot \/ MaskAgain \/ EndCommands \/ BackToProgram
            => UNCHANGED <<sent, received>>
      BY DEF SkipToStart, WaitSignal, GiveWordsBack, SleepOrNot, MaskAgain, EndCommands, BackToProgram
    <3> QED BY <3>1, <3>2, <3>3 DEF CalmNext
  <2> QED BY <1>2, <2>1, <2>2, <2>3, <2>4, <2>5
<1> QED BY <1>1, <1>2, CalmInv, PTL DEF CalmSpec

=============================================================================
