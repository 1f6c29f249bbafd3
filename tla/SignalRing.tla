----------------------------- MODULE SignalRing -----------------------------
(***************************************************************************)
(* The ring of words in which signals wait.  A task has two of them: the   *)
(* kernel writes all its signals into the box of its TSS, and pioneer0     *)
(* passes those meant for the program on to the box the program defined.   *)
(* Signals have several words and none is split: when one does not fit     *)
(* before the end, a rewind code and the number of words skipped are       *)
(* written instead and writing goes on at the start.  The word behind the  *)
(* last signal holds the end code, and so the end of the area is kept one  *)
(* word away (write_ptr1).                                                 *)
(*                                                                         *)
(* A ring is a record: mem, the words; write, the write position; free,    *)
(* how many words may still be written.                                    *)
(***************************************************************************)
EXTENDS Integers, Sequences

(* The codes a reader can meet where a signal begins.  Words of signals of *)
(* the program are positive (the number of the signal), codes are not.     *)
Eos          == 0         \* signalbox_eos, msgbox_eom_code
Rewind       == -1        \* signalbox_rewind, msgbox_rewind_code
SystemSignal == -2        \* the signals pioneer0 handles itself, 0x40 ..
HeaderCut(n) == -2 - n    \* 0x7f000000 + n: n words for the program follow

Put(mem, at, words) ==
  [i \in DOMAIN mem |-> IF i \in at .. at + Len(words) - 1 THEN words[i - at + 1]
                        ELSE IF i = at + Len(words) THEN Eos
                        ELSE mem[i]]

Failure(box) == [box |-> box, ok |-> FALSE]

(* Mutants: the words skipped stay in the free count; the end of the area  *)
(* is taken to be one word further.                                        *)
BugSkipFree(box, words, size, reserve) ==
  LET n        == Len(words)
      wraps    == box.write + n >= size
      start    == IF wraps THEN 0 ELSE box.write
      mem      == IF wraps THEN [box.mem EXCEPT ![box.write] = Rewind,
                                                ![box.write + 1] = size - box.write]
                  ELSE box.mem
  IN IF box.free - n < reserve
     THEN Failure([mem |-> Put(mem, start, <<>>), write |-> start, free |-> box.free])
     ELSE [box |-> [mem |-> Put(mem, start, words), write |-> start + n, free |-> box.free - n],
           ok |-> TRUE]
BugLimit(box, words, size, reserve) ==
  LET n        == Len(words)
      wraps    == box.write + n > size
      skipped  == IF wraps THEN size - box.write ELSE 0
      start    == IF wraps THEN 0 ELSE box.write
      free     == box.free - skipped
      mem      == IF wraps THEN [box.mem EXCEPT ![box.write] = Rewind] ELSE box.mem
  IN IF wraps /\ free < reserve THEN Failure(box)
     ELSE IF free - n < reserve
     THEN Failure([mem |-> Put(mem, start, <<>>), write |-> start, free |-> free])
     ELSE [box |-> [mem |-> Put(mem, start, words), write |-> start + n, free |-> free - n],
           ok |-> TRUE]

(* sendusersignal: write the words, or fail.  It fails in two places: when *)
(* not even the words to skip are free, and then nothing has changed, and  *)
(* when the signal itself does not fit, and then a rewind stays made.  At  *)
(* least reserve words stay free.                                          *)
SendInto(box, words, size, reserve) ==
  LET n       == Len(words)
      wraps   == box.write + n >= size
      skipped == IF wraps THEN size - box.write ELSE 0
      start   == IF wraps THEN 0 ELSE box.write
      free    == box.free - skipped
      mem     == IF wraps THEN [box.mem EXCEPT ![box.write] = Rewind,
                                               ![box.write + 1] = skipped]
                 ELSE box.mem
  IN IF wraps /\ free < reserve THEN Failure(box)
     ELSE IF free - n < reserve
     THEN Failure([mem |-> Put(mem, start, <<>>), write |-> start, free |-> free])
     ELSE [box |-> [mem |-> Put(mem, start, words), write |-> start + n, free |-> free - n],
           ok |-> TRUE]

(* An empty ring of the given size.                                        *)
NewRing(size, free) == [mem |-> [i \in 0 .. size |-> Eos], write |-> 0, free |-> free]

Rings(size) == [mem : [0 .. size -> Int], write : 0 .. size - 1, free : 0 .. size]

(* How many words a reader at position p has to give back to be at w.      *)
Behind(p, w, size) == IF w >= p THEN w - p ELSE w - p + size

=============================================================================
