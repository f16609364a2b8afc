------------------------------ MODULE DedupBits ------------------------------
(***************************************************************************)
(* The deduplication window as the host stores it: an array of machine     *)
(* words, slid down in place, beside the set-level window of Dedup that    *)
(* HostState is built on.                                                  *)
(*                                                                         *)
(* A word is the set of its bits that are 1.  `window` is history: what    *)
(* Dedup would hold after the same ids.                                    *)
(***************************************************************************)
EXTENDS Integers

CONSTANTS WordBits,   \* bits of a word (64 in the code)
          Words,      \* words of the bitmap (16)
          AckBits,    \* bits of an acknowledgement (32)
          WordIds     \* ids a message may carry

\* The bitmap is a whole number of words, and an id is unsigned.
ASSUME BitsAssumption ==
  /\ WordBits \in Nat \ {0} /\ Words \in Nat \ {0} /\ AckBits \in Nat \ {0}
  /\ WordIds \subseteq Nat

BitmapBits == WordBits * Words

D == INSTANCE Dedup WITH Window <- BitmapBits, AckWidth <- AckBits

VARIABLES base,     \* lowest id not known to be applied, or None
          bitmap,   \* [0..Words-1 -> SUBSET (0..WordBits-1)]
          fresh,    \* what the last mark returned
          window,   \* history: the window of Dedup
          novel     \* history: whether the last id was new to it

bitsVars == <<base, bitmap, fresh, window, novel>>

Zeros == [w \in 0..(Words - 1) |-> {}]

BitsInit ==
  /\ base = D!None
  /\ bitmap = Zeros
  /\ fresh = FALSE
  /\ window = D!EmptyDedup /\ novel = FALSE

(***************************************************************************)
(* Words.                                                                  *)
(***************************************************************************)
ShiftRight(word, n) == {b - n : b \in {c \in word : c >= n}}
ShiftLeft(word, n)  == {b + n : b \in {c \in word : c + n < WordBits}}

Get(map, offset) == offset % WordBits \in map[offset \div WordBits]
Set(map, offset) == [map EXCEPT ![offset \div WordBits] = @ \cup {offset % WordBits}]

\* Defect: the words are moved from the top down, over words not yet read.
Slide_Descending(map, shift) ==
  LET words == shift \div WordBits
      bits  == shift % WordBits
      moved[n \in 0..Words] ==
        IF n = 0 THEN map
        ELSE LET index  == Words - n
                 source == index + words
                 low    == IF source < Words THEN ShiftRight(moved[n - 1][source], bits) ELSE {}
                 high   == IF bits > 0 /\ source + 1 < Words
                             THEN ShiftLeft(moved[n - 1][source + 1], WordBits - bits) ELSE {}
             IN  [moved[n - 1] EXCEPT ![index] = low \cup high]
  IN  IF shift >= BitmapBits THEN Zeros ELSE moved[Words]

\* Drop the lowest `shift` slots and move the rest down, in place: moved[n] is
\* the array once its first n words have been written.
Slide(map, shift) ==
  LET words == shift \div WordBits
      bits  == shift % WordBits
      moved[n \in 0..Words] ==
        IF n = 0 THEN map
        ELSE LET index  == n - 1
                 source == index + words
                 low    == IF source < Words THEN ShiftRight(moved[n - 1][source], bits) ELSE {}
                 high   == IF bits > 0 /\ source + 1 < Words
                             THEN ShiftLeft(moved[n - 1][source + 1], WordBits - bits) ELSE {}
             IN  [moved[n - 1] EXCEPT ![index] = low \cup high]
  IN  IF shift >= BitmapBits THEN Zeros ELSE moved[Words]

\* The array and base once the lowest slot is clear: one slot per turn, for as
\* long as the lowest slot is set.
Settled(map, low) ==
  LET turn[n \in 0..BitmapBits] ==
        IF n = 0 THEN [map |-> map, base |-> low]
        ELSE IF Get(turn[n - 1].map, 0)
          THEN [map |-> Slide(turn[n - 1].map, 1), base |-> turn[n - 1].base + 1]
          ELSE turn[n - 1]
  IN  turn[BitmapBits]

(***************************************************************************)
(* Marking an id, by what is returned.                                     *)
(***************************************************************************)

Lowest(id) ==
  IF base # D!None THEN base ELSE IF id < BitmapBits THEN 0 ELSE id - (BitmapBits - 1)

\* An id beyond the window first slides it until the id is the newest slot.
Shift(id)  == IF id - Lowest(id) >= BitmapBits THEN id - Lowest(id) - (BitmapBits - 1) ELSE 0
Room(id)   == IF Shift(id) > 0 THEN Slide(bitmap, Shift(id)) ELSE bitmap
Offset(id) == id - Lowest(id) - Shift(id)

MarkBelow(id) ==
  /\ base # D!None /\ id < base
  /\ fresh' = FALSE
  /\ UNCHANGED <<base, bitmap>>

MarkSeen(id) ==
  /\ id >= Lowest(id) /\ Get(Room(id), Offset(id))
  /\ fresh' = FALSE
  /\ bitmap' = Room(id) /\ base' = Lowest(id) + Shift(id)

MarkFresh(id) ==
  /\ id >= Lowest(id) /\ ~Get(Room(id), Offset(id))
  /\ fresh' = TRUE
  /\ LET settled == Settled(Set(Room(id), Offset(id)), Lowest(id) + Shift(id))
     IN  bitmap' = settled.map /\ base' = settled.base

MarkWords(id) ==
  /\ MarkBelow(id) \/ MarkSeen(id) \/ MarkFresh(id)
  /\ window' = D!Mark(window, id) /\ novel' = ~D!Knows(window, id)

BitsNext == \E id \in WordIds : MarkWords(id)

BitsSpec == BitsInit /\ [][BitsNext]_bitsVars

(***************************************************************************)
(* The acknowledgement, read out of the words.                             *)
(***************************************************************************)
SetOffsets == {o \in 0..(BitmapBits - 1) : Get(bitmap, o)}

\* Offset of the newest set bit: the highest word that is not zero, then the
\* highest bit in it; and of the oldest, from the other end.
NewestHeld ==
  LET w == CHOOSE i \in 0..(Words - 1) : bitmap[i] # {} /\ \A j \in (i + 1)..(Words - 1) : bitmap[j] = {}
  IN  w * WordBits + (CHOOSE b \in bitmap[w] : \A c \in bitmap[w] : c =< b)

OldestHeld ==
  LET w == CHOOSE i \in 0..(Words - 1) : bitmap[i] # {} /\ \A j \in 0..(i - 1) : bitmap[j] = {}
  IN  w * WordBits + (CHOOSE b \in bitmap[w] : \A c \in bitmap[w] : b =< c)

AnySet == \E w \in 0..(Words - 1) : bitmap[w] # {}
TopHeld    == IF AnySet THEN base + NewestHeld ELSE base - 1

\* The bits of `missing`: bit b speaks of the id b + 1 below the top.
MissingBits ==
  LET oldest == IF AnySet THEN base + OldestHeld ELSE base
  IN  {b \in 0..(AckBits - 1) :
         LET id == TopHeld - (b + 1)
         IN  id >= 0 /\ id >= oldest /\ ~Get(bitmap, id - base)}
-----------------------------------------------------------------------------
\* The words hold the window of Dedup after any ids in any order: no bit is
\* lost or moved to a wrong slot across a word boundary by the in-place slide,
\* and an id is new to the array exactly when it is new to the window.
WordsHold ==
  /\ base = window.base /\ fresh = novel
  /\ {base + o : o \in SetOffsets} = window.applied
  /\ \A w \in 0..(Words - 1) : bitmap[w] \subseteq 0..(WordBits - 1)

\* The acknowledgement computed bit by bit is the one of Dedup, so what is
\* said and proved of acknowledgements there holds of the words.
AcksAgree ==
  D!HasTop(window) =>
    /\ base # D!None /\ TopHeld = D!Top(window)
    /\ {TopHeld - (b + 1) : b \in MissingBits} = D!Missing(window)

\* The array of words holds exactly the window the host is modelled with, and
\* both give the same acknowledgement.
WordsHoldTheWindow == WordsHold /\ AcksAgree
=============================================================================
