-------------------------------- MODULE Dedup --------------------------------
(***************************************************************************)
(* The host's applied-once bookkeeping for reliable events: a bitmap of    *)
(* Window ids whose lowest slot is `base`, here the set of ids whose bit   *)
(* is set.  Every id below `base` counts as applied.                       *)
(***************************************************************************)
EXTENDS Integers, FiniteSets, FiniteSetsExt

CONSTANTS Window,    \* slots of the bitmap (1024 in the code)
          AckWidth   \* ids below the top an acknowledgement speaks about (32)

ASSUME DedupAssumption == Window \in Nat \ {0} /\ AckWidth \in Nat \ {0}

\* An absent Option: no id, no generation, no barrier.
None == -1

EmptyDedup == [base |-> None, applied |-> {}]

\* Defect: only the bitmap is consulted, so an id slid past looks new.
Knows_BitmapOnly(d, id) == d.base # None /\ id \in d.applied

\* Whether the window treats the id as already applied.
Knows(d, id) == d.base # None /\ (id < d.base \/ id \in d.applied)

\* The lowest slot before the id is recorded.  The first id ever seen lands in
\* the newest slot, so ids sent before it may still arrive after it.
Floor(d, id) ==
  IF d.base # None THEN d.base
  ELSE IF id < Window THEN 0 ELSE id - (Window - 1)

\* The lowest slot once the window has slid far enough to hold the id.
Slid(d, id) ==
  IF id - Floor(d, id) >= Window THEN id - (Window - 1) ELSE Floor(d, id)

\* The lowest id from `low` on that is not in `ids`.
Frontier(low, ids) ==
  CHOOSE n \in low..(low + Window) :
    n \notin ids /\ \A i \in low..(n - 1) : i \in ids

\* The window after recording an id: unchanged when the id is known.
Mark(d, id) ==
  IF Knows(d, id) THEN d
  ELSE LET low  == Slid(d, id)
           kept == {i \in d.applied : i >= low} \cup {id}
           base == Frontier(low, kept)
       IN  [base |-> base, applied |-> {i \in kept : i > base}]

\* Defect: without holes, the top is one id too high.
Top_Base(d) == IF d.applied # {} THEN Max(d.applied) ELSE d.base

\* The highest applied id, and whether there is one.
Top(d)    == IF d.applied # {} THEN Max(d.applied) ELSE d.base - 1
HasTop(d) == d.base # None /\ Top(d) >= 0

\* Ids below the oldest bit the window holds are never reported missing.
Oldest(d) == IF d.applied # {} THEN Min(d.applied) ELSE d.base

\* The `missing` bits, as the ids they stand for.
Missing(d) ==
  {id \in (Top(d) - AckWidth)..(Top(d) - 1) : id >= Oldest(d) /\ id \notin d.applied}

Acknowledgement(d) == [top |-> Top(d), missing |-> Missing(d)]

\* What a window is, between calls.
DedupType ==
  {d \in [base : Nat \cup {None}, applied : SUBSET Nat] :
     IF d.base = None THEN d.applied = {}
     ELSE \A i \in d.applied : d.base < i /\ i < d.base + Window}
=============================================================================
