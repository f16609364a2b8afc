----------------------------- MODULE AudioProofs -----------------------------
(***************************************************************************)
(* The audio receiver for any stream, buffer, ring and schedule of its     *)
(* threads: what the jitter buffer holds and counts, and what the ring     *)
(* carries to the device.                                                  *)
(***************************************************************************)
EXTENDS AudioLink, FiniteSetTheorems, SequenceTheorems, WellFoundedInduction, TLAPS

-----------------------------------------------------------------------------
(* Remainders. *)

LEMMA Division ==
  ASSUME NEW n \in Nat \ {0}, NEW a \in Int
  PROVE  a % n \in 0..(n - 1) /\ a = n * (a \div n) + (a % n) /\ (a \div n) \in Int
OBVIOUS

LEMMA Multiple == ASSUME NEW n \in Nat \ {0}, NEW k \in Int PROVE (n * k) % n = 0
OBVIOUS

LEMMA Divides ==
  ASSUME NEW n \in Nat \ {0}, NEW a \in Int, a % n = 0
  PROVE  \E k \in Int : a = n * k
<1>1. a = n * (a \div n) + 0 /\ (a \div n) \in Int  BY Division
<1>2. QED  BY <1>1

\* Two places on a grid are whole steps apart, and so is their distance moved on.
LEMMA GridFacts ==
  ASSUME NEW n \in Nat \ {0}, NEW a \in Int, NEW b \in Int, a % n = 0, b % n = 0
  PROVE  (a - b) % n = 0 /\ (a + b) % n = 0 /\ (a + n) % n = 0 /\ (a - n) % n = 0
<1>1. PICK k \in Int : a = n * k  BY Divides
<1>2. PICK l \in Int : b = n * l  BY Divides
<1>3. a - b = n * (k - l) /\ a + b = n * (k + l)  BY <1>1, <1>2
<1>4. a + n = n * (k + 1) /\ a - n = n * (k - 1)  BY <1>1
<1>5. k - l \in Int /\ k + l \in Int /\ k + 1 \in Int /\ k - 1 \in Int  OBVIOUS
<1>6. /\ (n * (k - l)) % n = 0 /\ (n * (k + l)) % n = 0
      /\ (n * (k + 1)) % n = 0 /\ (n * (k - 1)) % n = 0
  BY <1>5, Multiple
<1>7. QED  BY <1>3, <1>4, <1>6, Zenon

LEMMA StepAway ==
  ASSUME NEW n \in Nat \ {0}, NEW a \in Int, a % n = 0, a > 0
  PROVE  a >= n
<1>1. PICK k \in Int : a = n * k  BY Divides
<1>2. k >= 1  BY <1>1
<1>3. QED  BY <1>1, <1>2

\* Positions less than n apart have cells of their own.
LEMMA CellsApart ==
  ASSUME NEW n \in Nat \ {0}, NEW a \in Nat, NEW b \in Nat, a < b, b - a < n
  PROVE  a % n # b % n
<1> SUFFICES ASSUME a % n = b % n PROVE FALSE
  OBVIOUS
<1> DEFINE k == b \div n
           l == a \div n
<1>1. k \in Int /\ l \in Int /\ b = n * k + (b % n) /\ a = n * l + (a % n)  BY Division
<1>2. a % n \in Int /\ b % n \in Int  BY Division
<1> HIDE DEF k, l
<1>3. b - a = n * (k - l)  BY <1>1, <1>2
<1>4. k - l >= 1 \/ k - l <= 0  BY <1>1
<1>5. CASE k - l >= 1
  <2>1. n * (k - l) >= n  BY <1>1, <1>5
  <2>2. QED  BY <1>3, <2>1
<1>6. CASE k - l <= 0
  <2>1. n * (k - l) <= 0  BY <1>1, <1>6
  <2>2. QED  BY <1>3, <2>1
<1>7. QED  BY <1>4, <1>5, <1>6

-----------------------------------------------------------------------------
(* Finite sets of positions. *)

LEMMA Smallest ==
  ASSUME NEW S \in SUBSET Nat, S # {}
  PROVE  \E m \in S : \A s \in S : m <= s
<1>1. PICK m \in S : \A s \in S : ~ (<<s, m>> \in OpToRel(<, Nat))
  BY WFMin, NatLessThanWellFounded
<1>2. \A s \in S : s \in Nat /\ m \in Nat /\ <<s, m>> \in Nat \X Nat  OBVIOUS
<1>3. \A s \in S : ~ (s < m)  BY <1>1, <1>2 DEF OpToRel
<1>4. QED  BY <1>2, <1>3

Above(S, t) == {s \in S : s > t}

\* The one with the fewest above it is the greatest.
LEMMA Greatest ==
  ASSUME NEW S \in SUBSET Nat, IsFiniteSet(S), S # {}
  PROVE  \E m \in S : \A s \in S : s <= m
<1> DEFINE counted == {Cardinality(Above(S, t)) : t \in S}
<1>1. \A t \in S : Above(S, t) \in SUBSET S /\ IsFiniteSet(Above(S, t)) /\ Cardinality(Above(S, t)) \in Nat
  BY FS_Subset, FS_CardinalityType DEF Above
<1>2. counted \in SUBSET Nat /\ counted # {}  BY <1>1
<1>3. PICK c \in counted : \A d \in counted : c <= d  BY <1>2, Smallest
<1>4. PICK m \in S : \A t \in S : Cardinality(Above(S, m)) <= Cardinality(Above(S, t))
  BY <1>3
<1>5. ASSUME NEW s \in S, s > m PROVE FALSE
  <2>1. Above(S, s) \in SUBSET Above(S, m) /\ s \in Above(S, m) /\ s \notin Above(S, s)
    <3>1. \A x \in S : x \in Nat  OBVIOUS
    <3>2. \A x \in Above(S, s) : x \in Above(S, m)  BY <1>5, <3>1 DEF Above
    <3>3. s \in Above(S, m) /\ s \notin Above(S, s)  BY <1>5, <3>1 DEF Above
    <3>4. QED  BY <3>2, <3>3, Zenon
  <2>2. Above(S, s) # Above(S, m)  BY <2>1
  <2>3. /\ Cardinality(Above(S, s)) <= Cardinality(Above(S, m))
        /\ Cardinality(Above(S, m)) = Cardinality(Above(S, s)) => Above(S, m) = Above(S, s)
    BY <1>1, <2>1, FS_Subset
  <2>4. Cardinality(Above(S, s)) \in Nat /\ Cardinality(Above(S, m)) \in Nat  BY <1>1
  <2>5. QED  BY <1>4, <2>2, <2>3, <2>4
<1>6. QED  BY <1>5

\* The newest are at most the target, newer than all the others, and leave
\* some when there are more than the target.
LEMMA NewestFacts ==
  ASSUME NEW frames \in SUBSET Nat, IsFiniteSet(frames)
  PROVE  /\ NewestOf(frames) \subseteq frames /\ IsFiniteSet(NewestOf(frames))
         /\ Cardinality(NewestOf(frames)) \in 0..TargetFrames
         /\ \A k \in NewestOf(frames), s \in frames \ NewestOf(frames) : s < k
<1> DEFINE kept == NewestOf(frames)
<1>1. kept = {t \in frames : Cardinality(Above(frames, t)) < TargetFrames}
  BY DEF NewestOf, Above
<1>2. kept \in SUBSET frames /\ IsFiniteSet(kept) /\ Cardinality(kept) \in Nat
  BY <1>1, FS_Subset, FS_CardinalityType
<1>3. \A t \in frames : /\ Above(frames, t) \in SUBSET frames /\ IsFiniteSet(Above(frames, t))
                        /\ Cardinality(Above(frames, t)) \in Nat
  BY FS_Subset, FS_CardinalityType DEF Above
<1>4. ASSUME NEW k \in kept, NEW s \in frames \ kept PROVE s < k
  <2>0. s \in Nat /\ k \in Nat /\ \A x \in frames : x \in Nat  BY <1>2
  <2>1. SUFFICES ASSUME s >= k PROVE FALSE
    BY <2>0
  <2>2. Above(frames, s) \in SUBSET Above(frames, k)
    <3>1. \A x \in Above(frames, s) : x \in Above(frames, k)  BY <2>0, <2>1 DEF Above
    <3>2. QED  BY <3>1, Zenon
  <2>3. Cardinality(Above(frames, s)) <= Cardinality(Above(frames, k))
    BY <1>1, <1>3, <2>2, FS_Subset
  <2>4. /\ Cardinality(Above(frames, s)) \in Nat /\ Cardinality(Above(frames, k)) \in Nat
        /\ Cardinality(Above(frames, k)) < TargetFrames /\ ~(Cardinality(Above(frames, s)) < TargetFrames)
    BY <1>1, <1>2, <1>3
  <2>5. QED  BY <2>3, <2>4, JitterAssumption
<1>5. Cardinality(kept) <= TargetFrames
  <2>1. CASE kept = {}  BY <2>1, FS_EmptySet, JitterAssumption
  <2>2. CASE kept # {}
    <3>1. PICK m \in kept : \A t \in kept : m <= t  BY <1>2, <2>2, Smallest
    <3>2. kept \ {m} \in SUBSET Above(frames, m)
      <4>1. \A x \in kept : x \in frames /\ x \in Nat  BY <1>2
      <4>2. \A x \in kept \ {m} : x \in Above(frames, m)  BY <3>1, <4>1 DEF Above
      <4>3. QED  BY <4>2, Zenon
    <3>3. Cardinality(kept \ {m}) <= Cardinality(Above(frames, m))
      BY <1>1, <1>3, <3>2, FS_Subset
    <3>4. Cardinality(kept \ {m}) = Cardinality(kept) - 1  BY <1>2, <3>1, FS_RemoveElement
    <3>5. Cardinality(Above(frames, m)) < TargetFrames /\ Cardinality(Above(frames, m)) \in Nat
      BY <1>1, <1>3
    <3> HIDE DEF kept
    <3>6. QED  BY <1>2, <3>3, <3>4, <3>5, JitterAssumption
  <2>3. QED  BY <2>1, <2>2
<1>6. QED  BY <1>2, <1>4, <1>5, JitterAssumption

-----------------------------------------------------------------------------
(* The jitter buffer. *)

\* Every frame of a set is at or past a position, on its grid.
Ahead(frames, from) == \A t \in frames : t >= from /\ (t - from) % FrameSamples = 0

\* Where the position is, of a buffer that has been anchored and of one not yet.
Placed ==
  /\ anchor # NotYet => cursor >= anchor /\ (cursor - anchor) % FrameSamples = 0
  /\ anchor = NotYet => queue = {} /\ counts.expected = 0 /\ cursor = 0

BufferInv == BufferTypeOK /\ HeldIsAhead /\ PositionIsAccounted /\ Placed

\* Moving the position one frame on leaves no frame but its own behind.
LEMMA MovedOn ==
  ASSUME NEW frames \in SUBSET Nat, NEW from \in Nat, Ahead(frames, from), from \notin frames
  PROVE  Ahead(frames, from + FrameSamples)
<1> SUFFICES ASSUME NEW t \in frames
             PROVE  t >= from + FrameSamples /\ (t - (from + FrameSamples)) % FrameSamples = 0
  BY DEF Ahead
<1>1. t \in Nat /\ t - from > 0 /\ (t - from) % FrameSamples = 0  BY DEF Ahead
<1>2. t - from >= FrameSamples  BY <1>1, StepAway, JitterAssumption
<1>3. ((t - from) - FrameSamples) % FrameSamples = 0
  <2>1. t - from \in Int /\ FrameSamples \in Nat \ {0}  BY <1>1, JitterAssumption
  <2>2. QED  BY <1>1, <2>1, GridFacts
<1>4. t - (from + FrameSamples) = (t - from) - FrameSamples  BY <1>1, JitterAssumption
<1>5. QED  BY <1>1, <1>2, <1>3, <1>4, JitterAssumption

\* What the ceiling leaves: no more than the ceiling, ahead of the position it
\* leaves, which is as far on as it says.
LEMMA CeilingFacts ==
  ASSUME NEW frames \in SUBSET Nat, IsFiniteSet(frames), NEW from \in Nat, Ahead(frames, from)
  PROVE  LET held == HoldCeiling(frames, from) IN
         /\ held.queue \in SUBSET Nat /\ IsFiniteSet(held.queue)
         /\ Cardinality(held.queue) <= CeilingFrames
         /\ held.cursor \in Nat /\ held.cursor >= from
         /\ (held.cursor - from) % FrameSamples = 0
         /\ Ahead(held.queue, held.cursor)
         /\ held.travelled = held.cursor - from
         /\ held.skipped \in Nat
         /\ held.skipped + Cardinality(held.queue) = Cardinality(frames)
<1> DEFINE kept == NewestOf(frames)
           given == frames \ kept
           last == CHOOSE t \in given : \A s \in given : s =< t
<1>1. Cardinality(frames) \in Nat  BY FS_CardinalityType
<1>2. CASE Cardinality(frames) =< CeilingFrames
  <2>1. HoldCeiling(frames, from) = [queue |-> frames, cursor |-> from, skipped |-> 0, travelled |-> 0]
    BY <1>2 DEF HoldCeiling
  <2>2. (from - from) % FrameSamples = 0
    <3>1. from - from = FrameSamples * 0  BY JitterAssumption
    <3>2. QED  BY <3>1, Multiple, JitterAssumption
  <2>3. QED  BY <1>1, <1>2, <2>1, <2>2
<1>3. CASE ~(Cardinality(frames) =< CeilingFrames)
  <2>1. HoldCeiling(frames, from) =
          [queue |-> kept, cursor |-> last + FrameSamples, skipped |-> Cardinality(given),
           travelled |-> last + FrameSamples - from]
    BY <1>3 DEF HoldCeiling
  <2>2. /\ kept \in SUBSET frames /\ IsFiniteSet(kept) /\ Cardinality(kept) \in 0..TargetFrames
        /\ \A k \in kept, s \in given : s < k
    BY NewestFacts
  <2>3. IsFiniteSet(given) /\ given \in SUBSET frames  BY FS_Difference
  <2>4. Cardinality(given) = Cardinality(frames) - Cardinality(kept)
    <3>1. frames \cap kept = kept  BY <2>2
    <3>2. Cardinality(given) = Cardinality(frames) - Cardinality(frames \cap kept)
      BY FS_Difference
    <3>3. QED  BY <3>1, <3>2
  <2> HIDE DEF kept
  <2>5. given # {}
    <3>1. Cardinality(given) > 0  BY <1>1, <1>3, <2>2, <2>4, JitterAssumption
    <3>2. QED  BY <3>1, FS_EmptySet
  <2>6. last \in given /\ \A s \in given : s =< last
    <3>1. \E m \in given : \A s \in given : s <= m  BY <2>3, <2>5, Greatest
    <3>2. QED  BY <3>1
  <2> HIDE DEF last, given
  <2>7. last \in Nat /\ last >= from /\ (last - from) % FrameSamples = 0
    BY <2>3, <2>6 DEF Ahead
  <2>8. (last + FrameSamples - from) % FrameSamples = 0
    <3>0. last - from \in Int /\ FrameSamples \in Nat \ {0}  BY <2>7, JitterAssumption
    <3>1. ((last - from) + FrameSamples) % FrameSamples = 0  BY <2>7, <3>0, GridFacts
    <3>2. last + FrameSamples - from = (last - from) + FrameSamples  BY <2>7, JitterAssumption
    <3>3. QED  BY <3>1, <3>2
  <2>9. Ahead(kept, last)
    <3> SUFFICES ASSUME NEW t \in kept PROVE t >= last /\ (t - last) % FrameSamples = 0
      BY DEF Ahead
    <3>1. t \in Nat /\ last < t /\ (t - from) % FrameSamples = 0  BY <2>2, <2>6 DEF Ahead
    <3>2. ((t - from) - (last - from)) % FrameSamples = 0
      <4>1. t - from \in Int /\ last - from \in Int /\ FrameSamples \in Nat \ {0}
        BY <2>7, <3>1, JitterAssumption
      <4>2. QED  BY <2>7, <3>1, <4>1, GridFacts
    <3>3. (t - from) - (last - from) = t - last  BY <2>7, <3>1
    <3>4. QED  BY <2>7, <3>1, <3>2, <3>3
  <2>10. Ahead(kept, last + FrameSamples)
    <3>1. last \notin kept  BY <2>2, <2>6, <2>7
    <3>2. kept \in SUBSET Nat  BY <2>2
    <3>3. QED  BY <2>7, <2>9, <3>1, <3>2, MovedOn
  <2>11. Cardinality(kept) <= CeilingFrames /\ Cardinality(kept) \in Nat
    BY <2>2, JitterAssumption
  <2>12. Cardinality(given) \in Nat  BY <2>3, FS_CardinalityType
  <2>13. last + FrameSamples \in Nat /\ last + FrameSamples >= from  BY <2>7, JitterAssumption
  <2>14. Cardinality(given) + Cardinality(kept) = Cardinality(frames)
    BY <1>1, <2>4, <2>11
  <2>15. kept \in SUBSET Nat /\ IsFiniteSet(kept)  BY <2>2
  <2> DEFINE held == HoldCeiling(frames, from)
  <2>16. /\ held.queue = kept /\ held.cursor = last + FrameSamples
         /\ held.skipped = Cardinality(given) /\ held.travelled = last + FrameSamples - from
    BY <2>1
  <2> HIDE DEF held
  <2>17. /\ held.queue \in SUBSET Nat /\ IsFiniteSet(held.queue)
         /\ Cardinality(held.queue) <= CeilingFrames
         /\ Ahead(held.queue, held.cursor)
    BY <2>10, <2>11, <2>15, <2>16
  <2>18. /\ held.cursor \in Nat /\ held.cursor >= from
         /\ (held.cursor - from) % FrameSamples = 0
         /\ held.travelled = held.cursor - from
    <3>1. held.cursor - from = last + FrameSamples - from
      BY <2>7, <2>13, <2>16, JitterAssumption
    <3>2. QED  BY <2>8, <2>13, <2>16, <3>1
  <2>19. held.skipped \in Nat /\ held.skipped + Cardinality(held.queue) = Cardinality(frames)
    BY <2>12, <2>14, <2>16
  <2>20. QED  BY <2>17, <2>18, <2>19 DEF held
<1>4. QED  BY <1>2, <1>3

\* Counts that are put up stay counts, and only the distance is the distance.
LEMMA TurnedAway ==
  ASSUME counts \in CountsType, NEW a \in Nat, NEW to,
         \/ to = [counts EXCEPT !.received = @ + 1, !.duplicate = @ + 1]
         \/ to = [counts EXCEPT !.received = @ + 1, !.offGrid = @ + 1]
         \/ to = [counts EXCEPT !.received = @ + 1, !.reordered = @ + a, !.late = @ + 1]
  PROVE  to \in CountsType /\ to.expected = counts.expected
<1> DEFINE k == counts
<1>1. CASE to = [counts EXCEPT !.received = @ + 1, !.duplicate = @ + 1]
  <2>1. to = [received |-> k.received + 1, late |-> k.late,
             duplicate |-> k.duplicate + 1, reordered |-> k.reordered,
             offGrid |-> k.offGrid, played |-> k.played, concealed |-> k.concealed,
             underruns |-> k.underruns, overruns |-> k.overruns,
             skipped |-> k.skipped, expected |-> k.expected,
             playedSamples |-> k.playedSamples]
    BY <1>1 DEF CountsType
  <2>2. k.received + 1 \in Nat /\ k.duplicate + 1 \in Nat
    BY DEF CountsType
  <2>3. to \in CountsType  BY <2>1, <2>2 DEF CountsType
  <2>4. to.expected = counts.expected  BY <2>1
  <2>5. QED  BY <2>3, <2>4
<1>2. CASE to = [counts EXCEPT !.received = @ + 1, !.offGrid = @ + 1]
  <2>1. to = [received |-> k.received + 1, late |-> k.late,
             duplicate |-> k.duplicate, reordered |-> k.reordered,
             offGrid |-> k.offGrid + 1, played |-> k.played,
             concealed |-> k.concealed, underruns |-> k.underruns,
             overruns |-> k.overruns, skipped |-> k.skipped,
             expected |-> k.expected, playedSamples |-> k.playedSamples]
    BY <1>2 DEF CountsType
  <2>2. k.received + 1 \in Nat /\ k.offGrid + 1 \in Nat
    BY DEF CountsType
  <2>3. to \in CountsType  BY <2>1, <2>2 DEF CountsType
  <2>4. to.expected = counts.expected  BY <2>1
  <2>5. QED  BY <2>3, <2>4
<1>3. CASE to = [counts EXCEPT !.received = @ + 1, !.reordered = @ + a, !.late = @ + 1]
  <2>1. to = [received |-> k.received + 1, late |-> k.late + 1,
             duplicate |-> k.duplicate, reordered |-> k.reordered + a,
             offGrid |-> k.offGrid, played |-> k.played, concealed |-> k.concealed,
             underruns |-> k.underruns, overruns |-> k.overruns,
             skipped |-> k.skipped, expected |-> k.expected,
             playedSamples |-> k.playedSamples]
    BY <1>3 DEF CountsType
  <2>2. k.received + 1 \in Nat /\ k.reordered + a \in Nat /\ k.late + 1 \in Nat
    BY DEF CountsType
  <2>3. to \in CountsType  BY <2>1, <2>2 DEF CountsType
  <2>4. to.expected = counts.expected  BY <2>1
  <2>5. QED  BY <2>3, <2>4
<1>4. QED  BY <1>1, <1>2, <1>3

LEMMA TakenOut ==
  ASSUME counts \in CountsType, NEW d \in Nat, NEW to,
         \/ to = [counts EXCEPT !.played = @ + 1, !.playedSamples = @ + d, !.expected = @ + d]
         \/ to = [counts EXCEPT !.concealed = @ + 1, !.playedSamples = @ + d, !.expected = @ + d]
         \/ to = [counts EXCEPT !.concealed = @ + 1, !.underruns = @ + 1, !.expected = @ + d]
  PROVE  to \in CountsType /\ to.expected = counts.expected + d
<1> DEFINE k == counts
<1>1. CASE to = [counts EXCEPT !.played = @ + 1, !.playedSamples = @ + d, !.expected = @ + d]
  <2>1. to = [received |-> k.received, late |-> k.late, duplicate |-> k.duplicate,
             reordered |-> k.reordered, offGrid |-> k.offGrid,
             played |-> k.played + 1, concealed |-> k.concealed,
             underruns |-> k.underruns, overruns |-> k.overruns,
             skipped |-> k.skipped, expected |-> k.expected + d,
             playedSamples |-> k.playedSamples + d]
    BY <1>1 DEF CountsType
  <2>2. k.played + 1 \in Nat /\ k.playedSamples + d \in Nat /\ k.expected + d \in Nat
    BY DEF CountsType
  <2>3. to \in CountsType  BY <2>1, <2>2 DEF CountsType
  <2>4. to.expected = counts.expected + d  BY <2>1
  <2>5. QED  BY <2>3, <2>4
<1>2. CASE to = [counts EXCEPT !.concealed = @ + 1, !.playedSamples = @ + d, !.expected = @ + d]
  <2>1. to = [received |-> k.received, late |-> k.late, duplicate |-> k.duplicate,
             reordered |-> k.reordered, offGrid |-> k.offGrid, played |-> k.played,
             concealed |-> k.concealed + 1, underruns |-> k.underruns,
             overruns |-> k.overruns, skipped |-> k.skipped,
             expected |-> k.expected + d, playedSamples |-> k.playedSamples + d]
    BY <1>2 DEF CountsType
  <2>2. k.concealed + 1 \in Nat /\ k.playedSamples + d \in Nat /\ k.expected + d \in Nat
    BY DEF CountsType
  <2>3. to \in CountsType  BY <2>1, <2>2 DEF CountsType
  <2>4. to.expected = counts.expected + d  BY <2>1
  <2>5. QED  BY <2>3, <2>4
<1>3. CASE to = [counts EXCEPT !.concealed = @ + 1, !.underruns = @ + 1, !.expected = @ + d]
  <2>1. to = [received |-> k.received, late |-> k.late, duplicate |-> k.duplicate,
             reordered |-> k.reordered, offGrid |-> k.offGrid, played |-> k.played,
             concealed |-> k.concealed + 1, underruns |-> k.underruns + 1,
             overruns |-> k.overruns, skipped |-> k.skipped,
             expected |-> k.expected + d, playedSamples |-> k.playedSamples]
    BY <1>3 DEF CountsType
  <2>2. k.concealed + 1 \in Nat /\ k.underruns + 1 \in Nat /\ k.expected + d \in Nat
    BY DEF CountsType
  <2>3. to \in CountsType  BY <2>1, <2>2 DEF CountsType
  <2>4. to.expected = counts.expected + d  BY <2>1
  <2>5. QED  BY <2>3, <2>4
<1>4. QED  BY <1>1, <1>2, <1>3

\* Nothing that a push of the buffer does breaks its accounts.
LEMMA PushStep ==
  ASSUME BufferInv, NEW p \in [seq : 0..(SeqModulus - 1), tick : Nat], Push(p)
  PROVE  BufferInv' /\ cursor' >= cursor /\ (anchor # NotYet => anchor' # NotYet)
<1>1. /\ anchor \in Nat \cup {NotYet} /\ cursor \in Nat /\ queue \in SUBSET Nat /\ IsFiniteSet(queue)
      /\ newest \in 0..(SeqModulus - 1) \cup {NotYet} /\ counts \in CountsType
      /\ seen \in [0..(SeenWindow - 1) -> 0..(SeqModulus - 1) \cup {NotYet}]
      /\ p.tick \in Nat /\ p.seq \in 0..(SeqModulus - 1)
  BY DEF BufferInv, BufferTypeOK
<1>2. Occupied \in Nat /\ Occupied <= CeilingFrames /\ Ahead(queue, cursor)
  BY <1>1, FS_CardinalityType DEF BufferInv, HeldIsAhead, Ahead, Occupied
<1>3. Slot(p) \in 0..(SeenWindow - 1)
  <2>1. p.seq \in Int /\ SeenWindow \in Nat \ {0}  BY <1>1, JitterAssumption
  <2>2. QED  BY <2>1, Division DEF Slot
<1>4. ASSUME Arrive(p)
      PROVE  /\ seen' \in [0..(SeenWindow - 1) -> 0..(SeqModulus - 1) \cup {NotYet}]
             /\ anchor' \in Nat /\ anchor' = AnchorWith(p)
             /\ CursorWith(p) \in Nat /\ CursorWith(p) >= anchor'
             /\ (CursorWith(p) - anchor') % FrameSamples = 0
             /\ Ahead(queue, CursorWith(p))
             /\ counts.expected = CursorWith(p) - anchor'
  <2>1. seen' \in [0..(SeenWindow - 1) -> 0..(SeqModulus - 1) \cup {NotYet}] /\ anchor' = AnchorWith(p)
    BY <1>1, <1>3, <1>4 DEF Arrive
  <2>2. CASE anchor = NotYet
    <3>1. AnchorWith(p) = p.tick /\ CursorWith(p) = p.tick  BY <2>2 DEF AnchorWith, CursorWith
    <3>2. (p.tick - p.tick) % FrameSamples = 0
      <4>1. p.tick - p.tick = FrameSamples * 0  BY <1>1, JitterAssumption
      <4>2. QED  BY <4>1, Multiple, JitterAssumption
    <3>3. queue = {} /\ counts.expected = 0  BY <2>2 DEF BufferInv, Placed
    <3>4. QED  BY <1>1, <2>1, <3>1, <3>2, <3>3 DEF Ahead
  <2>3. CASE anchor # NotYet
    <3>1. AnchorWith(p) = anchor /\ CursorWith(p) = cursor  BY <2>3 DEF AnchorWith, CursorWith
    <3>2. QED  BY <1>1, <1>2, <2>1, <2>3, <3>1 DEF BufferInv, Placed, PositionIsAccounted
  <2>4. QED  BY <2>2, <2>3
<1>5. Disorder(p) \in Nat  BY DEF Disorder
<1>6. ASSUME NoteOrder(p) PROVE newest' \in 0..(SeqModulus - 1) \cup {NotYet}
  BY <1>1, <1>6 DEF NoteOrder
<1>7. ASSUME Duplicate(p) PROVE BufferInv'
  <2>1. UNCHANGED <<anchor, cursor, queue, newest, seen>>  BY <1>7 DEF Duplicate
  <2>2. counts' \in CountsType /\ counts'.expected = counts.expected
    BY <1>1, <1>5, <1>7, TurnedAway DEF Duplicate
  <2>3. QED
    BY <1>1, <2>1, <2>2 DEF BufferInv, BufferTypeOK, HeldIsAhead, Placed, PositionIsAccounted, Occupied
<1>8. ASSUME OffGrid(p) PROVE BufferInv'
  <2>1. anchor # NotYet
    <3>1. (p.tick - p.tick) % FrameSamples = 0
      <4>1. p.tick - p.tick = FrameSamples * 0  BY <1>1, JitterAssumption
      <4>2. QED  BY <4>1, Multiple, JitterAssumption
    <3>2. QED  BY <1>8, <3>1 DEF OffGrid, OnGrid, AnchorWith
  <2>2. UNCHANGED <<cursor, queue, newest>> /\ CursorWith(p) = cursor /\ Arrive(p)
    BY <1>8, <2>1 DEF OffGrid, CursorWith
  <2>3. counts' \in CountsType /\ counts'.expected = counts.expected
    BY <1>1, <1>5, <1>8, TurnedAway DEF OffGrid
  <2>4. PositionIsAccounted'  BY <1>4, <2>2, <2>3 DEF PositionIsAccounted
  <2>5. HeldIsAhead'  BY <2>2 DEF BufferInv, HeldIsAhead, Occupied
  <2>6. Placed'  BY <1>4, <2>2 DEF Placed, NotYet
  <2>7. BufferTypeOK'  BY <1>1, <1>4, <2>2, <2>3 DEF BufferTypeOK
  <2>8. QED  BY <2>4, <2>5, <2>6, <2>7 DEF BufferInv
<1>9. ASSUME Late(p) PROVE BufferInv'
  <2>1. anchor # NotYet /\ CursorWith(p) = cursor /\ Arrive(p) /\ NoteOrder(p)
    BY <1>1, <1>9 DEF Late, CursorWith
  <2>2. UNCHANGED <<cursor, queue>>  BY <1>9 DEF Late
  <2>3. counts' \in CountsType /\ counts'.expected = counts.expected
    BY <1>1, <1>5, <1>9, TurnedAway DEF Late
  <2>4. PositionIsAccounted'  BY <1>4, <2>1, <2>2, <2>3 DEF PositionIsAccounted
  <2>5. HeldIsAhead'  BY <2>2 DEF BufferInv, HeldIsAhead, Occupied
  <2>6. Placed'  BY <1>4, <2>1, <2>2 DEF Placed, NotYet
  <2>7. BufferTypeOK'  BY <1>1, <1>4, <1>6, <2>1, <2>2, <2>3 DEF BufferTypeOK
  <2>8. QED  BY <2>4, <2>5, <2>6, <2>7 DEF BufferInv
<1>10. ASSUME Queue(p)
      PROVE  BufferInv' /\ cursor' \in Nat /\ cursor' >= CursorWith(p)
  <2> DEFINE from == CursorWith(p)
             frames == queue \cup {p.tick}
             held == HoldCeiling(frames, from)
             over == IF held.skipped > 0 THEN 1 ELSE 0
  <2>1. Arrive(p) /\ NoteOrder(p) /\ OnGrid(p) /\ p.tick >= from  BY <1>10 DEF Queue
  <2>2. frames \in SUBSET Nat /\ IsFiniteSet(frames)  BY <1>1, FS_AddElement
  <2>3. (p.tick - from) % FrameSamples = 0
    <3>1. ((p.tick - anchor') - (from - anchor')) % FrameSamples = 0
      <4>1. p.tick - anchor' \in Int /\ from - anchor' \in Int /\ FrameSamples \in Nat \ {0}
        BY <1>1, <1>4, <2>1, JitterAssumption
      <4>2. (p.tick - anchor') % FrameSamples = 0  BY <1>4, <2>1 DEF OnGrid
      <4>3. QED  BY <1>4, <2>1, <4>1, <4>2, GridFacts
    <3>2. (p.tick - anchor') - (from - anchor') = p.tick - from  BY <1>1, <1>4, <2>1
    <3>3. QED  BY <3>1, <3>2
  <2>4. Ahead(frames, from)  BY <1>4, <2>1, <2>3 DEF Ahead
  <2>5. from \in Nat  BY <1>4, <2>1
  <2> HIDE DEF frames, from
  <2>6. /\ held.queue \in SUBSET Nat /\ IsFiniteSet(held.queue)
        /\ Cardinality(held.queue) <= CeilingFrames
        /\ held.cursor \in Nat /\ held.cursor >= from
        /\ (held.cursor - from) % FrameSamples = 0
        /\ Ahead(held.queue, held.cursor)
        /\ held.travelled = held.cursor - from
        /\ held.skipped \in Nat
    BY <2>2, <2>4, <2>5, CeilingFacts
  <2>7. /\ queue' = held.queue /\ cursor' = held.cursor
        /\ counts' = [counts EXCEPT !.received = @ + 1, !.reordered = @ + Disorder(p),
                         !.overruns = @ + over, !.skipped = @ + held.skipped,
                         !.expected = @ + held.travelled]
    BY <1>10 DEF Queue, frames, from
  <2> HIDE DEF held
  <2>8. over \in Nat /\ held.travelled \in Nat  BY <2>5, <2>6
  <2> HIDE DEF over
  <2>9. counts' \in CountsType /\ counts'.expected = counts.expected + held.travelled
    <3>1. counts \in CountsType /\ Disorder(p) \in Nat /\ over \in Nat
          /\ held.skipped \in Nat /\ held.travelled \in Nat
      BY <1>1, <1>5, <2>6, <2>8
    <3> DEFINE a == Disorder(p)
               c == held.skipped
               d == held.travelled
    <3>2. counts' = [counts EXCEPT !.received = @ + 1, !.reordered = @ + a, !.overruns = @ + over,
                                   !.skipped = @ + c, !.expected = @ + d]
      BY <2>7
    <3>3. a \in Nat /\ c \in Nat /\ d \in Nat  BY <3>1
    <3> HIDE DEF a, c, d
    <3> DEFINE k == counts
    <3>4. counts' = [received |-> k.received + 1, late |-> k.late, duplicate |-> k.duplicate,
                     reordered |-> k.reordered + a, offGrid |-> k.offGrid, played |-> k.played,
                     concealed |-> k.concealed, underruns |-> k.underruns,
                     overruns |-> k.overruns + over, skipped |-> k.skipped + c,
                     expected |-> k.expected + d, playedSamples |-> k.playedSamples]
      BY <1>1, <3>2 DEF CountsType
    <3>5. /\ k.received + 1 \in Nat /\ k.reordered + a \in Nat /\ k.overruns + over \in Nat
          /\ k.skipped + c \in Nat /\ k.expected + d \in Nat
      <4>1. /\ counts.received \in Nat /\ counts.reordered \in Nat /\ counts.overruns \in Nat
            /\ counts.skipped \in Nat /\ counts.expected \in Nat
        BY <1>1 DEF CountsType
      <4>2. QED  BY <3>1, <3>3, <4>1
    <3>6. counts' \in CountsType  BY <1>1, <3>4, <3>5 DEF CountsType
    <3>7. counts'.expected = counts.expected + d  BY <3>4
    <3>8. QED  BY <3>6, <3>7 DEF d
  <2>10. PositionIsAccounted'
    <3>1. counts.expected = from - anchor'  BY <1>4, <2>1 DEF from
    <3>2. QED  BY <1>4, <2>1, <2>5, <2>6, <2>7, <2>9, <3>1 DEF PositionIsAccounted
  <2>11. HeldIsAhead'  BY <2>6, <2>7 DEF HeldIsAhead, Ahead, Occupied
  <2>12. Placed'
    <3>1. from >= anchor' /\ (from - anchor') % FrameSamples = 0  BY <1>4, <2>1 DEF from
    <3>2. ((held.cursor - from) + (from - anchor')) % FrameSamples = 0
      <4>1. held.cursor - from \in Int /\ from - anchor' \in Int /\ FrameSamples \in Nat \ {0}
        BY <1>4, <2>1, <2>5, <2>6, JitterAssumption
      <4>2. QED  BY <2>6, <3>1, <4>1, GridFacts
    <3>3. (held.cursor - from) + (from - anchor') = held.cursor - anchor'
      BY <1>4, <2>1, <2>5, <2>6
    <3>4. held.cursor >= anchor'  BY <1>4, <2>1, <2>5, <2>6, <3>1
    <3>5. anchor' # NotYet  BY <1>4, <2>1 DEF NotYet
    <3>6. QED  BY <2>7, <3>2, <3>3, <3>4, <3>5 DEF Placed
  <2>13. BufferTypeOK'  BY <1>4, <1>6, <2>1, <2>6, <2>7, <2>9 DEF BufferTypeOK
  <2>14. cursor' \in Nat /\ cursor' >= CursorWith(p)  BY <2>6, <2>7 DEF from
  <2>15. QED  BY <2>10, <2>11, <2>12, <2>13, <2>14 DEF BufferInv
<1>11. BufferInv'  BY <1>7, <1>8, <1>9, <1>10 DEF Push
<1>12. CASE Duplicate(p)  BY <1>1, <1>11, <1>12 DEF Duplicate
<1>13. CASE OffGrid(p)  BY <1>1, <1>4, <1>11, <1>13 DEF OffGrid, NotYet
<1>14. CASE Late(p)  BY <1>1, <1>4, <1>11, <1>14 DEF Late, NotYet
<1>15. CASE Queue(p)
  <2>1. Arrive(p)  BY <1>15 DEF Queue
  <2>2. CursorWith(p) >= cursor
    BY <1>1 DEF CursorWith, BufferInv, Placed
  <2>3. cursor' \in Nat /\ cursor' >= CursorWith(p)  BY <1>10, <1>15
  <2>4. QED  BY <1>1, <1>4, <1>11, <2>1, <2>2, <2>3 DEF NotYet
<1>16. QED  BY <1>12, <1>13, <1>14, <1>15 DEF Push

LEMMA PullStep ==
  ASSUME BufferInv, anchor # NotYet, Pull
  PROVE  BufferInv'
<1>1. /\ anchor \in Nat /\ cursor \in Nat /\ queue \in SUBSET Nat /\ IsFiniteSet(queue)
      /\ counts \in CountsType /\ FrameSamples \in Nat \ {0} /\ CeilingFrames \in Nat
      /\ counts.expected = cursor - anchor /\ cursor >= anchor
      /\ (cursor - anchor) % FrameSamples = 0
  BY JitterAssumption DEF BufferInv, BufferTypeOK, PositionIsAccounted, Placed
<1>2. Occupied \in Nat /\ Occupied <= CeilingFrames /\ Ahead(queue, cursor)
  BY <1>1, FS_CardinalityType DEF BufferInv, HeldIsAhead, Ahead, Occupied
<1>3. cursor' = cursor + FrameSamples /\ UNCHANGED <<anchor, newest, seen>>
  BY DEF Pull, PullFrame, PullConceal, PullUnderrun, Travel
<1>4. counts' \in CountsType /\ counts'.expected = counts.expected + FrameSamples
  <2>1. FrameSamples \in Nat  BY <1>1
  <2>2. QED  BY <1>1, <2>1, TakenOut DEF Pull, PullFrame, PullConceal, PullUnderrun
<1>5. queue' = queue \ {cursor}
  BY DEF Pull, PullFrame, PullConceal, PullUnderrun
<1>6. Ahead(queue', cursor')
  <2>1. Ahead(queue \ {cursor}, cursor)  BY <1>2 DEF Ahead
  <2>2. queue \ {cursor} \in SUBSET Nat  BY <1>1
  <2>3. QED  BY <1>1, <1>3, <1>5, <2>1, <2>2, MovedOn
<1>7. IsFiniteSet(queue') /\ Cardinality(queue') <= CeilingFrames
  <2>1. /\ IsFiniteSet(queue') /\ Cardinality(queue') <= Cardinality(queue)
        /\ Cardinality(queue') \in Nat
    BY <1>1, <1>5, FS_Subset, FS_CardinalityType
  <2>2. QED  BY <1>1, <1>2, <2>1 DEF Occupied
<1>8. HeldIsAhead'  BY <1>6, <1>7 DEF HeldIsAhead, Ahead, Occupied
<1>9. PositionIsAccounted'  BY <1>1, <1>3, <1>4 DEF PositionIsAccounted
<1>10. Placed'
  <2>1. ((cursor - anchor) + FrameSamples) % FrameSamples = 0
    <3>1. cursor - anchor \in Int  BY <1>1
    <3>2. QED  BY <1>1, <3>1, GridFacts
  <2>2. (cursor + FrameSamples) - anchor = (cursor - anchor) + FrameSamples  BY <1>1
  <2>3. cursor + FrameSamples >= anchor  BY <1>1
  <2>4. QED  BY <1>3, <2>1, <2>2, <2>3 DEF Placed
<1>11. BufferTypeOK'
  BY <1>1, <1>3, <1>4, <1>5, <1>7 DEF BufferInv, BufferTypeOK
<1>12. QED  BY <1>8, <1>9, <1>10, <1>11 DEF BufferInv

-----------------------------------------------------------------------------
(* The ring. *)

LEMMA Associative == \A s, t, u \in Seq(Nat) : (s \o t) \o u = s \o (t \o u)
BY ConcatAssociative

Fills == [phase : {"copy", "publish"}, at : Nat, frames : Seq(Nat)]
Drains == [phase : {"copy", "publish"}, at : Nat, count : Nat \ {0}]

RingTypeOK ==
  /\ write \in Nat /\ read \in Nat
  /\ cells \in [0..(Capacity - 1) -> Nat]
  /\ fill \in {Idle} \cup Fills /\ drain \in {Idle} \cup Drains
  /\ refused \in Nat /\ silence \in Nat
  /\ heard \in Seq(Nat)

\* What a fill in flight has taken for itself begins where the ring ends, and
\* what a drain in flight has begins where the ring begins.
RegionsHeld ==
  /\ read <= write /\ write <= read + Capacity
  /\ fill # Idle => /\ fill.at = write /\ Len(fill.frames) > 0
                    /\ write + Len(fill.frames) <= read + Capacity
  /\ drain # Idle => drain.at = read /\ read + drain.count <= write

\* Frames about to be published are in their cells.
Copied ==
  fill.phase = "publish" =>
    \A i \in 1..Len(fill.frames) : cells[Cell(write + i - 1)] = fill.frames[i]

RingInv == RingTypeOK /\ RegionsHeld /\ Copied

LEMMA Disjoint == RingTypeOK /\ RegionsHeld => RegionsAreDisjoint
<1> SUFFICES ASSUME RingTypeOK, RegionsHeld, fill # Idle, drain # Idle,
                    NEW i \in 0..(Len(fill.frames) - 1), NEW j \in 0..(drain.count - 1)
             PROVE  Cell(fill.at + i) # Cell(drain.at + j)
  BY DEF RegionsAreDisjoint, CellsOf
<1>1. /\ write \in Nat /\ read \in Nat /\ Len(fill.frames) \in Nat /\ drain.count \in Nat
      /\ Capacity \in Nat \ {0}
  BY RingAssumption DEF RingTypeOK, Fills, Drains
<1>2. /\ fill.at = write /\ write + Len(fill.frames) <= read + Capacity
      /\ drain.at = read /\ read + drain.count <= write
  BY DEF RegionsHeld
<1>3. /\ read + j \in Nat /\ write + i \in Nat /\ read + j < write + i
      /\ (write + i) - (read + j) < Capacity
  BY <1>1, <1>2
<1>4. (read + j) % Capacity # (write + i) % Capacity  BY <1>1, <1>3, CellsApart
<1>5. QED  BY <1>2, <1>4 DEF Cell

\* What is queued is what lies between the two cursors, but for what has been
\* passed on.
LyingBetween ==
  /\ Passed \in Nat /\ read + Passed <= write
  /\ Queued \in Seq(Nat) /\ Len(Queued) = write - (read + Passed)
  /\ \A i \in 1..Len(Queued) : Queued[i] = cells[Cell(read + Passed + i - 1)]

LEMMA QueuedFacts == RingTypeOK /\ RegionsHeld => LyingBetween
<1> SUFFICES ASSUME RingTypeOK, RegionsHeld PROVE LyingBetween
  OBVIOUS
<1>1. /\ write \in Nat /\ read \in Nat /\ read <= write /\ Capacity \in Nat \ {0}
      /\ cells \in [0..(Capacity - 1) -> Nat]
  BY RingAssumption DEF RingTypeOK, RegionsHeld
<1>2. Passed \in Nat /\ read + Passed <= write
  BY <1>1 DEF RingTypeOK, RegionsHeld, Passed, Drains
<1>3. \A n \in Nat : cells[Cell(n)] \in Nat
  <2>1. \A n \in Nat : Cell(n) \in 0..(Capacity - 1)  BY <1>1, Division DEF Cell
  <2>2. QED  BY <1>1, <2>1
<1>4. Occupancy \in Nat /\ Occupancy = write - read  BY <1>1 DEF Occupancy
<1>5. /\ Held \in Seq(Nat) /\ Len(Held) = Occupancy
      /\ \A i \in 1..Occupancy : Held[i] = cells[Cell(read + i - 1)]
  <2>1. \A i \in 1..Occupancy : cells[Cell(read + i - 1)] \in Nat
    <3>1. \A i \in 1..Occupancy : read + i - 1 \in Nat  BY <1>1, <1>4
    <3>2. QED  BY <1>3, <3>1
  <2>2. QED  BY <1>4, <2>1 DEF Held
<1> DEFINE from == Passed + 1
<1>6. \A i \in from..Occupancy : Held[i] \in Nat
  <2>1. \A i \in from..Occupancy : i \in 1..Len(Held)  BY <1>2, <1>4, <1>5
  <2>2. QED  BY <1>5, <2>1, ElementOfSeq
<1>7. Queued = SubSeq(Held, from, Occupancy)  BY <1>5 DEF Queued
<1>8. /\ Queued \in Seq(Nat)
      /\ Len(Queued) = IF from <= Occupancy THEN Occupancy - from + 1 ELSE 0
      /\ \A i \in 1..(Occupancy - from + 1) : Queued[i] = Held[from + i - 1]
  <2>1. from \in Int /\ Occupancy \in Int  BY <1>2, <1>4
  <2> HIDE DEF from
  <2>2. QED  BY <1>6, <1>7, <2>1, SubSeqProperties
<1>9. Len(Queued) = write - (read + Passed) /\ Len(Queued) = Occupancy - from + 1
  <2>1. CASE from <= Occupancy  BY <1>1, <1>2, <1>4, <1>8, <2>1
  <2>2. CASE ~(from <= Occupancy)
    <3>1. Len(Queued) = 0  BY <1>8, <2>2
    <3>2. Passed = Occupancy  BY <1>1, <1>2, <1>4, <2>2
    <3>3. QED  BY <1>1, <1>2, <1>4, <3>1, <3>2
  <2>3. QED  BY <2>1, <2>2
<1>10. ASSUME NEW i \in 1..Len(Queued) PROVE Queued[i] = cells[Cell(read + Passed + i - 1)]
  <2>1. i \in 1..(Occupancy - from + 1)  BY <1>9
  <2>2. Queued[i] = Held[from + i - 1]  BY <1>8, <2>1
  <2>3. from + i - 1 \in 1..Occupancy /\ read + (from + i - 1) - 1 = read + Passed + i - 1
    BY <1>1, <1>2, <1>4, <2>1
  <2>4. QED  BY <1>5, <2>2, <2>3
<1>11. QED  BY <1>2, <1>8, <1>9, <1>10 DEF LyingBetween

\* The cells of a fill are none of those that hold what is queued.
LEMMA FillIsApart ==
  ASSUME RingTypeOK, RegionsHeld, fill # Idle,
         NEW n \in Nat, read <= n, n < write, NEW i \in 0..(Len(fill.frames) - 1)
  PROVE  Cell(n) # Cell(write + i)
<1>1. /\ write \in Nat /\ read \in Nat /\ Len(fill.frames) \in Nat /\ Capacity \in Nat \ {0}
  BY RingAssumption DEF RingTypeOK, Fills
<1>2. write + Len(fill.frames) <= read + Capacity  BY DEF RegionsHeld
<1>3. write + i \in Nat /\ n < write + i /\ (write + i) - n < Capacity  BY <1>1, <1>2
<1>4. n % Capacity # (write + i) % Capacity  BY <1>1, <1>3, CellsApart
<1>5. QED  BY <1>4 DEF Cell

\* Two states in which the same cells lie between the cursors queue the same.
LEMMA SameQueue ==
  ASSUME RingTypeOK, RegionsHeld, RingTypeOK', RegionsHeld',
         (read + Passed)' = read + Passed, write' = write,
         \A n \in Nat : read + Passed <= n /\ n < write => cells'[Cell(n)] = cells[Cell(n)]
  PROVE  Queued' = Queued
<1>1. /\ Passed \in Nat /\ read \in Nat /\ write \in Nat /\ Queued \in Seq(Nat)
      /\ Len(Queued) = write - (read + Passed)
      /\ \A i \in 1..Len(Queued) : Queued[i] = cells[Cell(read + Passed + i - 1)]
  BY QueuedFacts DEF RingTypeOK, LyingBetween
<1>2. /\ Queued' \in Seq(Nat) /\ Len(Queued') = write' - (read + Passed)'
      /\ \A i \in 1..Len(Queued') : Queued'[i] = cells'[Cell((read + Passed)' + i - 1)]
  <2>1. LyingBetween'  BY QueuedFacts, PTL
  <2>2. QED  BY <2>1 DEF LyingBetween, Cell
<1>3. Len(Queued') = Len(Queued)  BY <1>1, <1>2
<1>4. ASSUME NEW i \in 1..Len(Queued') PROVE Queued'[i] = Queued[i]
  <2> DEFINE n == read + Passed + i - 1
  <2>1. n \in Nat /\ read + Passed <= n /\ n < write  BY <1>1, <1>3
  <2>2. cells'[Cell(n)] = cells[Cell(n)]  BY <2>1
  <2>3. QED  BY <1>1, <1>2, <1>3, <2>2
<1>5. QED  BY <1>1, <1>2, <1>3, <1>4, SeqEqual

LEMMA FillBeginStep ==
  ASSUME RingInv, NEW frames \in Seq(Nat), FillBegin(frames)
  PROVE  /\ RingInv' /\ Queued' = Queued /\ UNCHANGED heard /\ fill = Idle
         /\ \/ fill' = Idle
            \/ fill' # Idle /\ \E n \in 1..Len(frames) : fill'.frames = SubSeq(frames, 1, n)
<1> DEFINE take == Least(Len(frames), Capacity - Occupancy)
<1>1. /\ write \in Nat /\ read \in Nat /\ read <= write /\ write <= read + Capacity
      /\ Len(frames) \in Nat /\ Capacity \in Nat /\ refused \in Nat /\ fill = Idle
      /\ UNCHANGED <<write, read, cells, drain, silence, heard>>
  BY RingAssumption DEF RingInv, RingTypeOK, RegionsHeld, FillBegin
<1>2. take \in Nat /\ take <= Len(frames) /\ write + take <= read + Capacity
  BY <1>1 DEF Least, Occupancy
<1>3. /\ refused' = refused + Len(frames) - take
      /\ take = 0 => fill' = Idle
      /\ take # 0 => fill' = [phase |-> "copy", at |-> write, frames |-> SubSeq(frames, 1, take)]
  BY DEF FillBegin
<1> HIDE DEF take
<1>4. refused' \in Nat  BY <1>1, <1>2, <1>3
<1>5. /\ SubSeq(frames, 1, take) \in Seq(Nat)
      /\ take # 0 => Len(SubSeq(frames, 1, take)) = take
  <2>1. \A i \in 1..take : i \in 1..Len(frames)  BY <1>1, <1>2
  <2>2. \A i \in 1..take : frames[i] \in Nat  BY <2>1, ElementOfSeq
  <2>3. /\ SubSeq(frames, 1, take) \in Seq(Nat)
        /\ Len(SubSeq(frames, 1, take)) = IF 1 <= take THEN take - 1 + 1 ELSE 0
    BY <1>2, <2>2, SubSeqProperties
  <2>4. QED  BY <1>2, <2>3
<1>6. fill' \in {Idle} \cup Fills /\ fill'.phase # "publish"
  <2>1. CASE take = 0  BY <1>3, <2>1 DEF Idle
  <2>2. CASE take # 0
    <3>1. fill' = [phase |-> "copy", at |-> write, frames |-> SubSeq(frames, 1, take)]
      BY <1>3, <2>2
    <3>2. fill' \in Fills  BY <1>1, <1>5, <3>1 DEF Fills
    <3>3. QED  BY <3>1, <3>2
  <2>3. QED  BY <2>1, <2>2
<1>7. RingTypeOK'  BY <1>1, <1>4, <1>6 DEF RingInv, RingTypeOK
<1>8. RegionsHeld'  BY <1>1, <1>2, <1>3, <1>5 DEF RingInv, RegionsHeld, Idle
<1>9. Copied'  BY <1>6 DEF Copied
<1>10. Queued' = Queued
  <2>1. (read + Passed)' = read + Passed  BY <1>1 DEF Passed
  <2>2. QED  BY <1>1, <1>7, <1>8, <2>1, SameQueue DEF RingInv
<1>11. \/ fill' = Idle
       \/ fill' # Idle /\ \E n \in 1..Len(frames) : fill'.frames = SubSeq(frames, 1, n)
  <2>1. CASE take = 0  BY <1>3, <2>1
  <2>2. CASE take # 0
    <3>1. take \in 1..Len(frames)  BY <1>1, <1>2, <2>2
    <3>2. fill'.frames = SubSeq(frames, 1, take) /\ fill'.phase = "copy"  BY <1>3, <2>2
    <3>3. fill' # Idle  BY <3>2 DEF Idle
    <3>4. QED  BY <3>1, <3>2, <3>3
  <2>3. QED  BY <2>1, <2>2
<1>12. QED  BY <1>1, <1>7, <1>8, <1>9, <1>10, <1>11 DEF RingInv

LEMMA FillCopyStep ==
  ASSUME RingInv, FillCopy
  PROVE  /\ RingInv' /\ Queued' = Queued /\ UNCHANGED heard
         /\ fill # Idle /\ fill' # Idle /\ fill'.frames = fill.frames
<1>1. /\ write \in Nat /\ read \in Nat /\ read <= write /\ Capacity \in Nat \ {0}
      /\ cells \in [0..(Capacity - 1) -> Nat]
      /\ UNCHANGED <<write, read, drain, refused, silence, heard>>
  BY RingAssumption DEF RingInv, RingTypeOK, RegionsHeld, FillCopy
<1>2. fill \in Fills /\ fill # Idle /\ fill.phase = "copy"
  BY DEF RingInv, RingTypeOK, FillCopy, Idle
<1>3. /\ fill.at = write /\ fill.frames \in Seq(Nat) /\ Len(fill.frames) \in Nat
      /\ write + Len(fill.frames) <= read + Capacity
  BY <1>2 DEF RingInv, RegionsHeld, Fills
<1>4. fill' = [phase |-> "publish", at |-> write, frames |-> fill.frames]
  BY <1>2, <1>3 DEF FillCopy, Fills
<1> DEFINE place(i) == Cell(write + i - 1)
           which(c) == CHOOSE i \in 1..Len(fill.frames) : place(i) = c
<1>5. cells' = [c \in 0..(Capacity - 1) |->
                 IF c \in CellsOf(write, Len(fill.frames)) THEN fill.frames[which(c)] ELSE cells[c]]
  BY <1>1, <1>3 DEF FillCopy
<1>6. \A i \in 1..Len(fill.frames) : write + i - 1 \in Nat /\ place(i) \in 0..(Capacity - 1)
  <2> SUFFICES ASSUME NEW i \in 1..Len(fill.frames)
               PROVE  write + i - 1 \in Nat /\ place(i) \in 0..(Capacity - 1)
    OBVIOUS
  <2>1. write + i - 1 \in Nat  BY <1>1, <1>3
  <2>2. write + i - 1 \in Int /\ Capacity \in Nat \ {0}  BY <1>1, <2>1
  <2>3. (write + i - 1) % Capacity \in 0..(Capacity - 1)  BY <2>2, Division
  <2>4. QED  BY <2>1, <2>3 DEF Cell
<1>7. \A c \in CellsOf(write, Len(fill.frames)) : \E i \in 1..Len(fill.frames) : place(i) = c
  <2> SUFFICES ASSUME NEW j \in 0..(Len(fill.frames) - 1)
               PROVE  \E i \in 1..Len(fill.frames) : place(i) = Cell(write + j)
    BY DEF CellsOf
  <2>1. j + 1 \in 1..Len(fill.frames) /\ write + (j + 1) - 1 = write + j  BY <1>1, <1>3
  <2>2. QED  BY <2>1
<1>8. \A i, j \in 1..Len(fill.frames) : place(i) = place(j) => i = j
  <2>1. ASSUME NEW i \in 1..Len(fill.frames), NEW j \in 1..Len(fill.frames), i < j
        PROVE  place(i) # place(j)
    <3>1. /\ write + i - 1 \in Nat /\ write + j - 1 \in Nat /\ write + i - 1 < write + j - 1
          /\ (write + j - 1) - (write + i - 1) < Capacity
      BY <1>1, <1>3, <2>1
    <3>2. QED  BY <1>1, <3>1, CellsApart DEF Cell
  <2>2. \A i, j \in 1..Len(fill.frames) : i < j \/ j < i \/ i = j  OBVIOUS
  <2>3. QED  BY <2>1, <2>2
<1>9. \A c \in CellsOf(write, Len(fill.frames)) :
         which(c) \in 1..Len(fill.frames) /\ place(which(c)) = c
  BY <1>7
<1>10. \A i \in 1..Len(fill.frames) : place(i) \in CellsOf(write, Len(fill.frames))
  <2> SUFFICES ASSUME NEW i \in 1..Len(fill.frames) PROVE place(i) \in CellsOf(write, Len(fill.frames))
    OBVIOUS
  <2>1. i - 1 \in 0..(Len(fill.frames) - 1) /\ write + (i - 1) = write + i - 1  BY <1>1, <1>3
  <2>2. Cell(write + (i - 1)) \in CellsOf(write, Len(fill.frames))  BY <2>1 DEF CellsOf
  <2>3. QED  BY <2>1, <2>2
<1>11. \A i \in 1..Len(fill.frames) : which(place(i)) = i  BY <1>8, <1>9, <1>10
<1> HIDE DEF which
<1>12. ASSUME NEW i \in 1..Len(fill.frames) PROVE cells'[place(i)] = fill.frames[i]
  <2>1. cells'[place(i)] = fill.frames[which(place(i))]  BY <1>5, <1>6, <1>10
  <2>2. QED  BY <1>11, <2>1
<1>13. ASSUME NEW c \in 0..(Capacity - 1) PROVE cells'[c] \in Nat
  <2>1. CASE c \in CellsOf(write, Len(fill.frames))
    <3>1. fill.frames[which(c)] \in Nat  BY <1>3, <1>9, <2>1, ElementOfSeq
    <3>2. QED  BY <1>5, <2>1, <3>1
  <2>2. CASE c \notin CellsOf(write, Len(fill.frames))  BY <1>1, <1>5, <2>2
  <2>3. QED  BY <2>1, <2>2
<1>14. cells' \in [0..(Capacity - 1) -> Nat]
  <2>1. DOMAIN cells' = 0..(Capacity - 1) /\ cells' = [c \in DOMAIN cells' |-> cells'[c]]
    BY <1>5
  <2>2. QED  BY <1>13, <2>1
<1>15. fill' \in Fills /\ fill' # Idle  BY <1>1, <1>3, <1>4 DEF Fills, Idle
<1>16. RingTypeOK'  BY <1>1, <1>14, <1>15 DEF RingInv, RingTypeOK
<1>17. RegionsHeld'  BY <1>1, <1>2, <1>3, <1>4 DEF RingInv, RegionsHeld
<1>18. Copied'  BY <1>1, <1>4, <1>12 DEF Copied, Cell
<1>19. Queued' = Queued
  <2>1. (read + Passed)' = read + Passed  BY <1>1 DEF Passed
  <2>2. ASSUME NEW n \in Nat, read + Passed <= n, n < write
        PROVE  cells'[Cell(n)] = cells[Cell(n)]
    <3>1. Passed \in Nat  BY QueuedFacts DEF RingInv, LyingBetween
    <3>2. read <= n  BY <1>1, <2>2, <3>1
    <3>3. Cell(n) \notin CellsOf(write, Len(fill.frames))
      BY <1>2, <2>2, <3>2, FillIsApart DEF RingInv, CellsOf
    <3>4. Cell(n) \in 0..(Capacity - 1)  BY <1>1, Division DEF Cell
    <3>5. QED  BY <1>5, <3>3, <3>4
  <2>3. QED  BY <1>1, <1>16, <1>17, <2>1, <2>2, SameQueue DEF RingInv
<1>20. QED  BY <1>1, <1>2, <1>4, <1>15, <1>16, <1>17, <1>18, <1>19 DEF RingInv

LEMMA FillPublishStep ==
  ASSUME RingInv, FillPublish
  PROVE  /\ RingInv' /\ fill # Idle /\ fill' = Idle /\ UNCHANGED heard
         /\ Queued' = Queued \o fill.frames /\ fill.frames \in Seq(Nat)
         /\ Len(fill.frames) > 0 /\ Len(Queued') <= Capacity
<1>1. /\ write \in Nat /\ read \in Nat /\ read <= write /\ Capacity \in Nat \ {0}
      /\ UNCHANGED <<read, cells, drain, refused, silence, heard>> /\ fill' = Idle
  BY RingAssumption DEF RingInv, RingTypeOK, RegionsHeld, FillPublish
<1>2. fill \in Fills /\ fill # Idle /\ fill.phase = "publish"
  BY DEF RingInv, RingTypeOK, FillPublish, Idle
<1>3. /\ fill.at = write /\ fill.frames \in Seq(Nat) /\ Len(fill.frames) \in Nat
      /\ Len(fill.frames) > 0 /\ write + Len(fill.frames) <= read + Capacity
  BY <1>2 DEF RingInv, RegionsHeld, Fills
<1>4. write' = write + Len(fill.frames) /\ write' \in Nat  BY <1>1, <1>3 DEF FillPublish
<1>5. RingTypeOK'  BY <1>1, <1>4 DEF RingInv, RingTypeOK
<1>6. RegionsHeld'
  <2>1. drain # Idle => drain.count \in Nat  BY DEF RingInv, RingTypeOK, Drains
  <2>2. QED  BY <1>1, <1>3, <1>4, <2>1 DEF RingInv, RegionsHeld
<1>7. Copied'  BY <1>1 DEF Copied, Idle
<1>8. /\ Passed \in Nat /\ Queued \in Seq(Nat) /\ Len(Queued) = write - (read + Passed)
      /\ read + Passed <= write
      /\ \A i \in 1..Len(Queued) : Queued[i] = cells[Cell(read + Passed + i - 1)]
  BY QueuedFacts DEF RingInv, LyingBetween
<1>9. /\ Queued' \in Seq(Nat) /\ Len(Queued') = write' - (read + Passed)
      /\ \A i \in 1..Len(Queued') : Queued'[i] = cells[Cell(read + Passed + i - 1)]
  <2>1. LyingBetween'  BY <1>5, <1>6, QueuedFacts, PTL
  <2>2. Passed' = Passed  BY <1>1 DEF Passed
  <2>3. QED  BY <1>1, <2>1, <2>2 DEF LyingBetween, Cell
<1>10. Queued' = Queued \o fill.frames
  <2>1. /\ Queued \o fill.frames \in Seq(Nat)
        /\ Len(Queued \o fill.frames) = Len(Queued) + Len(fill.frames)
        /\ \A i \in 1..(Len(Queued) + Len(fill.frames)) :
              (Queued \o fill.frames)[i] =
                IF i <= Len(Queued) THEN Queued[i] ELSE fill.frames[i - Len(Queued)]
    BY <1>3, <1>8, ConcatProperties
  <2>2. Len(Queued') = Len(Queued) + Len(fill.frames) /\ Len(Queued) \in Nat
    BY <1>1, <1>3, <1>4, <1>8, <1>9
  <2>3. ASSUME NEW i \in 1..Len(Queued') PROVE Queued'[i] = (Queued \o fill.frames)[i]
    <3>1. CASE i <= Len(Queued)
      <4>1. i \in 1..Len(Queued) /\ i \in 1..(Len(Queued) + Len(fill.frames))
        BY <2>2, <3>1
      <4>2. QED  BY <1>8, <1>9, <2>1, <3>1, <4>1
    <3>2. CASE ~(i <= Len(Queued))
      <4> DEFINE j == i - Len(Queued)
      <4>1. j \in 1..Len(fill.frames) /\ i \in 1..(Len(Queued) + Len(fill.frames))
        BY <2>2, <3>2
      <4>2. read + Passed + i - 1 = write + j - 1  BY <1>1, <1>8, <2>2
      <4>3. cells[Cell(write + j - 1)] = fill.frames[j]
        BY <1>2, <4>1 DEF RingInv, Copied
      <4>4. (Queued \o fill.frames)[i] = fill.frames[j]  BY <2>1, <3>2, <4>1
      <4>5. QED  BY <1>9, <4>2, <4>3, <4>4
    <3>3. QED  BY <3>1, <3>2
  <2>4. QED  BY <1>9, <2>1, <2>2, <2>3, SeqEqual
<1>11. Len(Queued') <= Capacity  BY <1>1, <1>3, <1>4, <1>8, <1>9
<1>12. QED  BY <1>1, <1>2, <1>3, <1>5, <1>6, <1>7, <1>10, <1>11 DEF RingInv

LEMMA DrainBeginStep ==
  ASSUME RingInv, NEW frames \in Nat, DrainBegin(frames)
  PROVE  RingInv' /\ Queued' = Queued /\ UNCHANGED <<heard, fill>>
<1> DEFINE take == Least(frames, Occupancy)
<1>1. /\ write \in Nat /\ read \in Nat /\ read <= write /\ silence \in Nat /\ drain = Idle
      /\ UNCHANGED <<write, read, cells, fill, refused, heard>>
  BY DEF RingInv, RingTypeOK, RegionsHeld, DrainBegin
<1>2. take \in Nat /\ take <= frames /\ read + take <= write  BY <1>1 DEF Least, Occupancy
<1>3. /\ silence' = silence + frames - take
      /\ drain' = IF take = 0 THEN Idle ELSE [phase |-> "copy", at |-> read, count |-> take]
  BY DEF DrainBegin
<1> HIDE DEF take
<1>4. silence' \in Nat  BY <1>1, <1>2, <1>3
<1>5. /\ drain' \in {Idle} \cup Drains
      /\ drain' # Idle => drain'.phase = "copy" /\ drain'.at = read /\ drain'.count = take
  <2>1. CASE take = 0  BY <1>3, <2>1
  <2>2. CASE take # 0
    <3>1. drain' = [phase |-> "copy", at |-> read, count |-> take]  BY <1>3, <2>2
    <3>2. drain' \in Drains  BY <1>1, <1>2, <2>2, <3>1 DEF Drains
    <3>3. QED  BY <3>1, <3>2
  <2>3. QED  BY <2>1, <2>2
<1>6. RingTypeOK'  BY <1>1, <1>4, <1>5 DEF RingInv, RingTypeOK
<1>7. RegionsHeld'  BY <1>1, <1>2, <1>5 DEF RingInv, RegionsHeld
<1>8. Copied'  BY <1>1 DEF RingInv, Copied, Cell
<1>9. (read + Passed)' = read + Passed
  <2>1. Passed' = 0 /\ Passed = 0  BY <1>1, <1>5 DEF Passed
  <2>2. QED  BY <1>1, <2>1
<1>10. QED  BY <1>1, <1>6, <1>7, <1>8, <1>9, SameQueue DEF RingInv

LEMMA DrainCopyStep ==
  ASSUME RingInv, DrainCopy
  PROVE  /\ RingInv' /\ UNCHANGED fill
         /\ \E count \in 1..Len(Queued) :
               /\ heard' = heard \o SubSeq(Queued, 1, count)
               /\ Queued' = SubSeq(Queued, count + 1, Len(Queued))
<1>1. /\ write \in Nat /\ read \in Nat /\ read <= write
      /\ UNCHANGED <<write, read, cells, fill, refused, silence>>
  BY DEF RingInv, RingTypeOK, RegionsHeld, DrainCopy
<1>2. drain \in Drains /\ drain # Idle /\ drain.phase = "copy"
  BY DEF RingInv, RingTypeOK, DrainCopy, Idle
<1> DEFINE count == drain.count
<1>3. count \in Nat \ {0} /\ drain.at = read /\ read + count <= write
  BY <1>2 DEF RingInv, RegionsHeld, Drains
<1>4. drain' = [phase |-> "publish", at |-> read, count |-> count]
  BY <1>2, <1>3 DEF DrainCopy, Drains
<1>5. heard' = heard \o [i \in 1..count |-> cells[Cell(read + i - 1)]]
  BY <1>3 DEF DrainCopy
<1>6. Passed = 0 /\ Passed' = count  BY <1>2, <1>4 DEF Passed, Idle
<1>7. /\ Queued \in Seq(Nat) /\ Len(Queued) = write - read
      /\ \A i \in 1..Len(Queued) : Queued[i] = cells[Cell(read + i - 1)]
  <2>1. LyingBetween  BY QueuedFacts DEF RingInv
  <2>2. read + 0 = read  BY <1>1
  <2>3. QED  BY <1>6, <2>1, <2>2 DEF LyingBetween
<1> HIDE DEF count
<1>8. count \in 1..Len(Queued)  BY <1>1, <1>3, <1>7
<1>9. \A i \in 1..Len(Queued) : Queued[i] \in Nat  BY <1>7, ElementOfSeq
<1>10. /\ SubSeq(Queued, 1, count) \in Seq(Nat) /\ Len(SubSeq(Queued, 1, count)) = count
       /\ \A i \in 1..count : SubSeq(Queued, 1, count)[i] = Queued[i]
  <2>1. \A i \in 1..count : i \in 1..Len(Queued)  BY <1>8
  <2>2. /\ SubSeq(Queued, 1, count) \in Seq(Nat)
        /\ Len(SubSeq(Queued, 1, count)) = IF 1 <= count THEN count - 1 + 1 ELSE 0
        /\ \A i \in 1..(count - 1 + 1) : SubSeq(Queued, 1, count)[i] = Queued[1 + i - 1]
    BY <1>3, <1>9, <2>1, SubSeqProperties
  <2>3. QED  BY <1>3, <2>2
<1>11. /\ SubSeq(Queued, count + 1, Len(Queued)) \in Seq(Nat)
       /\ Len(SubSeq(Queued, count + 1, Len(Queued))) = Len(Queued) - count
       /\ \A i \in 1..(Len(Queued) - count) :
             SubSeq(Queued, count + 1, Len(Queued))[i] = Queued[count + i]
  <2> DEFINE from == count + 1
             to == Len(Queued)
  <2>1. from \in Int /\ to \in Int /\ \A i \in from..to : i \in 1..Len(Queued)  BY <1>3, <1>8
  <2>2. \A i \in from..to : Queued[i] \in Nat  BY <1>9, <2>1
  <2>3. to - from + 1 = to - count /\ \A i \in 1..(to - count) : from + i - 1 = count + i
    BY <1>3, <1>8
  <2> HIDE DEF from, to
  <2>4. /\ SubSeq(Queued, from, to) \in Seq(Nat)
        /\ Len(SubSeq(Queued, from, to)) = IF from <= to THEN to - from + 1 ELSE 0
        /\ \A i \in 1..(to - from + 1) : SubSeq(Queued, from, to)[i] = Queued[from + i - 1]
    BY <2>1, <2>2, SubSeqProperties
  <2>5. Len(SubSeq(Queued, from, to)) = to - count
    <3>1. count <= to  BY <1>8 DEF to
    <3>2. from = count + 1  BY DEF from
    <3>3. CASE count = to  BY <1>3, <2>4, <3>2, <3>3
    <3>4. CASE count < to  BY <1>3, <2>1, <2>4, <3>2, <3>4
    <3>5. QED  BY <1>3, <2>1, <3>1, <3>3, <3>4
  <2>6. QED  BY <2>3, <2>4, <2>5 DEF from, to
<1>12. heard' = heard \o SubSeq(Queued, 1, count)
  <2> DEFINE copied == [i \in 1..count |-> cells[Cell(read + i - 1)]]
  <2>1. \A i \in 1..count : copied[i] = Queued[i] /\ copied[i] \in Nat
    BY <1>7, <1>8, <1>9
  <2>2. copied \in Seq(Nat) /\ Len(copied) = count
    <3>1. count \in Nat /\ copied \in [1..count -> Nat]  BY <1>3, <2>1
    <3>2. QED  BY <3>1
  <2> HIDE DEF copied
  <2>3. copied = SubSeq(Queued, 1, count)  BY <1>10, <2>1, <2>2, SeqEqual
  <2>4. QED  BY <1>5, <2>3 DEF copied
<1>13. heard' \in Seq(Nat)
  <2>1. heard \in Seq(Nat)  BY DEF RingInv, RingTypeOK
  <2>2. QED  BY <1>10, <1>12, <2>1, ConcatProperties
<1>14. drain' \in Drains /\ drain'.at = read /\ drain'.count = count
  BY <1>1, <1>3, <1>4 DEF Drains
<1>15. RingTypeOK'  BY <1>1, <1>13, <1>14 DEF RingInv, RingTypeOK
<1>16. RegionsHeld'  BY <1>1, <1>3, <1>14 DEF RingInv, RegionsHeld
<1>17. Copied'  BY <1>1 DEF RingInv, Copied, Cell
<1>18. Queued' = SubSeq(Queued, count + 1, Len(Queued))
  <2>1. LyingBetween'  BY <1>15, <1>16, QueuedFacts, PTL
  <2>2. /\ Queued' \in Seq(Nat) /\ Len(Queued') = write - (read + count)
        /\ \A i \in 1..Len(Queued') : Queued'[i] = cells[Cell(read + count + i - 1)]
    BY <1>1, <1>6, <2>1 DEF LyingBetween, Cell
  <2>3. Len(Queued') = Len(Queued) - count  BY <1>1, <1>3, <1>7, <2>2
  <2>4. ASSUME NEW i \in 1..Len(Queued') PROVE Queued'[i] = Queued[count + i]
    <3>1. count + i \in 1..Len(Queued) /\ read + (count + i) - 1 = read + count + i - 1
      BY <1>1, <1>3, <1>7, <2>3
    <3>2. QED  BY <1>7, <2>2, <3>1
  <2>5. QED  BY <1>11, <2>2, <2>3, <2>4, SeqEqual
<1>19. QED  BY <1>1, <1>8, <1>12, <1>15, <1>16, <1>17, <1>18 DEF RingInv

LEMMA DrainPublishStep ==
  ASSUME RingInv, DrainPublish
  PROVE  RingInv' /\ Queued' = Queued /\ UNCHANGED <<heard, fill>>
<1>1. /\ write \in Nat /\ read \in Nat /\ read <= write /\ Capacity \in Nat
      /\ UNCHANGED <<write, cells, fill, refused, silence, heard>> /\ drain' = Idle
  BY RingAssumption DEF RingInv, RingTypeOK, RegionsHeld, DrainPublish
<1>2. drain \in Drains /\ drain # Idle /\ drain.phase = "publish"
  BY DEF RingInv, RingTypeOK, DrainPublish, Idle
<1>3. drain.count \in Nat /\ drain.at = read /\ read + drain.count <= write
  BY <1>2 DEF RingInv, RegionsHeld, Drains
<1>4. read' = read + drain.count  BY <1>3 DEF DrainPublish
<1>5. RingTypeOK'  BY <1>1, <1>3, <1>4 DEF RingInv, RingTypeOK
<1>6. RegionsHeld'
  <2>1. fill # Idle => Len(fill.frames) \in Nat  BY DEF RingInv, RingTypeOK, Fills
  <2>2. QED  BY <1>1, <1>3, <1>4, <2>1 DEF RingInv, RegionsHeld
<1>7. Copied'  BY <1>1 DEF RingInv, Copied, Cell
<1>8. (read + Passed)' = read + Passed
  <2>1. Passed' = 0 /\ Passed = drain.count  BY <1>1, <1>2 DEF Passed
  <2>2. QED  BY <1>3, <1>4, <2>1, <1>5 DEF RingTypeOK
<1>9. QED  BY <1>1, <1>5, <1>6, <1>7, <1>8, SameQueue DEF RingInv

-----------------------------------------------------------------------------
(* The receiver. *)

\* All the frames there are between the first one heard and the last one
\* decoded: heard, queued, and in the hands of the producer.
Filling == IF fill = Idle THEN <<>> ELSE fill.frames
Carried == (heard \o Queued) \o Filling

\* They are in the order of the stream, and the position is past them all.
CarriedForward ==
  /\ \A i, j \in 1..Len(Carried) : i < j => Carried[i] < Carried[j]
  /\ \A i \in 1..Len(Carried) : Carried[i] <= cursor

PullsFollowAnchor == producer = "pulling" => anchor # NotYet

AudioInv == BufferInv /\ RingInv /\ stream \in Streams /\ PullsFollowAnchor /\ CarriedForward

LEMMA CarriedTyped ==
  ASSUME RingInv
  PROVE  heard \in Seq(Nat) /\ Queued \in Seq(Nat) /\ Filling \in Seq(Nat) /\ Carried \in Seq(Nat)
<1>1. heard \in Seq(Nat) /\ Queued \in Seq(Nat)
  BY QueuedFacts DEF RingInv, RingTypeOK, LyingBetween
<1>2. Filling \in Seq(Nat)
  <2>1. CASE fill = Idle  BY <2>1 DEF Filling
  <2>2. CASE fill # Idle  BY <2>2 DEF Filling, RingInv, RingTypeOK, Fills
  <2>3. QED  BY <2>1, <2>2
<1>3. heard \o Queued \in Seq(Nat)  BY <1>1, ConcatProperties
<1>4. (heard \o Queued) \o Filling \in Seq(Nat)  BY <1>2, <1>3, ConcatProperties
<1>5. QED  BY <1>1, <1>2, <1>4 DEF Carried

LEMMA RingRests ==
  ASSUME RingInv, UNCHANGED ringVars
  PROVE  RingInv' /\ Queued' = Queued /\ Carried' = Carried /\ UNCHANGED heard
<1>1. Queued' = Queued  BY DEF ringVars, Queued, Held, Passed, Occupancy, Cell
<1>2. RingInv'
  BY DEF ringVars, RingInv, RingTypeOK, RegionsHeld, Copied, Cell
<1>3. Carried' = Carried  BY <1>1 DEF ringVars, Carried, Filling
<1>4. QED  BY <1>1, <1>2, <1>3 DEF ringVars

\* Nothing that happens between the producer and the device changes what is
\* carried: frames only move on.
LEMMA FramesMoveOn ==
  ASSUME RingInv, Fill \/ Cycle \/ Drain
  PROVE  RingInv' /\ Carried' = Carried
<1>1. heard \in Seq(Nat) /\ Queued \in Seq(Nat) /\ Filling \in Seq(Nat)  BY CarriedTyped
<1>2. CASE FillCopy
  BY <1>2, FillCopyStep DEF Carried, Filling
<1>3. CASE FillPublish
  <2>1. /\ RingInv' /\ fill # Idle /\ fill' = Idle /\ heard' = heard
        /\ Queued' = Queued \o fill.frames /\ fill.frames \in Seq(Nat)
    BY <1>3, FillPublishStep
  <2>2. Carried' = (heard \o (Queued \o fill.frames)) \o <<>>
    BY <2>1 DEF Carried, Filling
  <2>3. Carried = (heard \o Queued) \o fill.frames  BY <2>1 DEF Carried, Filling
  <2>4. heard \o (Queued \o fill.frames) = (heard \o Queued) \o fill.frames
    <3>1. heard \in Seq(Nat) /\ Queued \in Seq(Nat) /\ fill.frames \in Seq(Nat)  BY <1>1, <2>1
    <3>2. QED  BY <3>1, Associative, Zenon
  <2>5. (heard \o Queued) \o fill.frames \in Seq(Nat)
    <3>1. heard \o Queued \in Seq(Nat)  BY <1>1, ConcatProperties
    <3>2. QED  BY <2>1, <3>1, ConcatProperties
  <2>6. QED  BY <2>1, <2>2, <2>3, <2>4, <2>5, ConcatEmptySeq
<1>4. CASE Cycle
  <2>1. CycleFrames \in Nat /\ DrainBegin(CycleFrames)  BY <1>4, AudioAssumption DEF Cycle
  <2>2. QED  BY <2>1, DrainBeginStep DEF Carried, Filling
<1>5. CASE DrainCopy
  <2>1. PICK count \in 1..Len(Queued) :
          /\ RingInv' /\ fill' = fill
          /\ heard' = heard \o SubSeq(Queued, 1, count)
          /\ Queued' = SubSeq(Queued, count + 1, Len(Queued))
    BY <1>5, DrainCopyStep
  <2> DEFINE first == SubSeq(Queued, 1, count)
             others == SubSeq(Queued, count + 1, Len(Queued))
  <2>2. Len(Queued) \in Nat /\ count \in Nat  BY <1>1, LenProperties
  <2>3. first \o others = Queued
    <3>1. 1 \in 1..(Len(Queued) + 1) /\ count \in (1 - 1)..Len(Queued) /\ Len(Queued) \in count..Len(Queued)
      BY <2>2
    <3>2. first \o others = SubSeq(Queued, 1, Len(Queued))
      BY <1>1, <3>1, ConcatAdjacentSubSeq
    <3>3. SubSeq(Queued, 1, Len(Queued)) = Queued  BY <1>1, SubSeqFull
    <3>4. QED  BY <3>2, <3>3
  <2>4. first \in Seq(Nat) /\ others \in Seq(Nat)
    <3>1. \A i \in 1..Len(Queued) : Queued[i] \in Nat  BY <1>1, ElementOfSeq
    <3>2. (\A i \in 1..count : Queued[i] \in Nat) /\ (\A i \in (count + 1)..Len(Queued) : Queued[i] \in Nat)
      BY <2>2, <3>1
    <3>3. count \in Int /\ count + 1 \in Int /\ Len(Queued) \in Int  BY <2>2
    <3>4. QED  BY <3>2, <3>3, SubSeqProperties
  <2> HIDE DEF first, others
  <2>5. heard' \o Queued' = heard \o Queued
    <3>1. (heard \o first) \o others = heard \o (first \o others)
      BY <1>1, <2>4, Associative, Zenon
    <3>2. heard' = heard \o first /\ Queued' = others  BY <2>1 DEF first, others
    <3>3. QED  BY <2>3, <3>1, <3>2
  <2>6. QED  BY <2>1, <2>5 DEF Carried, Filling
<1>6. CASE DrainPublish
  BY <1>6, DrainPublishStep DEF Carried, Filling
<1>7. QED  BY <1>2, <1>3, <1>4, <1>5, <1>6 DEF Fill, Drain

\* A position that has not gone back leaves what is carried behind it.
LEMMA PositionMovesOn ==
  ASSUME AudioInv, RingInv', cursor \in Nat, cursor' \in Nat, cursor' >= cursor, Carried' = Carried
  PROVE  CarriedForward'
<1>1. \A i \in 1..Len(Carried) : Carried[i] \in Nat
  BY CarriedTyped, ElementOfSeq DEF AudioInv
<1>2. QED  BY <1>1 DEF AudioInv, CarriedForward

\* What the producer decodes comes behind all there is.
LEMMA DecodedForward ==
  ASSUME AudioInv, cursor \in Nat, FillBegin(Samples(cursor)), cursor' = cursor + FrameSamples
  PROVE  RingInv' /\ CarriedForward'
<1> DEFINE frames == Samples(cursor)
<1>1. FrameSamples \in Nat \ {0}  BY JitterAssumption
<1>2. frames \in Seq(Nat) /\ Len(frames) = FrameSamples /\ \A k \in 1..FrameSamples : frames[k] = cursor + k
  <2>1. frames = [k \in 1..FrameSamples |-> cursor + k]  BY DEF Samples
  <2>2. \A k \in 1..FrameSamples : cursor + k \in Nat  BY <1>1
  <2>3. frames \in [1..FrameSamples -> Nat]  BY <2>1, <2>2
  <2>4. QED  BY <1>1, <2>1, <2>3
<1> HIDE DEF frames
<1>3. /\ RingInv' /\ Queued' = Queued /\ heard' = heard /\ fill = Idle
      /\ \/ fill' = Idle
         \/ fill' # Idle /\ \E n \in 1..Len(frames) : fill'.frames = SubSeq(frames, 1, n)
  BY <1>2, FillBeginStep DEF AudioInv, frames
<1>4. heard \in Seq(Nat) /\ Queued \in Seq(Nat) /\ heard \o Queued \in Seq(Nat)
  BY CarriedTyped, ConcatProperties DEF AudioInv
<1>5. Carried = heard \o Queued
  BY <1>3, <1>4, ConcatEmptySeq DEF Carried, Filling
<1>6. CASE fill' = Idle
  <2>1. Carried' = Carried  BY <1>3, <1>6 DEF Carried, Filling
  <2>2. QED  BY <1>1, <1>3, <2>1, PositionMovesOn
<1>7. CASE fill' # Idle
  <2>1. PICK n \in 1..Len(frames) : fill'.frames = SubSeq(frames, 1, n)  BY <1>3, <1>7
  <2> DEFINE more == SubSeq(frames, 1, n)
             old == heard \o Queued
  <2>2. /\ more \in Seq(Nat) /\ Len(more) = n /\ n \in Nat /\ n <= FrameSamples
        /\ \A k \in 1..n : more[k] = cursor + k
    <3>1. n \in Nat /\ n >= 1 /\ n <= FrameSamples /\ \A k \in 1..n : k \in 1..FrameSamples
      BY <1>1, <1>2, <2>1
    <3>2. \A k \in 1..n : frames[k] \in Nat /\ frames[k] = cursor + k
      BY <1>2, <3>1, ElementOfSeq
    <3>3. /\ more \in Seq(Nat) /\ Len(more) = IF 1 <= n THEN n - 1 + 1 ELSE 0
          /\ \A k \in 1..(n - 1 + 1) : more[k] = frames[1 + k - 1]
      BY <3>1, <3>2, SubSeqProperties
    <3>4. QED  BY <3>1, <3>2, <3>3
  <2>3. Carried' = old \o more  BY <1>3, <1>7, <2>1 DEF Carried, Filling
  <2> HIDE DEF more, old
  <2>4. /\ old \in Seq(Nat) /\ Len(old) \in Nat
        /\ \A i \in 1..Len(old) : old[i] \in Nat /\ old[i] <= cursor
        /\ \A i, j \in 1..Len(old) : i < j => old[i] < old[j]
    <3>1. old \in Seq(Nat) /\ Carried = old  BY <1>4, <1>5 DEF old
    <3>2. QED  BY <3>1, ElementOfSeq, LenProperties DEF AudioInv, CarriedForward
  <2>5. /\ Len(old \o more) = Len(old) + n
        /\ \A i \in 1..(Len(old) + n) :
              (old \o more)[i] = IF i <= Len(old) THEN old[i] ELSE more[i - Len(old)]
    BY <2>2, <2>4, ConcatProperties
  <2>6. ASSUME NEW i \in 1..(Len(old) + n)
        PROVE  \/ i \in 1..Len(old) /\ (old \o more)[i] = old[i]
               \/ i > Len(old) /\ (old \o more)[i] = cursor + (i - Len(old)) /\ i - Len(old) \in 1..n
    <3>1. CASE i <= Len(old)  BY <2>4, <2>5, <3>1
    <3>2. CASE ~(i <= Len(old))
      <4>1. i - Len(old) \in 1..n /\ i > Len(old)  BY <2>2, <2>4, <3>2
      <4>2. (old \o more)[i] = more[i - Len(old)]  BY <2>5, <3>2
      <4>3. QED  BY <2>2, <4>1, <4>2
    <3>3. QED  BY <3>1, <3>2
  <2>7. ASSUME NEW i \in 1..(Len(old) + n) PROVE (old \o more)[i] <= cursor + FrameSamples
    BY <1>1, <2>2, <2>4, <2>6
  <2>8. ASSUME NEW i \in 1..(Len(old) + n), NEW j \in 1..(Len(old) + n), i < j
        PROVE  (old \o more)[i] < (old \o more)[j]
    <3>1. CASE j \in 1..Len(old) /\ (old \o more)[j] = old[j]
      <4>1. i \in 1..Len(old) /\ ~(i > Len(old))  BY <2>2, <2>4, <2>8, <3>1
      <4>2. QED  BY <2>4, <2>6, <2>8, <3>1, <4>1
    <3>2. CASE j > Len(old) /\ (old \o more)[j] = cursor + (j - Len(old)) /\ j - Len(old) \in 1..n
      <4>1. CASE i \in 1..Len(old) /\ (old \o more)[i] = old[i]
        <5>1. old[i] \in Nat /\ old[i] <= cursor  BY <2>4, <4>1
        <5>2. QED  BY <2>4, <3>2, <4>1, <5>1
      <4>2. CASE i > Len(old) /\ (old \o more)[i] = cursor + (i - Len(old))
        BY <2>2, <2>4, <2>8, <3>2, <4>2
      <4>3. QED  BY <2>6, <4>1, <4>2
    <3>3. QED  BY <2>6, <3>1, <3>2
  <2>9. CarriedForward'
    BY <2>3, <2>5, <2>7, <2>8 DEF CarriedForward
  <2>10. QED  BY <1>3, <2>9
<1>8. QED  BY <1>6, <1>7

-----------------------------------------------------------------------------
(* The invariant, from the start and over every step. *)

LEMMA BufferStarts == BufferInit => BufferInv
<1> SUFFICES ASSUME BufferInit PROVE BufferInv
  OBVIOUS
<1>1. counts \in CountsType /\ counts.expected = 0  BY DEF BufferInit, CountsType
<1>2. queue = {} /\ IsFiniteSet(queue) /\ Occupied = 0
  BY FS_EmptySet DEF BufferInit, Occupied
<1>3. seen \in [0..(SeenWindow - 1) -> 0..(SeqModulus - 1) \cup {NotYet}]  BY DEF BufferInit
<1>4. anchor = NotYet /\ cursor = 0 /\ newest = NotYet  BY DEF BufferInit
<1>5. BufferTypeOK  BY <1>1, <1>2, <1>3, <1>4 DEF BufferTypeOK
<1>6. HeldIsAhead  BY <1>2, JitterAssumption DEF HeldIsAhead
<1>7. PositionIsAccounted /\ Placed  BY <1>1, <1>2, <1>4 DEF PositionIsAccounted, Placed
<1>8. QED  BY <1>5, <1>6, <1>7 DEF BufferInv

LEMMA RingStarts == RingInit => RingInv /\ Queued = <<>> /\ heard = <<>>
<1> SUFFICES ASSUME RingInit PROVE RingInv /\ Queued = <<>> /\ heard = <<>>
  OBVIOUS
<1>1. /\ write = 0 /\ read = 0 /\ cells = [c \in 0..(Capacity - 1) |-> 0] /\ fill = Idle
      /\ drain = Idle /\ refused = 0 /\ silence = 0 /\ heard = <<>>
  BY DEF RingInit
<1>2. cells \in [0..(Capacity - 1) -> Nat]  BY <1>1
<1>3. heard \in Seq(Nat)  BY <1>1, EmptySeq
<1>4. RingTypeOK  BY <1>1, <1>2, <1>3 DEF RingTypeOK
<1>5. RegionsHeld /\ Copied  BY <1>1, RingAssumption DEF RegionsHeld, Copied, Idle
<1>6. Queued \in Seq(Nat) /\ Len(Queued) = 0
  <2>1. Passed = 0  BY <1>1 DEF Passed
  <2>2. LyingBetween  BY <1>4, <1>5, QueuedFacts
  <2>3. QED  BY <1>1, <2>1, <2>2 DEF LyingBetween
<1>7. Queued = <<>>  BY <1>6, EmptySeq
<1>8. QED  BY <1>1, <1>4, <1>5, <1>7 DEF RingInv

LEMMA AudioStarts == Init => AudioInv
<1> SUFFICES ASSUME Init PROVE AudioInv
  OBVIOUS
<1>1. BufferInv  BY BufferStarts DEF Init
<1>2. RingInv /\ Queued = <<>> /\ heard = <<>>  BY RingStarts DEF Init
<1>3. fill = Idle  BY DEF Init, RingInit
<1>4. Carried = (<<>> \o <<>>) \o <<>>  BY <1>2, <1>3 DEF Carried, Filling
<1>5. Len(Carried) = 0
  <2>1. <<>> \in Seq(Nat)  BY EmptySeq
  <2>2. Carried = <<>>  BY <1>4, <2>1, ConcatEmptySeq
  <2>3. QED  BY <2>2, EmptySeq
<1>6. CarriedForward  BY <1>5 DEF CarriedForward
<1>7. stream \in Streams /\ PullsFollowAnchor  BY DEF Init, PullsFollowAnchor
<1>8. QED  BY <1>1, <1>2, <1>6, <1>7 DEF AudioInv

\* A step that touches neither buffer leaves all that is said of them.
LEMMA BuffersRest ==
  ASSUME AudioInv, UNCHANGED <<bufferVars, ringVars>>
  PROVE  BufferInv' /\ RingInv' /\ CarriedForward' /\ anchor' = anchor
<1>1. BufferInv' /\ cursor' = cursor /\ anchor' = anchor
  BY DEF AudioInv, BufferInv, BufferTypeOK, HeldIsAhead, Occupied, PositionIsAccounted, Placed, bufferVars
<1>2. RingInv' /\ Carried' = Carried  BY RingRests DEF AudioInv
<1>3. CarriedForward'  BY <1>1, <1>2 DEF AudioInv, CarriedForward
<1>4. QED  BY <1>1, <1>2, <1>3

LEMMA ReceiveStep ==
  ASSUME AudioInv, NEW i \in DOMAIN stream, Receive(i)
  PROVE  BufferInv' /\ RingInv' /\ CarriedForward' /\ (anchor # NotYet => anchor' # NotYet)
<1>1. Packet(i) \in [seq : 0..(SeqModulus - 1), tick : Nat]
  <2>1. stream \in Seq(Nat)  BY AudioAssumption DEF AudioInv
  <2>2. i \in 1..Len(stream) /\ i \in Nat /\ stream[i] \in Nat  BY <2>1, ElementOfSeq
  <2>3. FirstSeq + i - 1 \in Int /\ SeqModulus \in Nat \ {0}
    BY <2>2, AudioAssumption, JitterAssumption
  <2>4. (FirstSeq + i - 1) % SeqModulus \in 0..(SeqModulus - 1)  BY <2>3, Division
  <2>5. QED  BY <2>2, <2>4 DEF Packet
<1>2. Push(Packet(i)) /\ UNCHANGED ringVars  BY DEF Receive
<1>3. BufferInv' /\ cursor' >= cursor /\ (anchor # NotYet => anchor' # NotYet)
  BY <1>1, <1>2, PushStep DEF AudioInv
<1>4. RingInv' /\ Carried' = Carried  BY <1>2, RingRests DEF AudioInv
<1>5. cursor \in Nat /\ cursor' \in Nat  BY <1>3 DEF AudioInv, BufferInv, BufferTypeOK
<1>6. CarriedForward'  BY <1>3, <1>4, <1>5, PositionMovesOn
<1>7. QED  BY <1>3, <1>4, <1>6

LEMMA PulledStep ==
  ASSUME AudioInv, Produce \/ FailToDecode
  PROVE  BufferInv' /\ RingInv' /\ CarriedForward' /\ anchor' = anchor
<1>1. Pull /\ anchor # NotYet
  BY DEF Produce, FailToDecode, AudioInv, PullsFollowAnchor
<1>2. BufferInv'  BY <1>1, PullStep DEF AudioInv
<1>3. cursor' = cursor + FrameSamples /\ anchor' = anchor
  BY <1>1 DEF Pull, PullFrame, PullConceal, PullUnderrun, Travel
<1>4. cursor \in Nat  BY DEF AudioInv, BufferInv, BufferTypeOK
<1>5. CASE Produce
  <2>1. FillBegin(Samples(cursor))  BY <1>5 DEF Produce
  <2>2. QED  BY <1>2, <1>3, <1>4, <2>1, DecodedForward
<1>6. CASE FailToDecode
  <2>1. RingInv' /\ Carried' = Carried  BY <1>6, RingRests DEF FailToDecode, AudioInv
  <2>2. cursor' \in Nat /\ cursor' >= cursor  BY <1>3, <1>4, JitterAssumption
  <2>3. QED  BY <1>2, <1>3, <1>4, <2>1, <2>2, PositionMovesOn
<1>7. QED  BY <1>5, <1>6

LEMMA MovedStep ==
  ASSUME AudioInv, Fill \/ Cycle \/ Drain
  PROVE  BufferInv' /\ RingInv' /\ CarriedForward' /\ anchor' = anchor
<1>1. UNCHANGED bufferVars  BY DEF Fill, Cycle, Drain
<1>2. BufferInv' /\ cursor' = cursor /\ anchor' = anchor
  BY <1>1 DEF AudioInv, BufferInv, BufferTypeOK, HeldIsAhead, Occupied, PositionIsAccounted, Placed,
              bufferVars
<1>3. RingInv' /\ Carried' = Carried  BY FramesMoveOn DEF AudioInv
<1>4. CarriedForward'  BY <1>2, <1>3 DEF AudioInv, CarriedForward
<1>5. QED  BY <1>2, <1>3, <1>4

\* The steps of the threads that touch neither buffer.
Elsewhere ==
  \/ StopListening
  \/ GiveUpProducing \/ StartProducing \/ EndProducing
  \/ Refuse \/ Await \/ StartDevice \/ DeviceFails \/ StopRun \/ StopDevice \/ Finish

LEMMA ElsewhereRests == Elsewhere => UNCHANGED <<bufferVars, ringVars>>
  BY DEF Elsewhere, StopListening, GiveUpProducing, StartProducing, EndProducing, Refuse, Await,
         StartDevice, DeviceFails, StopRun, StopDevice, Finish, MainOnly

LEMMA NextCases ==
  Next => \/ \E i \in DOMAIN stream : Receive(i)
          \/ Produce \/ FailToDecode
          \/ Fill \/ Cycle \/ Drain
          \/ Elsewhere
  BY DEF Next, Elsewhere

\* The stream sent stays what it was, and only an anchored buffer is pulled.
LEMMA StreamStands ==
  ASSUME AudioInv, Next
  PROVE  stream' = stream /\ (producer' = producer \/ producer' = "ended" \/ anchor # NotYet)
  BY DEF Next, Receive, StopListening, GiveUpProducing, StartProducing, PlayoutPublished, Produce,
         FailToDecode, Fill, EndProducing, Cycle, Drain, Refuse, Await, StartDevice, DeviceFails,
         StopRun, StopDevice, Finish, MainOnly, ProducerOnly, linkVars

LEMMA AudioStep == AudioInv /\ [Next]_vars => AudioInv'
<1> SUFFICES ASSUME AudioInv, [Next]_vars PROVE AudioInv'
  OBVIOUS
<1>1. CASE Next
  <2>1. BufferInv' /\ RingInv' /\ CarriedForward' /\ (anchor # NotYet => anchor' # NotYet)
    <3>1. CASE \E i \in DOMAIN stream : Receive(i)  BY <3>1, ReceiveStep
    <3>2. CASE Produce \/ FailToDecode  BY <3>2, PulledStep
    <3>3. CASE Fill \/ Cycle \/ Drain  BY <3>3, MovedStep
    <3>4. CASE Elsewhere  BY <3>4, ElsewhereRests, BuffersRest
    <3>5. QED  BY <1>1, <3>1, <3>2, <3>3, <3>4, NextCases
  <2>2. stream' = stream /\ (producer' = producer \/ producer' = "ended" \/ anchor # NotYet)
    BY <1>1, StreamStands
  <2>3. PullsFollowAnchor'  BY <2>1, <2>2 DEF AudioInv, PullsFollowAnchor
  <2>4. QED  BY <2>1, <2>2, <2>3 DEF AudioInv
<1>2. CASE UNCHANGED vars
  <2>1. UNCHANGED <<bufferVars, ringVars>> /\ stream' = stream /\ producer' = producer
    BY <1>2 DEF vars, linkVars
  <2>2. BufferInv' /\ RingInv' /\ CarriedForward' /\ anchor' = anchor  BY <2>1, BuffersRest
  <2>3. QED  BY <2>1, <2>2 DEF AudioInv, PullsFollowAnchor
<1>3. QED  BY <1>1, <1>2

\* The invariant the theorems below are parts of.
THEOREM AudioInvariance == Spec => []AudioInv
<1>1. QED  BY AudioStarts, AudioStep, PTL DEF Spec

-----------------------------------------------------------------------------
(* What the receiver promises. *)

\* The types of the jitter buffer and of the ring, whatever arrives and
\* whichever thread runs.
THEOREM AudioTypeCorrect == Spec => [](BufferTypeOK /\ RingTypeOK)
<1>1. AudioInv => BufferTypeOK /\ RingTypeOK  BY DEF AudioInv, BufferInv, RingInv
<1>2. QED  BY <1>1, AudioInvariance, PTL

\* No frame is ever held behind the position, off the grid, or beyond the
\* ceiling, so nothing is stranded in a slot and a slot is always free.
THEOREM HeldAlwaysAhead == Spec => []HeldIsAhead
<1>1. AudioInv => HeldIsAhead  BY DEF AudioInv, BufferInv
<1>2. QED  BY <1>1, AudioInvariance, PTL

\* The position is exactly as far on as the buffer has counted, through every
\* concealment, underrun and skip.
THEOREM PositionAlwaysAccounted == Spec => []PositionIsAccounted
<1>1. AudioInv => PositionIsAccounted  BY DEF AudioInv, BufferInv
<1>2. QED  BY <1>1, AudioInvariance, PTL

\* The fill and the drain of the ring never address the same cell, for a ring
\* of any capacity: what the unsafe blocks of ring.rs rest on.
THEOREM RegionsAlwaysDisjoint == Spec => []RegionsAreDisjoint
<1>1. AudioInv => RegionsAreDisjoint  BY Disjoint DEF AudioInv, RingInv
<1>2. QED  BY <1>1, AudioInvariance, PTL

\* What the device is handed only ever moves forward in the stream.
THEOREM HeardAlwaysForward == Spec => []HeardForward
<1>1. ASSUME AudioInv, NEW i \in 1..(Len(heard) - 1) PROVE heard[i] < heard[i + 1]
  <2> DEFINE behind == Queued \o Filling
  <2>1. heard \in Seq(Nat) /\ Queued \in Seq(Nat) /\ Filling \in Seq(Nat)
    BY <1>1, CarriedTyped DEF AudioInv
  <2>2. behind \in Seq(Nat)  BY <2>1, ConcatProperties
  <2>3. Carried = heard \o behind  BY <2>1, Associative, Zenon DEF Carried
  <2> HIDE DEF behind
  <2>4. /\ Len(Carried) = Len(heard) + Len(behind)
        /\ \A k \in 1..(Len(heard) + Len(behind)) :
              Carried[k] = IF k <= Len(heard) THEN heard[k] ELSE behind[k - Len(heard)]
    BY <2>1, <2>2, <2>3, ConcatProperties
  <2>5. Len(heard) \in Nat /\ Len(behind) \in Nat  BY <2>1, <2>2, LenProperties
  <2>6. /\ i \in 1..(Len(heard) + Len(behind)) /\ i + 1 \in 1..(Len(heard) + Len(behind))
        /\ i <= Len(heard) /\ i + 1 <= Len(heard) /\ i < i + 1
    BY <2>5
  <2>7. Carried[i] = heard[i] /\ Carried[i + 1] = heard[i + 1]  BY <2>4, <2>6
  <2>8. Carried[i] < Carried[i + 1]  BY <1>1, <2>4, <2>6 DEF AudioInv, CarriedForward
  <2>9. QED  BY <2>7, <2>8
<1>2. AudioInv => HeardForward  BY <1>1 DEF HeardForward
<1>3. QED  BY <1>2, AudioInvariance, PTL

\* A published fill is a put: what was queued stays in front of it.
LEMMA PublishPuts == ASSUME RingInv, FillPublish PROVE Bounded!Put
<1>1. /\ heard' = heard /\ Queued' = Queued \o fill.frames /\ fill.frames \in Seq(Nat)
      /\ Len(fill.frames) > 0 /\ Len(Queued') <= Capacity
  BY FillPublishStep
<1>2. Queued \in Seq(Nat)  BY CarriedTyped
<1>3. Len(Queued') = Len(Queued) + Len(fill.frames) /\ Len(Queued) \in Nat /\ Len(fill.frames) \in Nat
  BY <1>1, <1>2, ConcatProperties, LenProperties
<1>4. SubSeq(Queued', 1, Len(Queued)) = Queued
  <2> DEFINE old == Queued
             all == old \o fill.frames
  <2>1. old \in Seq(Nat) /\ Len(old) \in Nat  BY <1>2, <1>3
  <2>2. SubSeq(all, 1, Len(old)) = old
    <3>1. CASE Len(old) = 0
      <4>1. old = <<>>  BY <2>1, <3>1, EmptySeq
      <4>2. SubSeq(all, 1, 0) = <<>>  BY SubSeqEmpty
      <4>3. QED  BY <3>1, <4>1, <4>2
    <3>2. CASE Len(old) # 0
      <4>1. 1 \in 1..Len(old) /\ Len(old) \in 1..Len(old)  BY <2>1, <3>2
      <4>2. SubSeq(all, 1, Len(old)) = SubSeq(old, 1, Len(old))
        BY <1>1, <2>1, <4>1, SubSeqOfConcat1
      <4>3. SubSeq(old, 1, Len(old)) = old  BY <2>1, SubSeqFull
      <4>4. QED  BY <4>2, <4>3
    <3>3. QED  BY <3>1, <3>2
  <2>3. QED  BY <1>1, <2>2
<1>5. Len(Queued) < Len(Queued')  BY <1>1, <1>3
<1>6. QED  BY <1>1, <1>4, <1>5 DEF Bounded!Put

LEMMA CopyGets == ASSUME RingInv, DrainCopy PROVE Bounded!Get
  BY DrainCopyStep DEF Bounded!Get

\* Every step of the receiver puts, gets, or leaves the queue as it was.
LEMMA StepOfQueue == AudioInv /\ [Next]_vars => [Bounded!QueueNext]_(Bounded!queueVars)
<1> SUFFICES ASSUME AudioInv, [Next]_vars, ~(Queued' = Queued /\ heard' = heard)
             PROVE  Bounded!QueueNext
  BY DEF Bounded!queueVars
<1>1. RingInv  BY DEF AudioInv
<1>2. ~ UNCHANGED ringVars  BY <1>1, RingRests
<1>3. Next  BY <1>2 DEF vars
<1>4. CASE Fill
  <2>1. FillPublish  BY <1>1, <1>4, FillCopyStep DEF Fill
  <2>2. QED  BY <1>1, <2>1, PublishPuts DEF Bounded!QueueNext
<1>5. CASE Drain
  <2>1. DrainCopy  BY <1>1, <1>5, DrainPublishStep DEF Drain
  <2>2. QED  BY <1>1, <2>1, CopyGets DEF Bounded!QueueNext
<1>6. CASE Cycle
  <2>1. CycleFrames \in Nat /\ DrainBegin(CycleFrames)  BY <1>6, AudioAssumption DEF Cycle
  <2>2. QED  BY <1>1, <2>1, DrainBeginStep
<1>7. CASE Produce
  <2>1. FillBegin(Samples(cursor))  BY <1>7 DEF Produce
  <2>2. Samples(cursor) \in Seq(Nat)
    <3>1. cursor \in Nat /\ FrameSamples \in Nat
      BY JitterAssumption DEF AudioInv, BufferInv, BufferTypeOK
    <3>2. Samples(cursor) \in [1..FrameSamples -> Nat]  BY <3>1 DEF Samples
    <3>3. QED  BY <3>1, <3>2
  <2>3. QED  BY <1>1, <2>1, <2>2, FillBeginStep
<1>8. CASE FailToDecode \/ \E i \in DOMAIN stream : Receive(i)
  BY <1>2, <1>8 DEF FailToDecode, Receive
<1>9. CASE Elsewhere  BY <1>2, <1>9, ElsewhereRests
<1>10. QED  BY <1>3, <1>4, <1>5, <1>6, <1>7, <1>8, <1>9, NextCases

\* Whatever the interleaving of its loads, copies and stores, the ring is a
\* bounded queue: nothing is lost, repeated, torn or reordered inside it.
THEOREM RingAlwaysKeepsQueue == Spec => RingKeepsQueue
<1>1. Init => Bounded!QueueInit  BY RingStarts DEF Init, Bounded!QueueInit
<1>2. QED  BY <1>1, StepOfQueue, AudioInvariance, PTL DEF Spec, RingKeepsQueue, Bounded!QueueSpec

-----------------------------------------------------------------------------
(* Circles. *)

LEMMA RemainderIs ==
  ASSUME NEW n \in Nat \ {0}, NEW r \in 0..(n - 1), NEW k \in Int
  PROVE  (n * k + r) % n = r
<1> DEFINE a == n * k + r
           q == a \div n
           s == a % n
<1>1. a \in Int  OBVIOUS
<1>2. s \in 0..(n - 1) /\ a = n * q + s /\ q \in Int  BY <1>1, Division
<1> HIDE DEF q, s
<1>3. n * (k - q) = s - r  BY <1>2
<1>4. CASE k - q >= 1
  <2>1. n * (k - q) >= n  BY <1>2, <1>4
  <2>2. QED  BY <1>2, <1>3, <2>1
<1>5. CASE k - q =< -1
  <2>1. n * (k - q) =< -n  BY <1>2, <1>5
  <2>2. QED  BY <1>2, <1>3, <2>1
<1>6. CASE k = q
  <2>1. s = r  BY <1>2, <1>6 DEF a
  <2>2. QED  BY <2>1 DEF s
<1>7. QED  BY <1>2, <1>4, <1>5, <1>6

\* A circle that a window divides is as good as the line to the window.
LEMMA NestedRemainder ==
  ASSUME NEW m \in Nat \ {0}, NEW n \in Nat \ {0}, m % n = 0, NEW a \in Int
  PROVE  (a % m) % n = a % n
<1> DEFINE r == a % m
<1>1. PICK k \in Int : m = n * k  BY Divides
<1>2. r \in 0..(m - 1) /\ a = m * (a \div m) + r /\ (a \div m) \in Int  BY Division
<1>3. r \in Int /\ r % n \in 0..(n - 1) /\ r = n * (r \div n) + (r % n) /\ (r \div n) \in Int
  <2>1. r \in Int  BY <1>2
  <2> HIDE DEF r
  <2>2. QED  BY <2>1, Division
<1> DEFINE q == a \div m
           c == r \div n
           s == r % n
           x == k * q + c
<1> HIDE DEF r, q, c, s
<1>4. q \in Int /\ c \in Int /\ s \in 0..(n - 1) /\ a = m * q + r /\ r = n * c + s
  BY <1>2, <1>3 DEF q, c, s
<1>5. x \in Int /\ a = n * x + s
  <2>1. m * q = n * (k * q)  BY <1>1, <1>4
  <2>2. k * q \in Int  BY <1>1, <1>4
  <2>3. n * (k * q + c) = n * (k * q) + n * c  BY <1>4, <2>2
  <2>4. n * (k * q) \in Int /\ n * c \in Int  BY <1>4, <2>2
  <2>5. a = n * (k * q) + n * c + s  BY <1>4, <2>1, <2>4
  <2>6. QED  BY <1>4, <2>2, <2>3, <2>4, <2>5
<1> HIDE DEF x
<1>6. a % n = s
  <2>1. (n * x + s) % n = s  BY <1>4, <1>5, RemainderIs
  <2>2. QED  BY <1>5, <2>1
<1>7. QED  BY <1>6 DEF r, s

\* Within half a circle the signed distance of two numbers is that of the
\* places they stand for, and going up past the top of the circle shows.
LEMMA DistanceIsTrue ==
  ASSUME NEW a \in Int, NEW c \in Int, 2 * (a - c) < SeqModulus, 2 * (c - a) < SeqModulus
  PROVE  LET x == a % SeqModulus
             y == c % SeqModulus
         IN  /\ SeqDistance(x, y) = a - c
             /\ a > c => (IF x < y THEN SeqModulus ELSE 0) + x - y = a - c
<1> DEFINE m == SeqModulus
           x == a % m
           y == c % m
           e == (a \div m) - (c \div m)
<1>1. m \in Nat \ {0}  BY JitterAssumption
<1>2. /\ x \in 0..(m - 1) /\ y \in 0..(m - 1) /\ e \in Int
      /\ a = m * (a \div m) + x /\ c = m * (c \div m) + y
      /\ (a \div m) \in Int /\ (c \div m) \in Int
  BY <1>1, Division
<1>3. a - c = m * e + (x - y)
  <2> DEFINE q == a \div m
             p == c \div m
  <2>1. a = m * q + x /\ c = m * p + y /\ q \in Int /\ p \in Int /\ x \in Int /\ y \in Int  BY <1>2
  <2> HIDE DEF x, y, m, q, p
  <2>2. m * (q - p) = m * q - m * p  BY <1>1, <2>1
  <2>3. m * q \in Int /\ m * p \in Int  BY <1>1, <2>1
  <2>4. QED  BY <2>1, <2>2, <2>3 DEF q, p
<1> HIDE DEF x, y, e, m
<1>4. 2 * (a - c) < m /\ 2 * (c - a) < m  BY DEF m
<1>5. e \in {-1, 0, 1}
  <2>1. e >= 2 => m * e >= 2 * m  BY <1>1, <1>2
  <2>2. e =< -2 => m * e =< -2 * m  BY <1>1, <1>2
  <2>3. m * e \in Int  BY <1>1, <1>2
  <2>4. QED  BY <1>1, <1>2, <1>3, <1>4, <2>1, <2>2, <2>3
<1>6. m * e = (IF e = 0 THEN 0 ELSE IF e = 1 THEN m ELSE -m)  BY <1>1, <1>5
<1> DEFINE d == (x - y) % m
<1>7. d = IF a >= c THEN a - c ELSE (a - c) + m
  <2> DEFINE r == IF a >= c THEN a - c ELSE (a - c) + m
  <2>1. r \in 0..(m - 1)  BY <1>1, <1>4
  <2>2. \E k \in Int : x - y = m * k + r
    <3>1. CASE a >= c
      <4>1. x - y = m * (-e) + r  BY <1>1, <1>2, <1>3, <1>5, <1>6, <3>1
      <4>2. -e \in Int  BY <1>2
      <4>3. QED  BY <4>1, <4>2
    <3>2. CASE ~(a >= c)
      <4>1. m * (-1 - e) = -m - m * e  BY <1>1, <1>5
      <4>2. x - y = m * (-1 - e) + r  BY <1>1, <1>2, <1>3, <1>5, <1>6, <3>2, <4>1
      <4>3. -1 - e \in Int  BY <1>2
      <4>4. QED  BY <4>2, <4>3
    <3>3. QED  BY <3>1, <3>2
  <2>3. PICK k \in Int : x - y = m * k + r  BY <2>2
  <2> HIDE DEF r
  <2>4. (m * k + r) % m = r  BY <1>1, <2>1, RemainderIs
  <2>5. QED  BY <2>3, <2>4 DEF r
<1>8. SeqDistance(x, y) = IF 2 * d >= m THEN d - m ELSE d  BY DEF SeqDistance, m
<1> HIDE DEF d
<1>9. SeqDistance(x, y) = a - c  BY <1>1, <1>4, <1>7, <1>8
<1>10. a > c => (IF x < y THEN m ELSE 0) + x - y = a - c
  BY <1>1, <1>2, <1>3, <1>4, <1>5, <1>6
<1>11. QED  BY <1>9, <1>10 DEF x, y, m

-----------------------------------------------------------------------------
(* Arrivals, and the account of them. *)

\* What a push does to the counts an account is made of.
Admitted(p) ==
  \/ /\ IsSeen(p)
     /\ counts'.duplicate = counts.duplicate + 1 /\ queue' = queue /\ seen' = seen
     /\ counts'.offGrid = counts.offGrid /\ counts'.late = counts.late /\ counts'.skipped = counts.skipped
  \/ /\ Arrive(p) /\ ~OnGrid(p)
     /\ counts'.duplicate = counts.duplicate /\ queue' = queue
     /\ counts'.offGrid = counts.offGrid + 1 /\ counts'.late = counts.late
     /\ counts'.skipped = counts.skipped
  \/ /\ Arrive(p) /\ OnGrid(p)
     /\ counts'.duplicate = counts.duplicate /\ queue' = queue
     /\ counts'.offGrid = counts.offGrid /\ counts'.late = counts.late + 1
     /\ counts'.skipped = counts.skipped
  \/ /\ Arrive(p) /\ OnGrid(p)
     /\ counts'.duplicate = counts.duplicate /\ queue' \subseteq queue \cup {p.tick}
     /\ counts'.offGrid = counts.offGrid /\ counts'.late = counts.late
     /\ counts'.skipped \in Nat
     /\ counts'.skipped + Cardinality(queue') = counts.skipped + Cardinality(queue \cup {p.tick})

LEMMA PushCounts ==
  ASSUME BufferInv, NEW p \in [seq : 0..(SeqModulus - 1), tick : Nat], Push(p)
  PROVE  /\ counts'.received = counts.received + 1
         /\ counts'.played = counts.played /\ counts'.concealed = counts.concealed
         /\ Admitted(p)
<1>1. /\ counts \in CountsType /\ queue \in SUBSET Nat /\ IsFiniteSet(queue) /\ cursor \in Nat
      /\ p.tick \in Nat /\ p.seq \in 0..(SeqModulus - 1)
  BY DEF BufferInv, BufferTypeOK
<1>2. CASE Duplicate(p)  BY <1>1, <1>2 DEF Duplicate, Admitted, CountsType
<1>3. CASE OffGrid(p)  BY <1>1, <1>3 DEF OffGrid, Admitted, CountsType
<1>4. CASE Late(p)
  <2> DEFINE a == Disorder(p)
  <2>1. /\ Arrive(p) /\ OnGrid(p) /\ queue' = queue
        /\ counts' = [counts EXCEPT !.received = @ + 1, !.reordered = @ + a, !.late = @ + 1]
    BY <1>4 DEF Late
  <2> HIDE DEF a
  <2>2. QED  BY <1>1, <2>1 DEF Admitted, CountsType
<1>5. CASE Queue(p)
  <2> DEFINE from == CursorWith(p)
             frames == queue \cup {p.tick}
             held == HoldCeiling(frames, from)
             a == Disorder(p)
             over == IF held.skipped > 0 THEN 1 ELSE 0
             c == held.skipped
             d == held.travelled
  <2>1. /\ Arrive(p) /\ OnGrid(p) /\ queue' = held.queue
        /\ counts' = [counts EXCEPT !.received = @ + 1, !.reordered = @ + a, !.overruns = @ + over,
                                    !.skipped = @ + c, !.expected = @ + d]
    BY <1>5 DEF Queue
  <2>2. /\ held.skipped \in Nat /\ held.queue \subseteq frames
        /\ held.skipped + Cardinality(held.queue) = Cardinality(frames)
    <3> DEFINE kept == NewestOf(frames)
               given == frames \ kept
    <3>1. frames \in SUBSET Nat /\ IsFiniteSet(frames)  BY <1>1, FS_AddElement
    <3> HIDE DEF frames
    <3>2. CASE Cardinality(frames) =< CeilingFrames
      <4>1. held.skipped = 0 /\ held.queue = frames  BY <3>2 DEF HoldCeiling
      <4>2. Cardinality(frames) \in Nat  BY <3>1, FS_CardinalityType
      <4>3. QED  BY <4>1, <4>2
    <3>3. CASE ~(Cardinality(frames) =< CeilingFrames)
      <4>1. held.skipped = Cardinality(given) /\ held.queue = kept  BY <3>3 DEF HoldCeiling
      <4>2. kept \in SUBSET frames /\ IsFiniteSet(kept)  BY <3>1, NewestFacts
      <4>3. IsFiniteSet(given) /\ Cardinality(given) = Cardinality(frames) - Cardinality(frames \cap kept)
        BY <3>1, FS_Difference
      <4>4. frames \cap kept = kept  BY <4>2
      <4>5. Cardinality(frames) \in Nat /\ Cardinality(kept) \in Nat /\ Cardinality(given) \in Nat
        BY <3>1, <4>2, <4>3, FS_CardinalityType
      <4>6. Cardinality(given) = Cardinality(frames) - Cardinality(kept)  BY <4>3, <4>4
      <4> HIDE DEF given, kept, held
      <4>7. Cardinality(given) + Cardinality(kept) = Cardinality(frames)  BY <4>5, <4>6
      <4>8. held.queue \subseteq frames  BY <4>1, <4>2
      <4>9. QED  BY <4>1, <4>5, <4>7, <4>8
    <3>4. QED  BY <3>2, <3>3
  <2>3. counts'.skipped = counts.skipped + c /\ counts'.received = counts.received + 1
        /\ counts'.played = counts.played /\ counts'.concealed = counts.concealed
        /\ counts'.duplicate = counts.duplicate /\ counts'.offGrid = counts.offGrid
        /\ counts'.late = counts.late
    <3> HIDE DEF a, over, c, d, held
    <3>1. QED  BY <1>1, <2>1 DEF CountsType
  <2>4. counts.skipped \in Nat  BY <1>1 DEF CountsType
  <2> HIDE DEF held
  <2>5. Cardinality(held.queue) \in Nat
    <3>1. IsFiniteSet(frames)  BY <1>1, FS_AddElement
    <3>2. IsFiniteSet(held.queue)  BY <2>2, <3>1, FS_Subset
    <3>3. QED  BY <3>2, FS_CardinalityType
  <2>6. counts'.skipped \in Nat
        /\ counts'.skipped + Cardinality(queue') = counts.skipped + Cardinality(frames)
    BY <2>1, <2>2, <2>3, <2>4, <2>5
  <2>7. queue' \subseteq frames  BY <2>1, <2>2
  <2>8. QED  BY <2>1, <2>3, <2>6, <2>7 DEF Admitted
<1>6. QED  BY <1>2, <1>3, <1>4, <1>5 DEF Push

LEMMA PullCounts ==
  ASSUME BufferInv, Pull
  PROVE  /\ counts'.received = counts.received /\ counts'.duplicate = counts.duplicate
         /\ counts'.offGrid = counts.offGrid /\ counts'.late = counts.late
         /\ counts'.skipped = counts.skipped
         /\ counts'.played \in Nat /\ counts'.concealed \in Nat
         /\ counts'.played + counts'.concealed = counts.played + counts.concealed + 1
         /\ counts'.played + Cardinality(queue') = counts.played + Cardinality(queue)
         /\ queue' \subseteq queue /\ seen' = seen /\ anchor' = anchor
<1>1. counts \in CountsType /\ IsFiniteSet(queue) /\ FrameSamples \in Nat
  BY JitterAssumption DEF BufferInv, BufferTypeOK
<1>2. Cardinality(queue) \in Nat  BY <1>1, FS_CardinalityType
<1>3. CASE PullFrame
  <2>1. IsFiniteSet(queue') /\ Cardinality(queue') = Cardinality(queue) - 1
    BY <1>1, <1>3, FS_RemoveElement DEF PullFrame
  <2>2. /\ counts'.played = counts.played + 1 /\ counts'.concealed = counts.concealed
        /\ counts'.received = counts.received /\ counts'.duplicate = counts.duplicate
        /\ counts'.offGrid = counts.offGrid /\ counts'.late = counts.late
        /\ counts'.skipped = counts.skipped
    BY <1>1, <1>3 DEF PullFrame, CountsType
  <2>3. counts.played \in Nat /\ counts.concealed \in Nat  BY <1>1 DEF CountsType
  <2>4. queue' \subseteq queue /\ seen' = seen /\ anchor' = anchor  BY <1>3 DEF PullFrame
  <2>5. QED  BY <1>2, <2>1, <2>2, <2>3, <2>4
<1>4. CASE PullConceal
  BY <1>1, <1>2, <1>4 DEF PullConceal, CountsType
<1>5. CASE PullUnderrun
  BY <1>1, <1>2, <1>5 DEF PullUnderrun, CountsType
<1>6. QED  BY <1>3, <1>4, <1>5 DEF Pull

\* No two packets of a stream have the same tick: a sender's clock goes on.
TicksDistinct == \A s \in Streams : \A i, j \in DOMAIN s : s[i] = s[j] => i = j

\* A packet that arrives is less than the window of numbers seen away from
\* whatever is held, so a repeat of that is still known for one
\* (SEEN_WINDOW: "a slot is only reused once a whole window has gone past").
Remembered(i) ==
  \A j \in DOMAIN stream : stream[j] \in queue => i - j < SeenWindow /\ j - i < SeenWindow
RepeatsRemembered == \A i \in DOMAIN stream : Receive(i) => Remembered(i)

HeldIsRemembered == \A t \in queue : \E j \in DOMAIN stream : stream[j] = t /\ IsSeen(Packet(j))

LEMMA SlotsApart ==
  ASSUME NEW i \in Nat \ {0}, NEW j \in Nat \ {0}, i < j, j - i < SeenWindow
  PROVE  Slot(Packet(i)) # Slot(Packet(j))
<1> DEFINE a == FirstSeq + i - 1
           b == FirstSeq + j - 1
<1>1. /\ SeqModulus \in Nat \ {0} /\ SeenWindow \in Nat \ {0} /\ SeqModulus % SeenWindow = 0
      /\ FirstSeq \in Nat
  BY JitterAssumption, AudioAssumption
<1>2. a \in Nat /\ b \in Nat /\ a < b /\ b - a < SeenWindow  BY <1>1
<1>3. Slot(Packet(i)) = (a % SeqModulus) % SeenWindow /\ Slot(Packet(j)) = (b % SeqModulus) % SeenWindow
  BY DEF Slot, Packet
<1> HIDE DEF a, b
<1>4. (a % SeqModulus) % SeenWindow = a % SeenWindow /\ (b % SeqModulus) % SeenWindow = b % SeenWindow
  <2>1. a \in Int /\ b \in Int  BY <1>2
  <2>2. QED  BY <1>1, <2>1, NestedRemainder
<1>5. a % SeenWindow # b % SeenWindow  BY <1>1, <1>2, CellsApart
<1>6. QED  BY <1>3, <1>4, <1>5

ArrivalsInv == AudioInv /\ ArrivalsAreAccounted /\ HeldIsRemembered

LEMMA PacketTyped ==
  ASSUME AudioInv
  PROVE  /\ stream \in Seq(Nat) /\ DOMAIN stream = 1..Len(stream) /\ Len(stream) \in Nat
         /\ \A i \in DOMAIN stream :
               /\ i \in Nat \ {0} /\ stream[i] \in Nat
               /\ Packet(i) \in [seq : 0..(SeqModulus - 1), tick : Nat]
               /\ Packet(i).tick = stream[i] /\ Packet(i).seq = (FirstSeq + i - 1) % SeqModulus
               /\ Slot(Packet(i)) \in 0..(SeenWindow - 1)
<1>1. stream \in Seq(Nat) /\ DOMAIN stream = 1..Len(stream) /\ Len(stream) \in Nat
  BY AudioAssumption DEF AudioInv
<1>2. ASSUME NEW i \in DOMAIN stream
      PROVE  /\ i \in Nat \ {0} /\ stream[i] \in Nat
             /\ Packet(i) \in [seq : 0..(SeqModulus - 1), tick : Nat]
             /\ Packet(i).tick = stream[i] /\ Packet(i).seq = (FirstSeq + i - 1) % SeqModulus
             /\ Slot(Packet(i)) \in 0..(SeenWindow - 1)
  <2>1. i \in 1..Len(stream) /\ i \in Nat \ {0} /\ stream[i] \in Nat  BY <1>1, ElementOfSeq
  <2>2. FirstSeq + i - 1 \in Int /\ SeqModulus \in Nat \ {0}  BY <2>1, AudioAssumption, JitterAssumption
  <2>3. (FirstSeq + i - 1) % SeqModulus \in 0..(SeqModulus - 1)  BY <2>2, Division
  <2>4. Packet(i).tick = stream[i] /\ Packet(i).seq = (FirstSeq + i - 1) % SeqModulus
        /\ Packet(i) \in [seq : 0..(SeqModulus - 1), tick : Nat]
    BY <2>1, <2>3 DEF Packet
  <2>5. Packet(i).seq \in Int /\ SeenWindow \in Nat \ {0}  BY <2>2, <2>3, <2>4, JitterAssumption
  <2>6. Slot(Packet(i)) \in 0..(SeenWindow - 1)  BY <2>5, Division DEF Slot
  <2>7. QED  BY <2>1, <2>4, <2>6
<1>3. QED  BY <1>1, <1>2

\* An arrival is accounted for once, and what is held stays remembered.
LEMMA ReceivedAccounted ==
  ASSUME TicksDistinct, ArrivalsInv, NEW i \in DOMAIN stream, Receive(i), Remembered(i)
  PROVE  ArrivalsAreAccounted' /\ HeldIsRemembered'
<1> DEFINE p == Packet(i)
<1>1. AudioInv /\ BufferInv /\ stream \in Streams /\ stream' = stream /\ Push(p)
  BY DEF ArrivalsInv, AudioInv, Receive
<1>2. /\ p \in [seq : 0..(SeqModulus - 1), tick : Nat] /\ p.tick = stream[i] /\ i \in Nat \ {0}
      /\ \A j \in DOMAIN stream : j \in Nat \ {0} /\ Slot(Packet(j)) \in 0..(SeenWindow - 1)
  BY <1>1, PacketTyped
<1>3. /\ counts'.received = counts.received + 1
      /\ counts'.played = counts.played /\ counts'.concealed = counts.concealed
      /\ Admitted(p)
  <2> HIDE DEF p
  <2>1. QED  BY <1>1, <1>2, PushCounts
<1>4. /\ counts \in CountsType /\ queue \in SUBSET Nat /\ IsFiniteSet(queue)
      /\ Cardinality(queue) \in Nat
      /\ seen \in [0..(SeenWindow - 1) -> 0..(SeqModulus - 1) \cup {NotYet}]
  BY <1>1, FS_CardinalityType DEF BufferInv, BufferTypeOK
<1>5. counts.received = counts.duplicate + counts.offGrid + counts.late
                          + counts.played + counts.skipped + Cardinality(queue)
  BY DEF ArrivalsInv, ArrivalsAreAccounted, Occupied
<1>6. /\ counts.received \in Nat /\ counts.duplicate \in Nat /\ counts.offGrid \in Nat
      /\ counts.late \in Nat /\ counts.played \in Nat /\ counts.skipped \in Nat
  BY <1>4 DEF CountsType
<1> DEFINE c == Cardinality(queue)
<1>0. c \in Nat  BY <1>4
<1>7. ASSUME ~IsSeen(p) PROVE p.tick \notin queue
  <2>1. SUFFICES ASSUME p.tick \in queue PROVE FALSE  OBVIOUS
  <2>2. PICK j \in DOMAIN stream : stream[j] = p.tick /\ IsSeen(Packet(j))
    BY <2>1 DEF ArrivalsInv, HeldIsRemembered
  <2>3. j = i  BY <1>1, <1>2, <2>2 DEF TicksDistinct
  <2>4. QED  BY <1>7, <2>2, <2>3
<1>8. ArrivalsAreAccounted'
  <2> SUFFICES counts'.received = counts'.duplicate + counts'.offGrid + counts'.late
                          + counts'.played + counts'.skipped + Cardinality(queue')
    BY DEF ArrivalsAreAccounted, Occupied
  <2>1. CASE /\ queue' = queue /\ counts'.skipped = counts.skipped
             /\ \/ /\ counts'.duplicate = counts.duplicate + 1
                   /\ counts'.offGrid = counts.offGrid /\ counts'.late = counts.late
                \/ /\ counts'.duplicate = counts.duplicate
                   /\ counts'.offGrid = counts.offGrid + 1 /\ counts'.late = counts.late
                \/ /\ counts'.duplicate = counts.duplicate
                   /\ counts'.offGrid = counts.offGrid /\ counts'.late = counts.late + 1
    <3>1. Cardinality(queue') = c  BY <2>1
    <3>2. counts'.received = counts.received + 1 /\ counts'.played = counts.played  BY <1>3
    <3> HIDE DEF c
    <3>3. QED  BY <1>0, <1>5, <1>6, <2>1, <3>1, <3>2 DEF c
  <2>2. CASE /\ Arrive(p) /\ OnGrid(p)
             /\ counts'.duplicate = counts.duplicate /\ queue' \subseteq queue \cup {p.tick}
             /\ counts'.offGrid = counts.offGrid /\ counts'.late = counts.late
             /\ counts'.skipped \in Nat
             /\ counts'.skipped + Cardinality(queue') = counts.skipped + Cardinality(queue \cup {p.tick})
    <3>1. p.tick \notin queue  BY <1>7, <2>2 DEF Arrive
    <3>2. Cardinality(queue \cup {p.tick}) = Cardinality(queue) + 1 /\ IsFiniteSet(queue \cup {p.tick})
      BY <1>4, <3>1, FS_AddElement
    <3>3. Cardinality(queue') \in Nat  BY <2>2, <3>2, FS_Subset, FS_CardinalityType
    <3>4. counts'.skipped + Cardinality(queue') = counts.skipped + Cardinality(queue) + 1
      BY <1>4, <1>6, <2>2, <3>2
    <3>5. /\ counts'.duplicate = counts.duplicate /\ counts'.offGrid = counts.offGrid
          /\ counts'.late = counts.late /\ counts'.skipped \in Nat
      BY <2>2
    <3>6. counts'.received = counts.received + 1 /\ counts'.played = counts.played  BY <1>3
    <3> DEFINE d == Cardinality(queue')
    <3>7. d \in Nat /\ counts'.skipped + d = counts.skipped + c + 1  BY <3>3, <3>4
    <3>8. counts.received = counts.duplicate + counts.offGrid + counts.late + counts.played
                              + counts.skipped + c
      BY <1>5
    <3> HIDE DEF c, d
    <3>9. counts'.received = counts'.duplicate + counts'.offGrid + counts'.late
                          + counts'.played + counts'.skipped + d
      BY <1>0, <1>6, <3>5, <3>6, <3>7, <3>8
    <3>10. QED  BY <3>9 DEF d
  <2>3. QED
    <3> HIDE DEF p
    <3>1. QED  BY <1>3, <2>1, <2>2 DEF Admitted
<1>9. HeldIsRemembered'
  <2> SUFFICES ASSUME NEW t \in queue'
               PROVE  \E j \in DOMAIN stream : stream[j] = t /\ seen'[Slot(Packet(j))] = Packet(j).seq
    BY <1>1 DEF HeldIsRemembered, IsSeen, Packet, Slot
  <2>1. CASE IsSeen(p) /\ queue' = queue /\ seen' = seen
    BY <2>1 DEF ArrivalsInv, HeldIsRemembered, IsSeen
  <2>2. CASE Arrive(p) /\ queue' \subseteq queue \cup {p.tick}
    <3>1. seen' = [seen EXCEPT ![Slot(p)] = p.seq] /\ ~IsSeen(p)  BY <2>2 DEF Arrive
    <3>2. CASE t = p.tick
      <4>1. seen'[Slot(p)] = p.seq  BY <1>2, <1>4, <3>1
      <4>2. QED  BY <1>2, <3>2, <4>1
    <3>3. CASE t \in queue
      <4>1. PICK j \in DOMAIN stream : stream[j] = t /\ IsSeen(Packet(j))
        BY <3>3 DEF ArrivalsInv, HeldIsRemembered
      <4>2. i # j  BY <3>1, <4>1
      <4>3. i - j < SeenWindow /\ j - i < SeenWindow  BY <3>3, <4>1 DEF Remembered
      <4>4. Slot(Packet(j)) # Slot(p)
        <5>1. i < j \/ j < i  BY <1>2, <4>2
        <5>2. QED  BY <1>2, <4>3, <5>1, SlotsApart
      <4>5. seen'[Slot(Packet(j))] = seen[Slot(Packet(j))]  BY <1>2, <1>4, <3>1, <4>4
      <4>6. QED  BY <4>1, <4>5 DEF IsSeen
    <3>4. QED  BY <2>2, <3>2, <3>3
  <2>3. QED  BY <1>3, <2>1, <2>2 DEF Admitted
<1>10. QED  BY <1>8, <1>9

\* The account, over a step that does not touch what it is made of.
LEMMA AccountRests ==
  ASSUME ArrivalsInv, UNCHANGED <<bufferVars, stream>>
  PROVE  ArrivalsAreAccounted' /\ HeldIsRemembered'
BY DEF ArrivalsInv, ArrivalsAreAccounted, HeldIsRemembered, bufferVars, Occupied, IsSeen, Slot, Packet

LEMMA PulledAccounted ==
  ASSUME ArrivalsInv, Pull, stream' = stream
  PROVE  ArrivalsAreAccounted' /\ HeldIsRemembered'
<1> DEFINE c == Cardinality(queue)
           d == Cardinality(queue')
<1>1. BufferInv /\ counts \in CountsType /\ IsFiniteSet(queue) /\ c \in Nat
  BY FS_CardinalityType DEF ArrivalsInv, AudioInv, BufferInv, BufferTypeOK
<1>2. /\ counts'.received = counts.received /\ counts'.duplicate = counts.duplicate
      /\ counts'.offGrid = counts.offGrid /\ counts'.late = counts.late
      /\ counts'.skipped = counts.skipped
      /\ counts'.played \in Nat /\ counts'.played + d = counts.played + c
      /\ queue' \subseteq queue /\ seen' = seen
  BY <1>1, PullCounts
<1>3. d \in Nat  BY <1>1, <1>2, FS_Subset, FS_CardinalityType
<1>4. counts.received = counts.duplicate + counts.offGrid + counts.late
                          + counts.played + counts.skipped + c
  BY DEF ArrivalsInv, ArrivalsAreAccounted, Occupied
<1>5. /\ counts.received \in Nat /\ counts.duplicate \in Nat /\ counts.offGrid \in Nat
      /\ counts.late \in Nat /\ counts.played \in Nat /\ counts.skipped \in Nat
  BY <1>1 DEF CountsType
<1>6. c \in Nat  BY <1>1
<1>7. ArrivalsAreAccounted'
  <2> HIDE DEF c, d
  <2>1. counts'.received = counts'.duplicate + counts'.offGrid + counts'.late
                          + counts'.played + counts'.skipped + d
    BY <1>2, <1>3, <1>4, <1>5, <1>6
  <2>2. QED  BY <2>1 DEF ArrivalsAreAccounted, Occupied, d
<1>8. HeldIsRemembered'
  BY <1>2 DEF ArrivalsInv, HeldIsRemembered, IsSeen, Slot, Packet
<1>9. QED  BY <1>7, <1>8

LEMMA ArrivalsStep ==
  ASSUME TicksDistinct, ArrivalsInv, [Next]_vars, [RepeatsRemembered]_vars
  PROVE  ArrivalsInv'
<1>1. AudioInv'  BY AudioStep DEF ArrivalsInv
<1>2. CASE UNCHANGED vars
  <2>1. UNCHANGED <<bufferVars, stream>>  BY <1>2 DEF vars, linkVars
  <2>2. QED  BY <1>1, <2>1, AccountRests DEF ArrivalsInv
<1>3. CASE Next /\ RepeatsRemembered
  <2>1. stream' = stream  BY <1>3, StreamStands DEF ArrivalsInv
  <2>2. CASE \E i \in DOMAIN stream : Receive(i)
    <3>1. PICK i \in DOMAIN stream : Receive(i)  BY <2>2
    <3>2. Remembered(i)  BY <1>3, <3>1 DEF RepeatsRemembered
    <3>3. QED  BY <1>1, <3>1, <3>2, ReceivedAccounted DEF ArrivalsInv
  <2>3. CASE Produce \/ FailToDecode
    <3>1. Pull  BY <2>3 DEF Produce, FailToDecode
    <3>2. QED  BY <1>1, <2>1, <3>1, PulledAccounted DEF ArrivalsInv
  <2>4. CASE Fill \/ Cycle \/ Drain
    <3>1. UNCHANGED bufferVars  BY <2>4 DEF Fill, Cycle, Drain
    <3>2. QED  BY <1>1, <2>1, <3>1, AccountRests DEF ArrivalsInv
  <2>5. CASE Elsewhere
    <3>1. UNCHANGED bufferVars  BY <2>5, ElsewhereRests
    <3>2. QED  BY <1>1, <2>1, <3>1, AccountRests DEF ArrivalsInv
  <2>6. QED  BY <1>3, <2>2, <2>3, <2>4, <2>5, NextCases
<1>4. QED  BY <1>2, <1>3

LEMMA ArrivalsStart == Init => ArrivalsInv
<1> SUFFICES ASSUME Init PROVE ArrivalsInv  OBVIOUS
<1>1. AudioInv  BY AudioStarts
<1>2. queue = {} /\ Cardinality(queue) = 0  BY FS_EmptySet DEF Init, BufferInit
<1>3. ArrivalsAreAccounted  BY <1>2 DEF Init, BufferInit, ArrivalsAreAccounted, Occupied
<1>4. HeldIsRemembered  BY <1>2 DEF HeldIsRemembered
<1>5. QED  BY <1>1, <1>3, <1>4 DEF ArrivalsInv

\* Every arrival is accounted for once, turned away, played, given up or held,
\* and the position with it, through any loss, order and repetition, for any
\* stream whose packets have ticks of their own and of any length, as long as
\* no repeat comes later than the buffer can tell.
THEOREM TimeAlwaysAccounted ==
  ASSUME TicksDistinct
  PROVE  Spec /\ [][RepeatsRemembered]_vars => []TimeIsAccounted
<1>1. Init => ArrivalsInv  BY ArrivalsStart
<1>2. ArrivalsInv /\ [Next]_vars /\ [RepeatsRemembered]_vars => ArrivalsInv'  BY ArrivalsStep
<1>3. ArrivalsInv => TimeIsAccounted
  BY DEF ArrivalsInv, AudioInv, BufferInv, TimeIsAccounted
<1>4. QED  BY <1>1, <1>2, <1>3, PTL DEF Spec

-----------------------------------------------------------------------------
(* The samples that went through the ring. *)

\* A frame decoded or concealed is taken by the ring, or counted as refused.
RingAccounted ==
  /\ pulls \in Nat /\ failures \in Nat
  /\ pulls = counts.played + counts.concealed
  /\ FrameSamples * (pulls - failures) = refused + write + Len(Filling)

\* All that is offered to the ring is under way in it or refused.
LEMMA OfferedAccounted ==
  ASSUME RingInv, NEW frames \in Seq(Nat), FillBegin(frames)
  PROVE  refused' + write' + Len(Filling') = refused + write + Len(Filling) + Len(frames)
<1> DEFINE take == Least(Len(frames), Capacity - Occupancy)
<1>1. /\ write \in Nat /\ read \in Nat /\ read <= write /\ write <= read + Capacity
      /\ Len(frames) \in Nat /\ Capacity \in Nat /\ refused \in Nat /\ fill = Idle
      /\ write' = write
  BY RingAssumption DEF RingInv, RingTypeOK, RegionsHeld, FillBegin
<1>2. take \in Nat /\ take <= Len(frames)
  BY <1>1 DEF Least, Occupancy
<1>3. /\ refused' = refused + Len(frames) - take
      /\ take = 0 => fill' = Idle
      /\ take # 0 => fill' = [phase |-> "copy", at |-> write, frames |-> SubSeq(frames, 1, take)]
  BY DEF FillBegin
<1> HIDE DEF take
<1>4. Len(SubSeq(frames, 1, take)) = take
  <2>1. \A i \in 1..take : i \in 1..Len(frames)  BY <1>1, <1>2
  <2>2. \A i \in 1..take : frames[i] \in Nat  BY <2>1, ElementOfSeq
  <2>3. Len(SubSeq(frames, 1, take)) = IF 1 <= take THEN take - 1 + 1 ELSE 0
    BY <1>2, <2>2, SubSeqProperties
  <2>4. QED  BY <1>2, <2>3
<1>5. Len(Filling) = 0  BY <1>1, EmptySeq DEF Filling
<1>6. Len(Filling') = take
  <2>1. CASE take = 0
    <3>1. Filling' = <<>>  BY <1>3, <2>1 DEF Filling
    <3>2. QED  BY <2>1, <3>1, EmptySeq
  <2>2. CASE take # 0
    <3>1. fill' # Idle /\ fill'.frames = SubSeq(frames, 1, take)  BY <1>3, <2>2 DEF Idle
    <3>2. QED  BY <1>4, <3>1 DEF Filling
  <2>3. QED  BY <2>1, <2>2
<1>7. QED  BY <1>1, <1>2, <1>3, <1>5, <1>6

\* What is under way is published whole, and nothing else moves the count.
LEMMA MovedAccounted ==
  ASSUME RingInv, Fill \/ Cycle \/ Drain
  PROVE  refused' + write' + Len(Filling') = refused + write + Len(Filling)
<1>1. CASE FillCopy
  <2>1. fill \in Fills /\ fill # Idle /\ refused' = refused /\ write' = write
        /\ fill' = [fill EXCEPT !.phase = "publish"]
    BY <1>1 DEF RingInv, RingTypeOK, FillCopy, Idle
  <2>2. fill' # Idle /\ fill'.frames = fill.frames  BY <2>1 DEF Fills, Idle
  <2>3. Filling' = Filling  BY <2>1, <2>2 DEF Filling
  <2>4. QED  BY <2>1, <2>3
<1>2. CASE FillPublish
  <2>1. fill \in Fills /\ fill # Idle /\ refused' = refused /\ fill' = Idle
        /\ write' = fill.at + Len(fill.frames)
    BY <1>2 DEF RingInv, RingTypeOK, FillPublish, Idle
  <2>2. fill.at = write  BY <2>1 DEF RingInv, RegionsHeld
  <2>3. write \in Nat /\ refused \in Nat /\ Len(fill.frames) \in Nat
    BY <2>1 DEF RingInv, RingTypeOK, Fills
  <2>4. Filling = fill.frames /\ Filling' = <<>>  BY <2>1 DEF Filling
  <2>5. Len(Filling') = 0 /\ Len(Filling) = Len(fill.frames)  BY <2>4, EmptySeq
  <2>6. write' = write + Len(fill.frames) /\ refused' = refused  BY <2>1, <2>2
  <2> DEFINE n == Len(fill.frames)
  <2>7. n \in Nat /\ Len(Filling') = 0 /\ Len(Filling) = n /\ write' = write + n
    BY <2>3, <2>5, <2>6
  <2> HIDE DEF n
  <2>8. QED  BY <2>3, <2>6, <2>7
<1>3. CASE Cycle \/ Drain
  <2>1. fill' = fill /\ refused' = refused /\ write' = write
    BY <1>3 DEF Cycle, Drain, DrainBegin, DrainCopy, DrainPublish
  <2>2. Filling' = Filling  BY <2>1 DEF Filling
  <2>3. QED  BY <2>1, <2>2
<1>4. QED  BY <1>1, <1>2, <1>3 DEF Fill

LEMMA RingStep ==
  ASSUME AudioInv, RingAccounted, [Next]_vars
  PROVE  RingAccounted'
<1> DEFINE flow == refused + write + Len(Filling)
<1>1. RingInv /\ BufferInv /\ counts \in CountsType /\ FrameSamples \in Nat /\ cursor \in Nat
  BY JitterAssumption DEF AudioInv, BufferInv, BufferTypeOK
<1>2. /\ pulls \in Nat /\ failures \in Nat /\ pulls = counts.played + counts.concealed
      /\ FrameSamples * (pulls - failures) = flow
  BY DEF RingAccounted
<1>3. counts.played \in Nat /\ counts.concealed \in Nat  BY <1>1 DEF CountsType
<1>4. flow \in Nat
  <2>1. Filling \in Seq(Nat)  BY <1>1, CarriedTyped
  <2>2. Len(Filling) \in Nat  BY <2>1, LenProperties
  <2>3. refused \in Nat /\ write \in Nat  BY <1>1 DEF RingInv, RingTypeOK
  <2>4. QED  BY <2>2, <2>3
<1> HIDE DEF flow
<1>5. CASE UNCHANGED vars
  BY <1>5 DEF vars, linkVars, bufferVars, ringVars, RingAccounted, Filling
<1>6. CASE \E i \in DOMAIN stream : Receive(i)
  <2>1. PICK i \in DOMAIN stream : Receive(i)  BY <1>6
  <2>2. Push(Packet(i)) /\ UNCHANGED ringVars /\ pulls' = pulls /\ failures' = failures
    BY <2>1 DEF Receive
  <2>3. Packet(i) \in [seq : 0..(SeqModulus - 1), tick : Nat]  BY PacketTyped
  <2>4. counts'.played = counts.played /\ counts'.concealed = counts.concealed
    BY <1>1, <2>2, <2>3, PushCounts
  <2>5. flow' = flow  BY <2>2 DEF ringVars, flow, Filling
  <2>6. QED  BY <1>2, <2>2, <2>4, <2>5 DEF RingAccounted, flow
<1>7. CASE Produce
  <2> DEFINE frames == Samples(cursor)
  <2>1. Pull /\ FillBegin(frames) /\ pulls' = pulls + 1 /\ failures' = failures
    BY <1>7 DEF Produce
  <2>2. frames \in Seq(Nat) /\ Len(frames) = FrameSamples
    <3>1. frames \in [1..FrameSamples -> Nat]  BY <1>1 DEF Samples
    <3> HIDE DEF frames
    <3>2. frames \in Seq(Nat) /\ DOMAIN frames = 1..FrameSamples  BY <1>1, <3>1
    <3>3. QED  BY <1>1, <3>2, LenProperties
  <2>3. flow' = flow + FrameSamples
    <3> HIDE DEF frames
    <3>1. refused' + write' + Len(Filling') = refused + write + Len(Filling) + Len(frames)
      BY <1>1, <2>1, <2>2, OfferedAccounted
    <3>2. QED  BY <2>2, <3>1 DEF flow
  <2>4. counts'.played + counts'.concealed = counts.played + counts.concealed + 1
    BY <1>1, <2>1, PullCounts
  <2>5. FrameSamples * (pulls' - failures') = FrameSamples * (pulls - failures) + FrameSamples
    <3>1. pulls' - failures' = (pulls - failures) + 1  BY <1>2, <2>1
    <3>2. pulls - failures \in Int  BY <1>2
    <3>3. FrameSamples * ((pulls - failures) + 1) = FrameSamples * (pulls - failures) + FrameSamples
      BY <1>1, <3>2
    <3>4. QED  BY <3>1, <3>3
  <2>6. pulls' \in Nat /\ failures' \in Nat /\ pulls' = counts'.played + counts'.concealed
    BY <1>2, <2>1, <2>4
  <2>7. FrameSamples * (pulls' - failures') = flow'  BY <1>2, <2>3, <2>5
  <2>8. QED  BY <2>6, <2>7 DEF RingAccounted, flow
<1>8. CASE FailToDecode
  <2>1. Pull /\ UNCHANGED ringVars /\ pulls' = pulls + 1 /\ failures' = failures + 1
    BY <1>8 DEF FailToDecode
  <2>2. flow' = flow  BY <2>1 DEF ringVars, flow, Filling
  <2>3. counts'.played + counts'.concealed = counts.played + counts.concealed + 1
    BY <1>1, <2>1, PullCounts
  <2>4. pulls' - failures' = pulls - failures  BY <1>2, <2>1
  <2>5. pulls' \in Nat /\ failures' \in Nat /\ pulls' = counts'.played + counts'.concealed
    BY <1>2, <2>1, <2>3
  <2>6. FrameSamples * (pulls' - failures') = flow'  BY <1>2, <2>2, <2>4
  <2>7. QED  BY <2>5, <2>6 DEF RingAccounted, flow
<1>9. CASE Fill \/ Cycle \/ Drain
  <2>1. UNCHANGED <<bufferVars, linkVars>>  BY <1>9 DEF Fill, Cycle, Drain
  <2>2. flow' = flow  BY <1>1, <1>9, MovedAccounted DEF flow
  <2>3. pulls' = pulls /\ failures' = failures /\ counts' = counts  BY <2>1 DEF bufferVars, linkVars
  <2>4. QED  BY <1>2, <2>2, <2>3 DEF RingAccounted, flow
<1>10. CASE Elsewhere
  <2>1. UNCHANGED <<bufferVars, ringVars>>  BY <1>10, ElsewhereRests
  <2>2. pulls' = pulls /\ failures' = failures
    BY <1>10 DEF Elsewhere, StopListening, GiveUpProducing, StartProducing, EndProducing, Refuse, Await,
         StartDevice, DeviceFails, StopRun, StopDevice, Finish, MainOnly
  <2>3. QED  BY <2>1, <2>2 DEF RingAccounted, Filling, bufferVars, ringVars
<1>11. QED  BY <1>5, <1>6, <1>7, <1>8, <1>9, <1>10, NextCases

-----------------------------------------------------------------------------
(* The span of the numbers heard, and of their ticks. *)

\* A sender's clock moves a frame a packet: two packets whole frames apart are
\* as many numbers apart.  A tick may be off the grid of the others.
TicksSteady ==
  \A s \in Streams : \A i, j \in DOMAIN s :
     (s[i] - s[j]) % FrameSamples = 0 => s[i] - s[j] = FrameSamples * (i - j)

\* A packet that arrives is less than half a circle of numbers away from the
\* furthest heard, so the signed distance tells which came first.
Timely(i) ==
  firstTick # NotYet =>
    /\ 2 * (stream[i] - (firstTick + tickSpan)) < FrameSamples * SeqModulus
    /\ 2 * ((firstTick + tickSpan) - stream[i]) < FrameSamples * SeqModulus
ArrivalsTimely == \A i \in DOMAIN stream : Receive(i) => Remembered(i) /\ Timely(i)

\* The numbers and the ticks heard reach from packet b to packet h.
Spans(b, h) ==
  /\ b <= h /\ stream[b] = firstTick /\ tickSpan = FrameSamples * (h - b)
  /\ loss.base = Packet(b).seq /\ loss.highest = Packet(h).seq
  /\ loss.span = h - b + 1 /\ loss.cycles + loss.highest - loss.base = h - b

LossType == [base : Int, highest : Int, cycles : Int, span : Int, unique : Int]

SpanAccounted ==
  /\ loss \in LossType
  /\ firstTick = anchor
  /\ loss.unique = counts.received - counts.duplicate
  /\ anchor = NotYet => loss.base = NotYet /\ loss.cycles = 0 /\ loss.span = 0 /\ tickSpan = 0
  /\ anchor # NotYet => loss.base # NotYet
  /\ counts.offGrid = 0 /\ anchor # NotYet => \E b, h \in DOMAIN stream : Spans(b, h)

LEMMA SteadyIsDistinct == TicksSteady => TicksDistinct
<1> SUFFICES ASSUME TicksSteady, NEW s \in Streams, NEW i \in DOMAIN s, NEW j \in DOMAIN s, s[i] = s[j]
             PROVE  i = j
  BY DEF TicksDistinct
<1>1. s \in Seq(Nat)  BY AudioAssumption
<1>2. i \in Nat /\ j \in Nat /\ s[i] \in Nat  BY <1>1, ElementOfSeq
<1>3. FrameSamples \in Nat \ {0}  BY JitterAssumption
<1>4. s[i] - s[j] = 0  BY <1>2
<1>5. (s[i] - s[j]) % FrameSamples = 0  BY <1>3, <1>4
<1>6. FrameSamples * (i - j) = 0  BY <1>4, <1>5 DEF TicksSteady
<1>7. i - j \in Int  BY <1>2
<1>8. i - j = 0
  <2> DEFINE k == i - j
  <2>1. k \in Int /\ FrameSamples * k = 0  BY <1>6, <1>7
  <2> HIDE DEF k
  <2>2. k >= 1 => FrameSamples * k > 0  BY <1>3, <2>1
  <2>3. k =< -1 => FrameSamples * k < 0  BY <1>3, <2>1
  <2>4. k = 0  BY <2>1, <2>2, <2>3
  <2>5. QED  BY <2>4 DEF k
<1>9. QED  BY <1>2, <1>8

LEMMA Cancel ==
  ASSUME NEW n \in Nat \ {0}, NEW a \in Int, NEW b \in Int
  PROVE  (n * a < n * b) <=> a < b
<1>1. a < b => n * a < n * b
  <2> SUFFICES ASSUME a < b PROVE n * a < n * b  OBVIOUS
  <2>1. b - a >= 1 /\ b - a \in Int  OBVIOUS
  <2>2. n * (b - a) >= n  BY <2>1
  <2>3. n * (b - a) = n * b - n * a  OBVIOUS
  <2>4. n * a \in Int /\ n * b \in Int  OBVIOUS
  <2>5. QED  BY <2>2, <2>3, <2>4
<1>2. ~(a < b) => ~(n * a < n * b)
  <2> SUFFICES ASSUME ~(a < b) PROVE n * a >= n * b  OBVIOUS
  <2>1. a - b >= 0 /\ a - b \in Int  OBVIOUS
  <2>2. n * (a - b) >= 0  BY <2>1
  <2>3. n * (a - b) = n * a - n * b  OBVIOUS
  <2>4. n * a \in Int /\ n * b \in Int  OBVIOUS
  <2>5. QED  BY <2>2, <2>3, <2>4
<1>3. QED  BY <1>1, <1>2

\* An arrival leaves the anchor as a copy does, or as a first packet would.
LEMMA PushAnchors ==
  ASSUME NEW p, Push(p)
  PROVE  IF IsSeen(p) THEN anchor' = anchor ELSE anchor' = AnchorWith(p)
BY DEF Push, Duplicate, OffGrid, Late, Queue, Arrive

\* Which packets a new one on the grid makes the furthest apart heard.
LEMMA SpanGrows ==
  ASSUME TicksSteady, AudioInv, SpanAccounted,
         NEW b \in DOMAIN stream, NEW h \in DOMAIN stream, Spans(b, h),
         NEW i \in DOMAIN stream, Receive(i), ~IsSeen(Packet(i)), Timely(i),
         anchor # NotYet, (stream[i] - anchor) % FrameSamples = 0
  PROVE  (IF i > h THEN Spans(b, i) ELSE Spans(b, h))'
<1> DEFINE p == Packet(i)
           f == FrameSamples
<1>1. /\ stream \in Streams /\ stream' = stream /\ stream \in Seq(Nat)
      /\ b \in Nat \ {0} /\ h \in Nat \ {0} /\ i \in Nat \ {0}
      /\ stream[b] \in Nat /\ stream[h] \in Nat /\ stream[i] \in Nat
      /\ p.tick = stream[i] /\ p.seq = (FirstSeq + i - 1) % SeqModulus
      /\ Packet(h).seq = (FirstSeq + h - 1) % SeqModulus
      /\ p.seq \in 0..(SeqModulus - 1)
  BY PacketTyped DEF AudioInv, Receive
<1>2. /\ b <= h /\ stream[b] = firstTick /\ tickSpan = f * (h - b)
      /\ loss.base = Packet(b).seq /\ loss.highest = Packet(h).seq
      /\ loss.span = h - b + 1 /\ loss.cycles + loss.highest - loss.base = h - b
  BY DEF Spans
<1>3. /\ loss \in LossType /\ firstTick = anchor /\ loss.base # NotYet
      /\ loss' = LossArrived(p.seq) /\ Produced(p.tick)
  BY DEF SpanAccounted, Receive
<1>4. f \in Nat \ {0} /\ SeqModulus \in Nat \ {0} /\ FirstSeq \in Nat
  BY JitterAssumption, AudioAssumption
<1>0. i \in Nat /\ h \in Nat /\ b \in Nat /\ SeqModulus \in Nat /\ FirstSeq \in Nat  BY <1>1, <1>4
<1>5. stream[i] - firstTick = f * (i - b)
  <2>1. (stream[i] - stream[b]) % f = 0  BY <1>2, <1>3
  <2>2. QED  BY <1>1, <1>2, <2>1 DEF TicksSteady
<1>6. /\ i - b \in Int /\ h - b \in Int /\ i - h \in Int
      /\ f * (i - b) \in Int /\ f * (h - b) \in Int /\ f * (i - h) \in Int
      /\ f * (i - b) - f * (h - b) = f * (i - h)
  <2>1. i - b \in Int /\ h - b \in Int /\ i - h \in Int  BY <1>0
  <2>2. f * ((h - b) + (i - h)) = f * (h - b) + f * (i - h)  BY <1>4, <2>1
  <2>3. (h - b) + (i - h) = i - b  BY <1>0
  <2>4. f * (i - b) \in Int /\ f * (h - b) \in Int /\ f * (i - h) \in Int  BY <1>4, <2>1
  <2>5. QED  BY <2>1, <2>2, <2>3, <2>4
<1>7. 2 * (i - h) < SeqModulus /\ 2 * (h - i) < SeqModulus
  <2>1. stream[i] - (firstTick + tickSpan) = f * (i - h)
    <3>1. firstTick \in Int  BY <1>1, <1>2
    <3>2. stream[i] \in Int /\ tickSpan = f * (h - b)  BY <1>1, <1>2
    <3>3. QED  BY <1>5, <1>6, <3>1, <3>2
  <2>2. (firstTick + tickSpan) - stream[i] = f * (h - i)
    <3>1. firstTick \in Int /\ tickSpan \in Int  BY <1>1, <1>2, <1>6
    <3>2. f * (h - i) = -(f * (i - h))
      <4> DEFINE k == i - h
                 l == h - i
      <4>1. k \in Int /\ l = -k  BY <1>0
      <4> HIDE DEF k, l
      <4>2. f * l = -(f * k)  BY <1>4, <4>1
      <4>3. QED  BY <4>2 DEF k, l
    <3>3. stream[i] \in Int  BY <1>1
    <3>4. QED  BY <1>6, <2>1, <3>1, <3>2, <3>3
  <2>3. 2 * (f * (i - h)) < f * SeqModulus /\ 2 * (f * (h - i)) < f * SeqModulus
    BY <1>3, <2>1, <2>2 DEF Timely
  <2>4. 2 * (f * (i - h)) = f * (2 * (i - h)) /\ 2 * (f * (h - i)) = f * (2 * (h - i))
    <3> DEFINE k == i - h
               l == h - i
    <3>1. k \in Int /\ l \in Int  BY <1>0
    <3> HIDE DEF k, l
    <3>2. 2 * (f * k) = f * (2 * k) /\ 2 * (f * l) = f * (2 * l)  BY <1>4, <3>1
    <3>3. QED  BY <3>2 DEF k, l
  <2>5. f * (2 * (i - h)) < f * SeqModulus /\ f * (2 * (h - i)) < f * SeqModulus  BY <2>3, <2>4
  <2>6. 2 * (i - h) \in Int /\ 2 * (h - i) \in Int /\ SeqModulus \in Int  BY <1>0
  <2> DEFINE u == 2 * (i - h)
             v == 2 * (h - i)
  <2>7. u \in Int /\ v \in Int /\ f * u < f * SeqModulus /\ f * v < f * SeqModulus  BY <2>5, <2>6
  <2> HIDE DEF u, v, f
  <2>8. u < SeqModulus /\ v < SeqModulus  BY <1>4, <2>6, <2>7, Cancel
  <2>9. QED  BY <2>8 DEF u, v
<1>8. /\ SeqDistance(p.seq, loss.highest) = i - h
      /\ i > h => (IF p.seq < loss.highest THEN SeqModulus ELSE 0) + p.seq - loss.highest = i - h
  <2> DEFINE a == FirstSeq + i - 1
             c == FirstSeq + h - 1
  <2>1. a \in Int /\ c \in Int /\ a - c = i - h /\ c - a = h - i /\ (a > c <=> i > h)  BY <1>0
  <2>2. p.seq = a % SeqModulus /\ loss.highest = c % SeqModulus  BY <1>1, <1>2
  <2> HIDE DEF a, c, p
  <2>3. 2 * (a - c) < SeqModulus /\ 2 * (c - a) < SeqModulus  BY <1>7, <2>1
  <2>4. /\ SeqDistance(a % SeqModulus, c % SeqModulus) = a - c
        /\ a > c => (IF a % SeqModulus < c % SeqModulus THEN SeqModulus ELSE 0)
                      + (a % SeqModulus) - (c % SeqModulus) = a - c
    BY <2>1, <2>3, DistanceIsTrue
  <2>5. QED  BY <2>1, <2>2, <2>4
<1>9. firstTick' = firstTick
      /\ tickSpan' = IF stream[i] - firstTick > tickSpan THEN stream[i] - firstTick ELSE tickSpan
  BY <1>1, <1>3 DEF Produced
<1>10. (i > h <=> stream[i] - firstTick > tickSpan)
  <2>1. f * (h - b) < f * (i - b) <=> h - b < i - b  BY <1>4, <1>6, Cancel
  <2>2. h - b < i - b <=> i > h  BY <1>0
  <2>3. QED  BY <1>2, <1>5, <1>6, <2>1, <2>2
<1>11. Packet(b)' = Packet(b) /\ Packet(h)' = Packet(h) /\ Packet(i)' = Packet(i)
  BY <1>1 DEF Packet
<1>12. CASE i > h
  <2>1. tickSpan' = f * (i - b)  BY <1>5, <1>9, <1>10, <1>12
  <2> DEFINE wrap == IF p.seq < loss.highest THEN SeqModulus ELSE 0
             wrapped == loss.cycles + wrap
  <2>2. SeqDistance(p.seq, loss.highest) > 0  BY <1>1, <1>8, <1>12
  <2>3. /\ loss'.base = loss.base /\ loss'.highest = p.seq /\ loss'.cycles = wrapped
        /\ loss'.span = wrapped + p.seq - loss.base + 1
    <3>1. loss' = [loss EXCEPT !.highest = p.seq, !.cycles = wrapped, !.unique = @ + 1,
                          !.span = wrapped + p.seq - loss.base + 1]
      <4>1. ~(SeqDistance(p.seq, loss.highest) =< 0)  BY <1>1, <1>8, <2>2
      <4>2. QED  BY <1>3, <4>1 DEF LossArrived
    <3> HIDE DEF p, wrapped
    <3>2. QED  BY <1>3, <3>1 DEF LossType
  <2>4. wrap + p.seq - loss.highest = i - h  BY <1>8, <1>12
  <2>5. /\ loss.cycles \in Int /\ loss.highest \in Int /\ loss.base \in Int /\ p.seq \in Int
        /\ wrap \in Int
    BY <1>1, <1>3, <1>4 DEF LossType
  <2>6. wrapped + p.seq - loss.base = i - b
    <3> HIDE DEF p, wrap
    <3>1. loss.cycles + loss.highest - loss.base = h - b  BY <1>2
    <3> DEFINE s == p.seq
               c == loss.cycles
               t == loss.highest
               r == loss.base
    <3>2. /\ c + t - r = h - b /\ wrap + s - t = i - h
          /\ c \in Int /\ t \in Int /\ r \in Int /\ s \in Int /\ wrap \in Int
      BY <2>4, <2>5, <3>1
    <3> HIDE DEF s, c, t, r
    <3>3. (c + wrap) + s - r = i - b  BY <1>0, <3>2
    <3>4. QED  BY <3>3 DEF s, c, t, r
  <2>7. b <= i  BY <1>1, <1>2, <1>12
  <2> HIDE DEF wrapped
  <2>8. loss'.span = i - b + 1 /\ loss'.cycles + loss'.highest - loss'.base = i - b
    BY <2>3, <2>6
  <2>9. Spans(b, i)'
    BY <1>1, <1>2, <1>9, <1>11, <2>1, <2>3, <2>7, <2>8 DEF Spans
  <2>10. QED  BY <1>12, <2>9
<1>13. CASE ~(i > h)
  <2>1. tickSpan' = tickSpan  BY <1>9, <1>10, <1>13
  <2>2. SeqDistance(p.seq, loss.highest) =< 0  BY <1>1, <1>8, <1>13
  <2>3. loss' = [loss EXCEPT !.unique = @ + 1]  BY <1>3, <2>2 DEF LossArrived
  <2>4. /\ loss'.base = loss.base /\ loss'.highest = loss.highest /\ loss'.cycles = loss.cycles
        /\ loss'.span = loss.span
    BY <1>3, <2>3 DEF LossType
  <2>5. Spans(b, h)'
    BY <1>1, <1>2, <1>9, <1>11, <2>1, <2>4 DEF Spans
  <2>6. QED  BY <1>13, <2>5
<1>14. QED  BY <1>12, <1>13

LEMMA ReceivedSpan ==
  ASSUME TicksSteady, AudioInv, SpanAccounted, NEW i \in DOMAIN stream, Receive(i), Timely(i)
  PROVE  SpanAccounted'
<1> DEFINE p == Packet(i)
<1>1. /\ BufferInv /\ Push(p) /\ stream' = stream /\ stream \in Streams /\ stream \in Seq(Nat)
      /\ i \in Nat /\ stream[i] \in Nat /\ p.tick = stream[i] /\ p.seq \in 0..(SeqModulus - 1)
      /\ p.seq = (FirstSeq + i - 1) % SeqModulus
      /\ p \in [seq : 0..(SeqModulus - 1), tick : Nat]
  BY PacketTyped DEF AudioInv, Receive
<1>2. /\ counts'.received = counts.received + 1 /\ Admitted(p)
      /\ IF IsSeen(p) THEN anchor' = anchor ELSE anchor' = AnchorWith(p)
  <2> HIDE DEF p
  <2>1. QED  BY <1>1, PushCounts, PushAnchors
<1>3. /\ loss \in LossType /\ firstTick = anchor
      /\ loss.unique = counts.received - counts.duplicate
      /\ anchor = NotYet => loss.base = NotYet /\ loss.cycles = 0 /\ loss.span = 0
      /\ anchor # NotYet => loss.base # NotYet
      /\ counts.offGrid = 0 /\ anchor # NotYet => \E b, h \in DOMAIN stream : Spans(b, h)
  BY DEF SpanAccounted
<1>4. /\ counts.received \in Nat /\ counts.duplicate \in Nat /\ counts.offGrid \in Nat
      /\ anchor \in Nat \cup {NotYet}
  BY <1>1 DEF BufferInv, BufferTypeOK, CountsType
<1>5. CASE IsSeen(p)
  <2>1. /\ counts'.duplicate = counts.duplicate + 1 /\ counts'.offGrid = counts.offGrid
        /\ anchor' = anchor
    <3> HIDE DEF p
    <3>1. QED  BY <1>2, <1>5 DEF Admitted, Arrive
  <2>2. UNCHANGED <<loss, firstTick, tickSpan>>  BY <1>5 DEF Receive
  <2>3. counts'.received - counts'.duplicate = counts.received - counts.duplicate
    BY <1>2, <1>4, <2>1
  <2>4. \A b, h : Spans(b, h) => Spans(b, h)'  BY <1>1, <2>2 DEF Spans, Packet
  <2>5. counts'.offGrid = 0 /\ anchor' # NotYet => \E b, h \in DOMAIN stream' : Spans(b, h)'
    BY <1>1, <1>3, <2>1, <2>4
  <2>6. QED  BY <1>3, <2>1, <2>2, <2>3, <2>5 DEF SpanAccounted
<1>6. CASE ~IsSeen(p)
  <2>1. /\ counts'.duplicate = counts.duplicate
        /\ counts'.offGrid \in Nat /\ counts'.offGrid >= counts.offGrid
        /\ counts'.offGrid = 0 => OnGrid(p) /\ counts.offGrid = 0
    <3> HIDE DEF p
    <3>1. QED  BY <1>2, <1>4, <1>6 DEF Admitted
  <2>2. anchor' = AnchorWith(p) /\ anchor' \in Nat  BY <1>1, <1>2, <1>4, <1>6 DEF AnchorWith, NotYet
  <2>3. loss' = LossArrived(p.seq) /\ Produced(p.tick)  BY <1>6 DEF Receive
  <2>4. firstTick' = anchor'  BY <1>3, <2>2, <2>3 DEF Produced, AnchorWith
  <2>5. loss' \in LossType /\ loss'.unique = loss.unique + 1 /\ loss'.base # NotYet
    <3> DEFINE s == p.seq
               wrapped == loss.cycles + (IF s < loss.highest THEN SeqModulus ELSE 0)
    <3>1. s \in Nat /\ SeqModulus \in Nat  BY <1>1, JitterAssumption
    <3>2. wrapped \in Int  BY <1>3, <3>1 DEF LossType
    <3>3. \/ /\ loss.base = NotYet
             /\ loss' = [loss EXCEPT !.base = s, !.highest = s, !.span = 1, !.unique = @ + 1]
          \/ /\ loss.base # NotYet
             /\ \/ loss' = [loss EXCEPT !.unique = @ + 1]
                \/ loss' = [loss EXCEPT !.highest = s, !.cycles = wrapped, !.unique = @ + 1,
                                        !.span = wrapped + s - loss.base + 1]
      BY <2>3 DEF LossArrived
    <3> HIDE DEF s, wrapped
    <3> DEFINE spanned == wrapped + s - loss.base + 1
               next == loss.unique + 1
    <3>4. spanned \in Int /\ next \in Int
      <4>1. loss.base \in Int /\ loss.unique \in Int  BY <1>3 DEF LossType
      <4>2. QED  BY <3>1, <3>2, <4>1
    <3>5. s \in Int /\ s # NotYet  BY <3>1 DEF NotYet
    <3>6. \/ /\ loss.base = NotYet
             /\ loss' = [loss EXCEPT !.base = s, !.highest = s, !.span = 1, !.unique = next]
          \/ /\ loss.base # NotYet
             /\ \/ loss' = [loss EXCEPT !.unique = next]
                \/ loss' = [loss EXCEPT !.highest = s, !.cycles = wrapped, !.unique = next,
                                        !.span = spanned]
      BY <3>3
    <3> HIDE DEF spanned, next
    <3>7. loss' \in LossType /\ loss'.unique = next /\ loss'.base # NotYet
      <4>1. loss \in LossType  BY <1>3
      <4>2. CASE /\ loss' = [loss EXCEPT !.base = s, !.highest = s, !.span = 1, !.unique = next]
        <5>0. loss' = [base |-> s, highest |-> s, cycles |-> loss.cycles, span |-> 1, unique |-> next]
          BY <4>1, <4>2 DEF LossType
        <5>1. loss' \in LossType
          <6>1. loss.cycles \in Int  BY <4>1 DEF LossType
          <6>2. QED  BY <3>4, <3>5, <5>0, <6>1 DEF LossType
        <5>2. loss'.base = s /\ loss'.unique = next  BY <4>1, <4>2 DEF LossType
        <5>3. QED  BY <3>5, <5>1, <5>2
      <4>3. CASE loss.base # NotYet /\ loss' = [loss EXCEPT !.unique = next]
        <5>1. loss' \in LossType  BY <3>4, <4>1, <4>3 DEF LossType
        <5>2. loss'.base = loss.base /\ loss'.unique = next  BY <4>1, <4>3 DEF LossType
        <5>3. QED  BY <4>3, <5>1, <5>2
      <4>4. CASE /\ loss.base # NotYet
                 /\ loss' = [loss EXCEPT !.highest = s, !.cycles = wrapped, !.unique = next,
                                         !.span = spanned]
        <5>1. loss' \in LossType  BY <3>2, <3>4, <3>5, <4>1, <4>4 DEF LossType
        <5>2. loss'.base = loss.base /\ loss'.unique = next  BY <4>1, <4>4 DEF LossType
        <5>3. QED  BY <4>4, <5>1, <5>2
      <4>5. QED  BY <3>6, <4>2, <4>3, <4>4
    <3>8. QED  BY <3>7 DEF next
  <2>6. loss'.unique = counts'.received - counts'.duplicate
    BY <1>2, <1>3, <1>4, <2>1, <2>5
  <2>7. ASSUME counts'.offGrid = 0 PROVE \E b, h \in DOMAIN stream' : Spans(b, h)'
    <3>1. OnGrid(p) /\ counts.offGrid = 0  BY <2>1, <2>7
    <3>2. CASE anchor = NotYet
      <4>1. /\ firstTick' = stream[i] /\ tickSpan' = tickSpan
        BY <1>1, <1>3, <2>3, <3>2 DEF Produced
      <4>2. loss' = [loss EXCEPT !.base = p.seq, !.highest = p.seq, !.span = 1, !.unique = @ + 1]
        BY <1>3, <2>3, <3>2 DEF LossArrived
      <4>3. /\ loss'.base = p.seq /\ loss'.highest = p.seq /\ loss'.span = 1 /\ loss'.cycles = 0
        <5> HIDE DEF p
        <5>1. QED  BY <1>3, <3>2, <4>2 DEF LossType
      <4>4. p' = p  BY <1>1 DEF Packet
      <4>5. i - i = 0 /\ i - i + 1 = 1 /\ FrameSamples * (i - i) = 0 /\ i <= i
            /\ 0 + p.seq - p.seq = 0
        <5>1. p.seq \in Int  BY <1>1
        <5> HIDE DEF p
        <5>2. QED  BY <1>1, <5>1, JitterAssumption
      <4>6. tickSpan = 0  BY <3>2 DEF SpanAccounted
      <4>7. Spans(i, i)'
        BY <1>1, <4>1, <4>3, <4>4, <4>5, <4>6 DEF Spans
      <4>8. QED  BY <1>1, <4>7
    <3>3. CASE anchor # NotYet
      <4>1. PICK b \in DOMAIN stream, h \in DOMAIN stream : Spans(b, h)  BY <1>3, <3>1, <3>3
      <4>2. (stream[i] - anchor) % FrameSamples = 0  BY <1>1, <3>1, <3>3 DEF OnGrid, AnchorWith
      <4>3. (IF i > h THEN Spans(b, i) ELSE Spans(b, h))'
        BY <1>6, <3>3, <4>1, <4>2, SpanGrows
      <4>4. QED  BY <1>1, <4>3
    <3>4. QED  BY <3>2, <3>3
  <2>8. QED  BY <2>2, <2>4, <2>5, <2>6, <2>7 DEF SpanAccounted, NotYet
<1>7. QED  BY <1>5, <1>6

LEMMA SpanRests ==
  ASSUME SpanAccounted, UNCHANGED <<stream, loss, firstTick, tickSpan, anchor>>,
         counts'.received = counts.received, counts'.duplicate = counts.duplicate,
         counts'.offGrid = counts.offGrid
  PROVE  SpanAccounted'
<1>1. \A b, h : Spans(b, h) => Spans(b, h)'  BY DEF Spans, Packet
<1>2. (\E b, h \in DOMAIN stream : Spans(b, h)) => \E b, h \in DOMAIN stream' : Spans(b, h)'
  BY <1>1
<1>3. QED  BY <1>2 DEF SpanAccounted

LEMMA SpanStep ==
  ASSUME TicksSteady, AudioInv, SpanAccounted, [Next]_vars, [ArrivalsTimely]_vars
  PROVE  SpanAccounted'
<1>1. CASE UNCHANGED vars
  <2>1. UNCHANGED <<stream, loss, firstTick, tickSpan, anchor, counts>>
    BY <1>1 DEF vars, linkVars, bufferVars
  <2>2. QED  BY <2>1, SpanRests
<1>2. CASE Next /\ ArrivalsTimely
  <2>1. CASE \E i \in DOMAIN stream : Receive(i)
    <3>1. PICK i \in DOMAIN stream : Receive(i)  BY <2>1
    <3>2. Timely(i)  BY <1>2, <3>1 DEF ArrivalsTimely
    <3>3. QED  BY <3>1, <3>2, ReceivedSpan
  <2>2. CASE Produce \/ FailToDecode
    <3>1. Pull /\ UNCHANGED <<stream, loss, firstTick, tickSpan>>
      BY <2>2 DEF Produce, FailToDecode, ProducerOnly
    <3>2. /\ counts'.received = counts.received /\ counts'.duplicate = counts.duplicate
          /\ counts'.offGrid = counts.offGrid /\ anchor' = anchor
      BY <3>1, PullCounts DEF AudioInv
    <3>3. QED  BY <3>1, <3>2, SpanRests
  <2>3. CASE Fill \/ Cycle \/ Drain
    <3>1. UNCHANGED <<stream, loss, firstTick, tickSpan, anchor, counts>>
      BY <2>3 DEF Fill, Cycle, Drain, bufferVars, linkVars
    <3>2. QED  BY <3>1, SpanRests
  <2>4. CASE Elsewhere
    <3>1. UNCHANGED <<stream, loss, firstTick, tickSpan>>
      BY <2>4 DEF Elsewhere, StopListening, GiveUpProducing, StartProducing, EndProducing, Refuse, Await,
           StartDevice, DeviceFails, StopRun, StopDevice, Finish, MainOnly, ProducerOnly
    <3>2. UNCHANGED <<anchor, counts>>  BY <2>4, ElsewhereRests DEF bufferVars
    <3>3. QED  BY <3>1, <3>2, SpanRests
  <2>5. QED  BY <1>2, <2>1, <2>2, <2>3, <2>4, NextCases
<1>3. QED  BY <1>1, <1>2

-----------------------------------------------------------------------------
(* The account of the samples. *)

SamplesInv == ArrivalsInv /\ RingAccounted /\ SpanAccounted

LEMMA SamplesStart == Init => SamplesInv
<1> SUFFICES ASSUME Init PROVE SamplesInv  OBVIOUS
<1>1. ArrivalsInv  BY ArrivalsStart
<1>2. /\ counts.played = 0 /\ counts.concealed = 0 /\ counts.received = 0 /\ counts.duplicate = 0
      /\ anchor = NotYet
  BY DEF Init, BufferInit
<1>3. write = 0 /\ refused = 0 /\ fill = Idle  BY DEF Init, RingInit
<1>4. Len(Filling) = 0  BY <1>3, EmptySeq DEF Filling
<1>5. pulls = 0 /\ failures = 0 /\ firstTick = NotYet /\ tickSpan = 0
      /\ loss = [base |-> NotYet, highest |-> NotYet, cycles |-> 0, span |-> 0, unique |-> 0]
  BY DEF Init
<1>6. FrameSamples * (0 - 0) = 0  BY JitterAssumption
<1>7. RingAccounted  BY <1>2, <1>3, <1>4, <1>5, <1>6 DEF RingAccounted
<1>8. SpanAccounted  BY <1>2, <1>5 DEF SpanAccounted, LossType, NotYet
<1>9. QED  BY <1>1, <1>7, <1>8 DEF SamplesInv

\* With the frames in numbers and the ring's in samples, nothing is missing.
LEMMA SamplesAddUp == SamplesInv => SamplesBalance
<1> SUFFICES ASSUME SamplesInv, fill = Idle, counts.offGrid = 0
             PROVE  Residual = -FrameSamples * Unexpected
  BY DEF SamplesBalance
<1> DEFINE f == FrameSamples
           played == counts.played
           concealed == counts.concealed
           late == counts.late
           skipped == counts.skipped
           span == loss.span
           unique == loss.unique
           held == Occupied
           sent == ProducedSamples
<1>1. AudioInv /\ BufferInv /\ RingInv  BY DEF SamplesInv, ArrivalsInv, AudioInv
<1>2. f \in Nat \ {0}  BY JitterAssumption
<1>3. /\ played \in Nat /\ concealed \in Nat /\ late \in Nat /\ skipped \in Nat
      /\ counts.received \in Nat /\ counts.duplicate \in Nat
  BY <1>1 DEF BufferInv, BufferTypeOK, CountsType
<1>4. held \in Nat  BY <1>1, FS_CardinalityType DEF BufferInv, BufferTypeOK, Occupied
<1>5. write \in Nat /\ read \in Nat /\ refused \in Nat  BY <1>1 DEF RingInv, RingTypeOK
<1>6. pulls \in Nat /\ failures \in Nat /\ pulls = played + concealed  BY DEF SamplesInv, RingAccounted
<1>7. f * (pulls - failures) = refused + write
  <2>1. Len(Filling) = 0  BY EmptySeq DEF Filling
  <2>2. f * (pulls - failures) = refused + write + Len(Filling)  BY DEF SamplesInv, RingAccounted
  <2>3. QED  BY <1>5, <2>1, <2>2
<1>8. unique = late + played + skipped + held /\ unique \in Nat
  <2>1. counts.received = counts.duplicate + 0 + late + played + skipped + held
    BY DEF SamplesInv, ArrivalsInv, ArrivalsAreAccounted
  <2>2. unique = counts.received - counts.duplicate  BY DEF SamplesInv, SpanAccounted
  <2> HIDE DEF late, played, skipped, held, unique
  <2>3. QED  BY <1>3, <1>4, <2>1, <2>2
<1>9. span \in Nat /\ sent = f * span
  <2>1. CASE anchor = NotYet
    <3>1. span = 0 /\ firstTick = NotYet  BY <2>1 DEF SamplesInv, SpanAccounted
    <3>2. sent = 0  BY <3>1 DEF ProducedSamples
    <3>3. f * 0 = 0  BY <1>2
    <3>4. QED  BY <3>1, <3>2, <3>3
  <2>2. CASE anchor # NotYet
    <3>1. PICK b \in DOMAIN stream, h \in DOMAIN stream : Spans(b, h)
      BY <2>2 DEF SamplesInv, SpanAccounted
    <3>2. b \in Nat /\ h \in Nat  BY <1>1, <3>1, PacketTyped
    <3>3. b <= h /\ span = h - b + 1 /\ tickSpan = f * (h - b)  BY <3>1 DEF Spans
    <3>4. sent = tickSpan + f
      BY <2>2 DEF SamplesInv, SpanAccounted, ProducedSamples
    <3>5. h - b \in Int /\ f * ((h - b) + 1) = f * (h - b) + f  BY <1>2, <3>2
    <3>6. QED  BY <3>2, <3>3, <3>4, <3>5
  <2>3. QED  BY <2>1, <2>2
<1>10. /\ Lost \in Nat /\ Unexpected \in Nat /\ span + Unexpected = unique + Lost
  <2>1. /\ Lost = IF span > unique THEN span - unique ELSE 0
        /\ Unexpected = IF unique > span THEN unique - span ELSE 0
    BY DEF Lost, Unexpected
  <2> HIDE DEF span, unique
  <2>2. QED  BY <1>8, <1>9, <2>1
<1> DEFINE gone == Lost + late + 0 + skipped + failures
<1>11. Residual = sent + concealed * f - (gone * f + refused) - read - (held * f + (write - read))
  BY DEF Residual, Inserted, Discarded, HeldSamples, Occupancy
<1>12. /\ concealed * f = f * concealed /\ gone * f = f * gone /\ held * f = f * held
       /\ f * concealed \in Int /\ f * gone \in Int /\ f * held \in Int /\ gone \in Int
  <2>1. gone \in Int  BY <1>3, <1>6, <1>10
  <2> HIDE DEF gone, held, concealed, f
  <2>2. QED  BY <1>2, <1>3, <1>4, <2>1
<1>13. /\ span - gone - held + concealed - (pulls - failures) = -Unexpected
  <2> HIDE DEF span, unique, late, played, skipped, held, concealed
  <2>1. pulls - failures = played + concealed - failures  BY <1>3, <1>6
  <2>2. span = unique + Lost - Unexpected  BY <1>8, <1>9, <1>10
  <2>3. QED  BY <1>3, <1>4, <1>6, <1>8, <1>9, <1>10, <2>1, <2>2
<1>14. f * span + f * concealed - f * gone - f * held - f * (pulls - failures) = -f * Unexpected
  <2> DEFINE q == pulls - failures
             u == Unexpected
  <2>1. q \in Int /\ u \in Int /\ span - gone - held + concealed - q = -u  BY <1>6, <1>10, <1>13
  <2> HIDE DEF q, u, f, span, concealed, gone, held
  <2>2. /\ span \in Int /\ concealed \in Int /\ gone \in Int /\ held \in Int
    BY <1>3, <1>4, <1>9, <1>12
  <2>3. f * (span - gone - held + concealed - q)
          = f * span + f * concealed - f * gone - f * held - f * q
    BY <1>2, <2>1, <2>2
  <2>4. f * (-u) = -f * u  BY <1>2, <2>1
  <2>5. QED  BY <2>1, <2>3, <2>4 DEF q, u
<1>15. Residual = f * span + f * concealed - f * gone - f * held - f * (pulls - failures)
  <2> HIDE DEF f, span, concealed, gone, held, sent
  <2>1. f * span \in Int  BY <1>2, <1>9
  <2>2. QED  BY <1>5, <1>7, <1>9, <1>11, <1>12, <2>1
<1>16. QED  BY <1>14, <1>15

\* Between two deposits every sample is accounted for, as the receipt claims,
\* whatever is lost, reordered, repeated, refused, skipped or concealed and
\* whichever thread moved last: for any stream whose clock moves a frame a
\* packet, as long as a packet comes within half a circle of the furthest heard
\* and a repeat within the window of numbers seen.
THEOREM SamplesAlwaysBalance ==
  ASSUME TicksSteady
  PROVE  Spec /\ [][ArrivalsTimely]_vars => []SamplesBalance
<1>1. Init => SamplesInv  BY SamplesStart
<1>2. SamplesInv /\ [Next]_vars /\ [ArrivalsTimely]_vars => SamplesInv'
  <2> SUFFICES ASSUME SamplesInv, [Next]_vars, [ArrivalsTimely]_vars PROVE SamplesInv'
    OBVIOUS
  <2>1. [RepeatsRemembered]_vars  BY DEF ArrivalsTimely, RepeatsRemembered
  <2>2. ArrivalsInv'  BY <2>1, ArrivalsStep, SteadyIsDistinct DEF SamplesInv
  <2>3. RingAccounted' /\ SpanAccounted'
    BY RingStep, SpanStep DEF SamplesInv, ArrivalsInv
  <2>4. QED  BY <2>2, <2>3 DEF SamplesInv
<1>3. QED  BY <1>1, <1>2, SamplesAddUp, PTL DEF Spec
=============================================================================
