--------------------------- MODULE ReassemblyProofs ---------------------------
(***************************************************************************)
(* What loss, repeats and reordering leave of the video stream, for every  *)
(* window, every room for finished units, every ceiling and every shape of *)
(* unit: the decoder is handed tails of units, in order and once, and the  *)
(* count of lost packets is exact.                                         *)
(*                                                                         *)
(* The parts of the invariant are operators of the stream (s), its base    *)
(* (f), the assembler (a), the places it was shown (b), the place of the   *)
(* cursor in the stream (c) and whether a gap is still to be marked (g).   *)
(***************************************************************************)
EXTENDS MediaLink, TLAPS

-----------------------------------------------------------------------------
(* The invariant. *)

\* The number that the packet at a place goes by on the wire.
Circle(f, at) == (f + at - 1) % SeqModulus

Starting(s, at) == at = 1 \/ s[at - 1].marker

\* The stream: places, numbers, and units one after the other, each closed by
\* its marker and made of whole NAL units.
StreamInv(s, f) ==
  /\ f \in 0..(SeqModulus - 1)
  /\ s \in Seq([unit : Nat, at : Places, seq : 0..(SeqModulus - 1),
                role : Roles, marker : BOOLEAN])
  /\ Len(s) <= MaxPackets
  /\ \A i \in DOMAIN s : s[i].at = i /\ s[i].seq = Circle(f, i)
  /\ s # <<>> => s[1].role \in Begins /\ s[Len(s)].marker
  /\ \A i \in DOMAIN s : s[i].marker => s[i].role \in Ends
  /\ \A i \in 1..(Len(s) - 1) :
       /\ s[i + 1].unit = IF s[i].marker THEN s[i].unit + 1 ELSE s[i].unit
       /\ s[i].role \in Ends <=> s[i + 1].role \in Begins
  /\ \A i, j \in DOMAIN s :
       i < j => s[i].unit <= s[j].unit /\ (s[i].marker => s[i].unit < s[j].unit)
  /\ \A j \in DOMAIN s : \E first \in 1..j : Starting(s, first) /\ s[first].unit = s[j].unit

LastOf(b) == b[Len(b)]

\* What the assembler was shown is behind the cursor, in order.
SeenInv(s, b, c) ==
  /\ b \in Seq(Places) /\ b # <<>> /\ c \in 1..(Len(s) + 1)
  /\ \A i \in DOMAIN b : b[i] \in 1..(c - 1)
  /\ \A i, j \in DOMAIN b : i < j => b[i] < b[j]
  /\ Len(b) <= c - b[1]

Big(s, unit, before) == \E from \in DOMAIN s : s[from].unit = unit /\ before - from > MaxPieces

Hole(s, b, unit, from) ==
  \A first \in DOMAIN s :
    (s[first].unit = unit /\ Starting(s, first)) =>
      \/ from = first
      \/ unit = s[b[1]].unit
      \/ \A i \in DOMAIN b : b[i] # first - 1
      \/ Big(s, unit - 1, first)

TailOf(s, u) ==
  \E to \in DOMAIN s : \E from \in 1..to :
    /\ IsRun(u.data, from, to)
    /\ s[from].role \in Begins /\ s[to].marker
    /\ \A k \in from..to : s[k].unit = u.unit

\* What was finished is sound, in order, and behind the unit in hand.
Good(s, u, b) == TailOf(s, u) /\ Hole(s, b, u.unit, u.data[1])

FinishedInv(s, q, h, b, next) ==
  /\ \A i \in DOMAIN h : Good(s, h[i], b) /\ h[i].unit < next
  /\ \A i \in DOMAIN q : Good(s, q[i], b) /\ q[i].unit < next
  /\ \A i, j \in DOMAIN h : i < j => h[i].unit < h[j].unit
  /\ \A i, j \in DOMAIN q : i < j => q[i].unit < q[j].unit
  /\ \A i \in DOMAIN h, j \in DOMAIN q : h[i].unit < q[j].unit

NextOf(s, a, b) == IF a.state = "idle" THEN s[LastOf(b)].unit + 1 ELSE a.unit

\* The buffer of a unit no gap has touched: the stream up to a place.
WholeTo(s, a, b, from, to) ==
  /\ IsRun(a.buffer, from, to)
  /\ from <= to => s[from].role \in Begins
  /\ \A k \in from..to : s[k].unit = a.unit
  /\ Hole(s, b, a.unit, from)

\* Nothing written off and nothing refused so far.
Clean(s, a, b, c) ==
  /\ c = b[1] + Len(b) /\ Starting(s, b[1])
  /\ a.oversized = 0 /\ a.crowded = 0

AsmInv(s, a, b, c, g) ==
  LET last == LastOf(b)
  IN /\ a.state = "idle" => s[last].marker /\ (a.pending \/ g \/ c = last + 1)
     /\ a.state # "idle" => a.unit = s[last].unit
     /\ a.state = "active" =>
          /\ ~s[last].marker
          /\ \A first \in 1..last :
               (Starting(s, first) /\ s[first].unit = a.unit) => Len(a.buffer) <= last + 1 - first
     /\ a.state = "discarding" =>
          \E from \in 1..last : s[from].unit = a.unit /\ last - from >= MaxPieces
     /\ (a.state = "active" /\ ~a.damaged) =>
          /\ ~a.skipping /\ (a.open = 0 <=> s[last].role \in Ends)
          /\ g \/ c = last + 1
          /\ \E from \in 1..last : WholeTo(s, a, b, from, last)
     /\ Clean(s, a, b, c) =>
          a.dropped = 0 /\ ~a.damaged /\ ~a.pending /\ ~g /\ a.state # "discarding"

AsmType(a) ==
  /\ a \in Assemblers
  /\ Len(a.buffer) <= MaxPieces /\ a.open \in 0..Len(a.buffer)
  /\ Len(a.ready) <= ReadyCapacity

\* Early packets lie in their slots.
RingType(s, r) ==
  /\ DOMAIN r = 0..(Window - 1)
  /\ \A i \in 0..(Window - 1) :
       r[i] # None => (\E j \in DOMAIN s : r[i] = s[j]) /\ Slot(r[i].seq) = i

\* And ahead of the cursor, within the window or what a sweep has left of it.
RingInv(r, c, p, l) ==
  \A i \in 0..(Window - 1) :
    r[i] # None =>
      /\ r[i].at >= (IF p = "rest" THEN c + 1 ELSE c)
      /\ r[i].at <= (IF p = "sweep" THEN c + l - 1 ELSE c + Window)

SweepInv(s, c, p, t, l, g) ==
  IF p = "sweep" THEN (\E j \in DOMAIN s : t = s[j]) /\ t.at >= c + l
  ELSE t = None /\ ~g

Untouched ==
  /\ assembled = <<>> /\ asm = NewAssembler /\ handed = <<>> /\ lost = 0
  /\ progress = "rest" /\ ~stopped /\ target = None /\ ~gap /\ cursor = 0
  /\ \A i \in 0..(Window - 1) : reorder[i] = None

\* The cursor is at this place.
Reached(c) ==
  /\ SeenInv(stream, assembled, c) /\ cursor = Circle(base, c)
  /\ lost = c - assembled[1] - Len(assembled)
  /\ AsmInv(stream, asm, assembled, c, gap)
  /\ FinishedInv(stream, asm.ready, handed, assembled, NextOf(stream, asm, assembled))
  /\ SweepInv(stream, c, progress, target, left, gap)
  /\ ~stopped => RingInv(reorder, c, progress, left)

ReassemblyInv ==
  /\ joined \in BOOLEAN /\ gap \in BOOLEAN /\ stopped \in BOOLEAN
  /\ left \in 0..(Window + 1) /\ progress \in {"rest", "sweep", "drain"}
  /\ handed \in Seq(Units)
  /\ AsmType(asm) /\ (progress = "rest" => Len(asm.ready) < ReadyCapacity)
  /\ RingType(stream, reorder) /\ StreamInv(stream, base)
  /\ IF joined THEN \E c \in 1..(Len(stream) + 1) : Reached(c) ELSE Untouched

-----------------------------------------------------------------------------
(* The circle of sequence numbers. *)

LEMMA Division ==
  ASSUME NEW n \in Nat \ {0}, NEW a \in Int
  PROVE  a % n \in 0..(n - 1) /\ a = n * (a \div n) + (a % n) /\ (a \div n) \in Int
OBVIOUS

\* The remainder is the only number of the circle that is whole turns away.
LEMMA OnlyRemainder ==
  ASSUME NEW n \in Nat \ {0}, NEW r \in 0..(n - 1), NEW k \in Int, NEW a \in Int,
         a = n * k + r
  PROVE  a % n = r
<1> DEFINE q == a \div n
           s == a % n
<1>1. s \in 0..(n - 1) /\ a = n * q + s /\ q \in Int  BY Division
<1> HIDE DEF q, s
<1>2. n * (k - q) = s - r  BY <1>1
<1>3. CASE k - q >= 1
  <2>1. n * (k - q) >= n  BY <1>1, <1>3
  <2>2. QED  BY <1>1, <1>2, <2>1
<1>4. CASE k - q =< -1
  <2>1. n * (k - q) =< -n  BY <1>1, <1>4
  <2>2. QED  BY <1>1, <1>2, <2>1
<1>5. CASE k = q
  <2>1. s = r  BY <1>1, <1>5
  <2>2. QED  BY <2>1 DEF s
<1>6. QED  BY <1>1, <1>3, <1>4, <1>5

\* Half a circle.
LEMMA HalfCircle ==
  \E half \in Nat \ {0} :
    /\ SeqModulus = 2 * half /\ Window < half /\ MaxPackets <= half
    /\ SeqModulus \in Nat \ {0} /\ Window \in Nat \ {0} /\ MaxPackets \in Nat
BY DepacketizerAssumption, LinkAssumption

\* How far apart two places are on the wire.
LEMMA Apart ==
  ASSUME NEW a \in Int, NEW c \in Int, NEW f \in Int
  PROVE  /\ Circle(f, a) \in 0..(SeqModulus - 1)
         /\ a - c \in 0..(SeqModulus - 1) => (Circle(f, a) - Circle(f, c)) % SeqModulus = a - c
         /\ a - c + SeqModulus \in 0..(SeqModulus - 1) =>
              (Circle(f, a) - Circle(f, c)) % SeqModulus = a - c + SeqModulus
<1> DEFINE m == SeqModulus
           x == f + a - 1
           y == f + c - 1
           k == x \div m
           l == y \div m
           r == x % m
           s == y % m
<1>0. m \in Nat \ {0} /\ x \in Int /\ y \in Int  BY HalfCircle
<1>1. r \in 0..(m - 1) /\ x = m * k + r /\ k \in Int  BY <1>0, Division
<1>2. s \in 0..(m - 1) /\ y = m * l + s /\ l \in Int  BY <1>0, Division
<1>3. Circle(f, a) = r /\ Circle(f, c) = s  BY DEF Circle
<1>4. x - y = a - c  OBVIOUS
<1> HIDE DEF m, x, y, k, l, r, s
<1>5. r - s = m * (l - k) + (a - c)
  <2>1. m * (l - k) = m * l - m * k  BY <1>0, <1>1, <1>2
  <2>2. QED  BY <1>0, <1>1, <1>2, <1>4, <2>1
<1>6. r - s = m * (l - k - 1) + (a - c + m)
  <2>1. m * (l - k - 1) = m * (l - k) - m  BY <1>0, <1>1, <1>2
  <2>2. QED  BY <1>0, <1>1, <1>2, <1>5, <2>1
<1>7. r - s \in Int /\ l - k \in Int /\ l - k - 1 \in Int  BY <1>0, <1>1, <1>2
<1>8. a - c \in 0..(m - 1) => (r - s) % m = a - c
  BY <1>0, <1>5, <1>7, OnlyRemainder
<1>9. a - c + m \in 0..(m - 1) => (r - s) % m = a - c + m
  <2> DEFINE j == l - k - 1
             d == a - c + m
             z == r - s
  <2>1. j \in Int /\ z \in Int /\ z = m * j + d  BY <1>6, <1>7
  <2> HIDE DEF j, z, d
  <2>2. d \in 0..(m - 1) => z % m = d  BY <1>0, <2>1, OnlyRemainder
  <2>3. QED  BY <2>2 DEF z, d
<1>10. QED  BY <1>1, <1>3, <1>8, <1>9 DEF m

\* Within half a circle the signed distance on it is the distance.
LEMMA DistanceIsTrue ==
  ASSUME NEW a \in Int, NEW c \in Int, NEW f \in Int,
         a - c < MaxPackets, c - a <= MaxPackets
  PROVE  Distance(Circle(f, a), Circle(f, c)) = a - c
<1> DEFINE m == SeqModulus
           ahead == (Circle(f, a) - Circle(f, c)) % m
<1>1. PICK half \in Nat \ {0} : m = 2 * half /\ MaxPackets <= half /\ MaxPackets \in Nat
  BY HalfCircle
<1>2. CASE a - c >= 0
  <2>1. ahead = a - c  BY <1>1, <1>2, Apart
  <2>2. 2 * ahead < m  BY <1>1, <2>1
  <2>3. QED  BY <2>1, <2>2 DEF Distance
<1>3. CASE a - c < 0
  <2>1. ahead = a - c + m  BY <1>1, <1>3, Apart
  <2>2. ~(2 * ahead < m)  BY <1>1, <2>1
  <2>3. QED  BY <1>1, <2>1, <2>2 DEF Distance
<1>4. QED  BY <1>2, <1>3

\* So one number names one place.
LEMMA OnePlace ==
  ASSUME NEW a \in Int, NEW c \in Int, NEW f \in Int,
         a - c <= MaxPackets, c - a <= MaxPackets, Circle(f, a) = Circle(f, c)
  PROVE  a = c
<1>1. PICK half \in Nat \ {0} : SeqModulus = 2 * half /\ MaxPackets <= half /\ MaxPackets \in Nat
  BY HalfCircle
<1>2. Circle(f, a) - Circle(f, c) = 0  BY Apart
<1>3. 0 % SeqModulus = 0  BY <1>1
<1>4. CASE a - c >= 0
  <2>1. a - c \in 0..(SeqModulus - 1)  BY <1>1, <1>4
  <2>2. a - c = 0  BY <1>2, <1>3, <2>1, Apart
  <2>3. QED  BY <2>2
<1>5. CASE a - c < 0
  <2>1. a - c + SeqModulus \in 0..(SeqModulus - 1)  BY <1>1, <1>5
  <2>2. a - c + SeqModulus = 0  BY <1>2, <1>3, <2>1, Apart
  <2>3. QED  BY <1>1, <2>2
<1>6. QED  BY <1>4, <1>5

LEMMA NextOnCircle ==
  ASSUME NEW a \in Int, NEW f \in Int
  PROVE  Following(Circle(f, a)) = Circle(f, a + 1)
<1> DEFINE m == SeqModulus
           x == f + a - 1
           k == x \div m
           r == x % m
           l == (r + 1) \div m
           t == (r + 1) % m
<1>0. m \in Nat \ {0} /\ x \in Int  BY HalfCircle
<1>1. r \in 0..(m - 1) /\ x = m * k + r /\ k \in Int  BY <1>0, Division
<1>2. t \in 0..(m - 1) /\ r + 1 = m * l + t /\ l \in Int  BY <1>0, <1>1, Division
<1>3. Circle(f, a) = r /\ Circle(f, a + 1) = (x + 1) % m  BY DEF Circle
<1> HIDE DEF m, x, k, r, l
<1>4. x + 1 = m * (k + l) + t
  <2>1. m * (k + l) = m * k + m * l  BY <1>0, <1>1, <1>2
  <2>2. QED  BY <1>0, <1>1, <1>2, <2>1
<1>5. (x + 1) % m = t
  <2> DEFINE j == k + l
             z == x + 1
  <2>1. j \in Int /\ z \in Int /\ z = m * j + t  BY <1>0, <1>1, <1>2, <1>4
  <2> HIDE DEF t, j, z
  <2>2. z % m = t  BY <1>0, <1>2, <2>1, OnlyRemainder
  <2>3. QED  BY <2>2 DEF z
<1>6. QED  BY <1>3, <1>5 DEF Following, t, m

\* The cursor's number counts the places it has passed since another one.
LEMMA PassedIs ==
  ASSUME NEW c \in Int, NEW j \in Int, NEW f \in Int, c - j \in 0..(SeqModulus - 1)
  PROVE  (Circle(f, c) - (f + j - 1)) % SeqModulus = c - j
<1> DEFINE m == SeqModulus
           x == f + c - 1
           k == x \div m
           r == x % m
<1>0. m \in Nat \ {0} /\ x \in Int  BY HalfCircle
<1>1. r \in 0..(m - 1) /\ x = m * k + r /\ k \in Int  BY <1>0, Division
<1>2. Circle(f, c) = r  BY DEF Circle
<1>3. f + j - 1 = x - (c - j) /\ c - j \in 0..(m - 1)  OBVIOUS
<1> HIDE DEF m, x, k, r
<1>4. r - (f + j - 1) = m * (-k) + (c - j)
  <2>1. m * (-k) = -(m * k)  BY <1>0, <1>1
  <2>2. QED  BY <1>0, <1>1, <1>3, <2>1
<1> DEFINE z == r - (f + j - 1)
           l == -k
           d == c - j
<1>5. z \in Int /\ l \in Int /\ d \in 0..(m - 1) /\ z = m * l + d  BY <1>0, <1>1, <1>3, <1>4
<1> HIDE DEF z, l, d
<1>6. z % m = d  BY <1>0, <1>5, OnlyRemainder
<1>7. QED  BY <1>2, <1>6 DEF z, d, m

-----------------------------------------------------------------------------
(* The assembler's operations, field by field. *)

LEMMA Longer ==
  ASSUME NEW S, NEW q \in Seq(S), NEW e \in S
  PROVE  /\ Len(q) \in Nat /\ DOMAIN q = 1..Len(q)
         /\ Append(q, e) \in Seq(S) /\ Len(Append(q, e)) = Len(q) + 1
         /\ DOMAIN Append(q, e) = 1..(Len(q) + 1)
         /\ \A i \in DOMAIN q : Append(q, e)[i] = q[i]
         /\ Append(q, e)[Len(q) + 1] = e
  OBVIOUS

LEMMA EmptySeq ==
  ASSUME NEW S
  PROVE  <<>> \in Seq(S) /\ Len(<<>>) = 0 /\ DOMAIN <<>> = 1..0
  OBVIOUS

LEMMA Shorter ==
  ASSUME NEW S, NEW q \in Seq(S), NEW n \in 0..Len(q)
  PROVE  SubSeq(q, 1, n) \in Seq(S) /\ Len(SubSeq(q, 1, n)) = n
  OBVIOUS

\* A record given as one is its fields.
LEMMA AsmFields ==
  ASSUME NEW a \in Assemblers
  PROVE  /\ a.state \in {"idle", "active", "discarding"} /\ a.unit \in Nat
         /\ a.damaged \in BOOLEAN /\ a.pending \in BOOLEAN /\ a.open \in Nat
         /\ a.skipping \in BOOLEAN /\ a.buffer \in Seq(Places) /\ a.ready \in Seq(Units)
         /\ a.dropped \in Nat /\ a.crowded \in Nat /\ a.oversized \in Nat
         /\ Len(a.buffer) \in Nat /\ Len(a.ready) \in Nat
  BY DEF Assemblers

LEMMA OpenedFields ==
  ASSUME NEW a, AsmType(a), NEW p, p.unit \in Nat
  PROVE  LET o == Opened(a, p)
         IN /\ AsmType(o) /\ o.state \in {"active", "discarding"} /\ o.unit = p.unit
            /\ o.ready = a.ready /\ o.oversized = a.oversized /\ o.crowded = a.crowded
            /\ (a.state = "idle" \/ p.unit # a.unit) =>
                 /\ o.state = "active" /\ o.damaged = a.pending /\ ~o.pending
                 /\ o.open = 0 /\ ~o.skipping /\ o.buffer = <<>>
                 /\ (a.state # "active" => o.dropped = a.dropped)
            /\ (a.state # "idle" /\ p.unit = a.unit) => o = a
<1> DEFINE o == Opened(a, p)
<1>0. MaxPieces \in Nat  BY DepacketizerAssumption
<1>1. CASE a.state = "idle"
  <2>1. o = Start(a, p)  BY <1>1 DEF Opened
  <2>2. /\ o.state = "active" /\ o.damaged = a.pending /\ o.pending = FALSE
        /\ o.open = 0 /\ o.skipping = FALSE /\ o.buffer = <<>> /\ o.dropped = a.dropped
        /\ o.unit = p.unit /\ o.ready = a.ready /\ o.oversized = a.oversized
        /\ o.crowded = a.crowded /\ o \in Assemblers
    <3>1. a \in Assemblers /\ a.pending \in BOOLEAN /\ <<>> \in Seq(Places)
      BY AsmFields, EmptySeq DEF AsmType
    <3> HIDE DEF o
    <3>2. QED  BY <2>1, <3>1 DEF Start, Assemblers
  <2> HIDE DEF o
  <2>3. QED  BY <1>0, <1>1, <2>2, EmptySeq DEF AsmType, o
<1>2. CASE a.state # "idle" /\ p.unit # a.unit
  <2>1. o = Start(Reset([a EXCEPT !.dropped = IF a.state = "active" THEN @ + 1 ELSE @]), p)
    BY <1>2 DEF Opened
  <2> DEFINE d == [a EXCEPT !.dropped = IF a.state = "active" THEN @ + 1 ELSE @]
             e == Reset(d)
  <2>2. /\ d \in Assemblers /\ d.pending = a.pending /\ d.ready = a.ready
        /\ d.oversized = a.oversized /\ d.crowded = a.crowded
        /\ (a.state # "active" => d.dropped = a.dropped)
    <3> DEFINE n == IF a.state = "active" THEN a.dropped + 1 ELSE a.dropped
    <3>1. a \in Assemblers /\ n \in Nat  BY AsmFields DEF AsmType
    <3>2. d = [a EXCEPT !.dropped = n]  OBVIOUS
    <3>3. a.state # "active" => n = a.dropped  OBVIOUS
    <3> HIDE DEF n, d
    <3>4. QED  BY <3>1, <3>2, <3>3 DEF Assemblers
  <2> HIDE DEF d
  <2>3. /\ e \in Assemblers /\ e.pending = d.pending /\ e.ready = d.ready
        /\ e.oversized = d.oversized /\ e.crowded = d.crowded /\ e.dropped = d.dropped
    BY <2>2, EmptySeq DEF Reset, Assemblers
  <2>4. o = Start(e, p)  BY <2>1 DEF d
  <2> HIDE DEF e, o
  <2>5. /\ o.state = "active" /\ o.damaged = e.pending /\ o.pending = FALSE
        /\ o.open = 0 /\ o.skipping = FALSE /\ o.buffer = <<>> /\ o.dropped = e.dropped
        /\ o.unit = p.unit /\ o.ready = e.ready /\ o.oversized = e.oversized
        /\ o.crowded = e.crowded /\ o \in Assemblers
    BY <2>3, <2>4, EmptySeq DEF Start, Assemblers
  <2>6. QED  BY <1>0, <1>2, <2>2, <2>3, <2>5, EmptySeq DEF AsmType, o
<1>3. CASE a.state # "idle" /\ p.unit = a.unit
  <2>1. o = a  BY <1>3 DEF Opened
  <2>2. QED  BY <1>3, <2>1, AsmFields DEF AsmType
<1>4. QED  BY <1>1, <1>2, <1>3

LEMMA AbandonFields ==
  ASSUME NEW a, AsmType(a)
  PROVE  LET q == Abandon(a)
         IN /\ AsmType(q) /\ q.open = 0
            /\ q.state = a.state /\ q.unit = a.unit /\ q.pending = a.pending
            /\ q.ready = a.ready /\ q.dropped = a.dropped /\ q.crowded = a.crowded
            /\ q.oversized = a.oversized /\ Len(q.buffer) <= Len(a.buffer)
            /\ (a.open = 0 => q = a) /\ (a.open # 0 => q.damaged)
<1> DEFINE q == Abandon(a)
<1>1. CASE a.open = 0
  <2>1. q = a  BY <1>1 DEF Abandon
  <2>2. QED  BY <1>1, <2>1, AsmFields DEF AsmType
<1>2. CASE a.open # 0
  <2> DEFINE b == SubSeq(a.buffer, 1, a.open - 1)
  <2>0. a.open - 1 \in 0..Len(a.buffer) /\ a.buffer \in Seq(Places) /\ Len(a.buffer) \in Nat
    BY <1>2, AsmFields DEF AsmType
  <2>1. b \in Seq(Places) /\ Len(b) = a.open - 1  BY <2>0, Shorter
  <2>2. q = [a EXCEPT !.buffer = b, !.open = 0, !.damaged = TRUE, !.skipping = TRUE]
    BY <1>2 DEF Abandon
  <2> HIDE DEF b, q
  <2>3. /\ q \in Assemblers /\ q.open = 0 /\ q.buffer = b /\ q.damaged = TRUE
        /\ q.state = a.state /\ q.unit = a.unit /\ q.pending = a.pending
        /\ q.ready = a.ready /\ q.dropped = a.dropped /\ q.crowded = a.crowded
        /\ q.oversized = a.oversized
    BY <2>1, <2>2 DEF AsmType, Assemblers
  <2>4. QED  BY <1>2, <2>0, <2>1, <2>3, DepacketizerAssumption DEF AsmType, q
<1>3. QED  BY <1>1, <1>2

LEMMA StoreFields ==
  ASSUME NEW a, AsmType(a), a.state = "active", NEW p, p.at \in Places
  PROVE  LET q == Store(a, p)
         IN /\ AsmType(q) /\ q.state \in {"active", "discarding"}
            /\ q.unit = a.unit /\ q.ready = a.ready /\ q.crowded = a.crowded
            /\ q.state = "discarding" => /\ q.oversized = a.oversized + 1
                                         /\ Len(a.buffer) >= MaxPieces
            /\ q.state = "active" =>
                 /\ q.buffer = Append(a.buffer, p.at) /\ q.open = a.open
                 /\ q.damaged = a.damaged /\ q.skipping = a.skipping
                 /\ q.pending = a.pending /\ q.dropped = a.dropped
                 /\ q.oversized = a.oversized
<1> DEFINE q == Store(a, p)
<1>0. MaxPieces \in Nat /\ a.buffer \in Seq(Places) /\ Len(a.buffer) \in Nat /\ a.open \in 0..Len(a.buffer)
  BY DepacketizerAssumption, AsmFields DEF AsmType
<1>1. CASE Len(a.buffer) < MaxPieces
  <2> DEFINE b == Append(a.buffer, p.at)
  <2>1. b \in Seq(Places) /\ Len(b) = Len(a.buffer) + 1  BY <1>0, Longer
  <2>2. q = [a EXCEPT !.buffer = b]  BY <1>1 DEF Store
  <2> HIDE DEF b, q
  <2>3. /\ q \in Assemblers /\ q.buffer = b /\ q.open = a.open /\ q.damaged = a.damaged
        /\ q.skipping = a.skipping /\ q.pending = a.pending /\ q.dropped = a.dropped
        /\ q.oversized = a.oversized /\ q.state = a.state /\ q.unit = a.unit
        /\ q.ready = a.ready /\ q.crowded = a.crowded
    BY <2>1, <2>2 DEF AsmType, Assemblers
  <2>4. QED  BY <1>0, <1>1, <2>1, <2>3 DEF AsmType, q, b
<1>2. CASE ~(Len(a.buffer) < MaxPieces)
  <2>2. q = [a EXCEPT !.oversized = @ + 1, !.dropped = @ + 1, !.buffer = <<>>,
                      !.open = 0, !.skipping = FALSE, !.state = "discarding"]
    BY <1>2 DEF Store
  <2> HIDE DEF q
  <2>3. /\ q \in Assemblers /\ q.buffer = <<>> /\ q.open = 0 /\ q.state = "discarding"
        /\ q.oversized = a.oversized + 1 /\ q.unit = a.unit
        /\ q.ready = a.ready /\ q.crowded = a.crowded
    <3>1. a \in Assemblers /\ a.oversized + 1 \in Nat /\ a.dropped + 1 \in Nat
          /\ <<>> \in Seq(Places)
      BY AsmFields, EmptySeq DEF AsmType
    <3>2. QED  BY <2>2, <3>1 DEF Assemblers
  <2>4. QED  BY <1>0, <1>2, <2>3, EmptySeq DEF AsmType, q
<1>3. QED  BY <1>1, <1>2

\* Taking a packet: whether the buffer grows by it depends on its part.
LEMMA CollectFields ==
  ASSUME NEW a, AsmType(a), a.state = "active", NEW p, p.at \in Places, p.role \in Roles
  PROVE  LET q == Collect(a, p)
         IN /\ AsmType(q) /\ q.state \in {"active", "discarding"}
            /\ q.unit = a.unit /\ q.ready = a.ready /\ q.crowded = a.crowded
            /\ q.state = "discarding" => /\ q.oversized = a.oversized + 1
                                         /\ Len(a.buffer) >= MaxPieces
            /\ q.state = "active" =>
                 /\ q.dropped = a.dropped /\ q.oversized = a.oversized
                 /\ q.pending = a.pending /\ Len(q.buffer) <= Len(a.buffer) + 1
            /\ (q.state = "active" /\ ~q.damaged /\ ~a.skipping) =>
                 /\ ~a.damaged /\ ~q.skipping /\ q.buffer = Append(a.buffer, p.at)
                 /\ (p.role \in Begins <=> a.open = 0) /\ (q.open = 0 <=> p.role \in Ends)
            /\ (q.state = "active" /\ ~a.damaged /\ ~a.skipping /\ (p.role \in Begins <=> a.open = 0))
                 => ~q.damaged
            /\ (q.state = "active" /\ a.damaged) => q.damaged
<1> DEFINE q == Collect(a, p)
<1>0. /\ a.buffer \in Seq(Places) /\ Len(a.buffer) \in Nat /\ a \in Assemblers
      /\ a.damaged \in BOOLEAN /\ a.skipping \in BOOLEAN /\ a.open \in Nat
  BY AsmFields DEF AsmType
<1>r. p.role \in Begins <=> p.role \in {"whole", "start"}  BY DEF Begins
<1>e. p.role \in Ends <=> p.role \in {"whole", "end"}  BY DEF Ends
<1> DEFINE b == Abandon(a)
           d == [b EXCEPT !.skipping = FALSE]
           w == Store(d, p)
<1>b. /\ AsmType(b) /\ b.open = 0 /\ b.state = "active" /\ b.unit = a.unit
      /\ b.pending = a.pending /\ b.ready = a.ready /\ b.dropped = a.dropped
      /\ b.crowded = a.crowded /\ b.oversized = a.oversized
      /\ Len(b.buffer) <= Len(a.buffer) /\ Len(b.buffer) \in Nat
      /\ (a.open = 0 => b = a) /\ (a.open # 0 => b.damaged)
  <2>1. AsmType(b)  BY AbandonFields
  <2>2. Len(b.buffer) \in Nat  BY <2>1, AsmFields DEF AsmType
  <2>3. QED  BY <2>1, <2>2, AbandonFields
<1> HIDE DEF b
<1>d. /\ AsmType(d) /\ d.open = 0 /\ d.state = "active" /\ d.unit = a.unit
      /\ d.pending = a.pending /\ d.ready = a.ready /\ d.dropped = a.dropped
      /\ d.crowded = a.crowded /\ d.oversized = a.oversized
      /\ d.buffer = b.buffer /\ d.damaged = b.damaged /\ ~d.skipping
  BY <1>b DEF AsmType, Assemblers
<1> HIDE DEF d
<1>w. /\ AsmType(w) /\ w.state \in {"active", "discarding"}
      /\ w.unit = a.unit /\ w.ready = a.ready /\ w.crowded = a.crowded
      /\ w.state = "discarding" => /\ w.oversized = a.oversized + 1
                                   /\ Len(a.buffer) >= MaxPieces
      /\ w.state = "active" =>
           /\ w.buffer = Append(b.buffer, p.at) /\ w.open = 0
           /\ w.damaged = b.damaged /\ ~w.skipping
           /\ w.pending = a.pending /\ w.dropped = a.dropped
           /\ w.oversized = a.oversized
           /\ Len(w.buffer) = Len(b.buffer) + 1 /\ Len(w.buffer) \in Nat
  <2>1. b.buffer \in Seq(Places) /\ MaxPieces \in Nat
    BY <1>b, AsmFields, DepacketizerAssumption DEF AsmType
  <2>2. /\ AsmType(w) /\ w.state \in {"active", "discarding"}
        /\ w.unit = a.unit /\ w.ready = a.ready /\ w.crowded = a.crowded
        /\ w.state = "discarding" => /\ w.oversized = a.oversized + 1
                                     /\ Len(b.buffer) >= MaxPieces
        /\ w.state = "active" =>
             /\ w.buffer = Append(b.buffer, p.at) /\ w.open = 0
             /\ w.damaged = b.damaged /\ ~w.skipping
             /\ w.pending = a.pending /\ w.dropped = a.dropped
             /\ w.oversized = a.oversized
    BY <1>d, StoreFields
  <2>3. Len(Append(b.buffer, p.at)) = Len(b.buffer) + 1  BY <2>1, Longer
  <2>4. QED  BY <1>0, <1>b, <2>1, <2>2, <2>3
<1>wh. WholeNal(a, p) = w  BY DEF WholeNal, d, b
<1> HIDE DEF w
<1>1. CASE p.role = "whole"
  <2>1. q = w  BY <1>1, <1>wh DEF Collect
  <2> HIDE DEF q
  <2>2. QED  BY <1>0, <1>1, <1>b, <1>r, <1>e, <1>w, <2>1 DEF q
<1>2. CASE p.role = "start"
  <2>1. q = IF w.state = "discarding" THEN w ELSE [w EXCEPT !.open = Len(w.buffer)]
    BY <1>2, <1>wh DEF Collect, FirstFragment
  <2>2. CASE w.state = "discarding"
    <3>1. q = w  BY <2>1, <2>2
    <3> HIDE DEF q
    <3>2. QED  BY <1>w, <2>2, <3>1 DEF q
  <2>3. CASE w.state = "active"
    <3>1. q = [w EXCEPT !.open = Len(w.buffer)]  BY <2>1, <2>3
    <3> HIDE DEF q
    <3>2. w \in Assemblers /\ Len(w.buffer) \in Nat \ {0}  BY <1>b, <1>w, <2>3 DEF AsmType
    <3>3. /\ q \in Assemblers /\ q.open = Len(w.buffer) /\ q.buffer = w.buffer
          /\ q.damaged = w.damaged /\ q.skipping = w.skipping /\ q.pending = w.pending
          /\ q.dropped = w.dropped /\ q.oversized = w.oversized /\ q.state = w.state
          /\ q.unit = w.unit /\ q.ready = w.ready /\ q.crowded = w.crowded
      BY <3>1, <3>2 DEF Assemblers
    <3>4. AsmType(q)  BY <1>w, <3>2, <3>3 DEF AsmType
    <3>5. QED  BY <1>0, <1>2, <1>b, <1>r, <1>e, <1>w, <2>3, <3>2, <3>3, <3>4 DEF q
  <2>4. QED  BY <1>w, <2>2, <2>3
<1>3. CASE p.role \notin {"whole", "start"}
  <2>0. q = NextFragment(a, p) /\ (p.role \in Ends <=> p.role = "end") /\ p.role \notin Begins
    BY <1>3, <1>r, <1>e DEF Collect
  <2>1. CASE a.skipping
    <3>1. q = [a EXCEPT !.skipping = p.role # "end"]  BY <2>0, <2>1 DEF NextFragment
    <3> HIDE DEF q
    <3>2. /\ q \in Assemblers /\ q.open = a.open /\ q.buffer = a.buffer
          /\ q.damaged = a.damaged /\ q.pending = a.pending
          /\ q.dropped = a.dropped /\ q.oversized = a.oversized /\ q.state = a.state
          /\ q.unit = a.unit /\ q.ready = a.ready /\ q.crowded = a.crowded
      BY <1>0, <3>1 DEF Assemblers
    <3>3. QED  BY <1>0, <2>1, <3>2 DEF AsmType, q
  <2>2. CASE ~a.skipping /\ a.open = 0
    <3>1. q = [a EXCEPT !.damaged = TRUE, !.skipping = p.role # "end"]
      BY <2>0, <2>2 DEF NextFragment
    <3> HIDE DEF q
    <3>2. /\ q \in Assemblers /\ q.open = a.open /\ q.buffer = a.buffer
          /\ q.damaged = TRUE /\ q.pending = a.pending
          /\ q.dropped = a.dropped /\ q.oversized = a.oversized /\ q.state = a.state
          /\ q.unit = a.unit /\ q.ready = a.ready /\ q.crowded = a.crowded
      BY <1>0, <3>1 DEF Assemblers
    <3>3. QED  BY <1>0, <2>0, <2>2, <3>2 DEF AsmType, q
  <2>3. CASE ~a.skipping /\ a.open # 0
    <3> DEFINE s == Store(a, p)
    <3>1. q = IF p.role = "end" THEN [s EXCEPT !.open = 0] ELSE s
      BY <2>0, <2>3 DEF NextFragment
    <3>2. /\ AsmType(s) /\ s.state \in {"active", "discarding"}
          /\ s.unit = a.unit /\ s.ready = a.ready /\ s.crowded = a.crowded
          /\ s.state = "discarding" => /\ s.oversized = a.oversized + 1
                                       /\ Len(a.buffer) >= MaxPieces
          /\ s.state = "active" =>
               /\ s.buffer = Append(a.buffer, p.at) /\ s.open = a.open
               /\ s.damaged = a.damaged /\ s.skipping = a.skipping
               /\ s.pending = a.pending /\ s.dropped = a.dropped
               /\ s.oversized = a.oversized
      BY StoreFields
    <3>3. Len(Append(a.buffer, p.at)) = Len(a.buffer) + 1  BY <1>0, Longer
    <3> HIDE DEF s, q
    <3>4. CASE p.role = "end"
      <4>1. q = [s EXCEPT !.open = 0]  BY <3>1, <3>4
      <4>2. /\ q \in Assemblers /\ q.open = 0 /\ q.buffer = s.buffer
            /\ q.damaged = s.damaged /\ q.skipping = s.skipping /\ q.pending = s.pending
            /\ q.dropped = s.dropped /\ q.oversized = s.oversized /\ q.state = s.state
            /\ q.unit = s.unit /\ q.ready = s.ready /\ q.crowded = s.crowded
        BY <3>2, <4>1 DEF AsmType, Assemblers
      <4>3. AsmType(q)
        <5>1. Len(s.buffer) \in Nat  BY <3>2, AsmFields DEF AsmType
        <5>2. QED  BY <3>2, <4>2, <5>1 DEF AsmType
      <4>4. QED  BY <1>0, <2>0, <2>3, <3>2, <3>3, <3>4, <4>2, <4>3 DEF q
    <3>5. CASE p.role # "end"
      <4>1. q = s  BY <3>1, <3>5
      <4>2. QED  BY <1>0, <2>0, <2>3, <3>2, <3>3, <3>5, <4>1 DEF q
    <3>6. QED  BY <3>4, <3>5
  <2>4. QED  BY <2>1, <2>2, <2>3
<1>4. QED  BY <1>1, <1>2, <1>3

\* The marker: the unit is finished, or dropped for a cause.
LEMMA CompleteFields ==
  ASSUME NEW a, AsmType(a), a.state = "active"
  PROVE  LET q == Complete(a)
         IN /\ AsmType(q) /\ q.state = "idle" /\ ~q.damaged /\ q.pending = a.pending
            /\ q.oversized = a.oversized
            /\ \/ /\ q.ready = Append(a.ready, [unit |-> a.unit, data |-> a.buffer])
                  /\ [unit |-> a.unit, data |-> a.buffer] \in Units
                  /\ ~a.damaged /\ a.buffer # <<>>
                  /\ q.dropped = a.dropped /\ q.crowded = a.crowded
               \/ /\ q.ready = a.ready
                  /\ \/ q.crowded = a.crowded + 1
                     \/ q.crowded = a.crowded /\ (a.damaged \/ a.open # 0 \/ a.buffer = <<>>)
<1> DEFINE q == Complete(a)
           b == Abandon(a)
           spoiled == b.damaged \/ b.buffer = <<>>
           full == Len(b.ready) = ReadyCapacity
<1>0. /\ a \in Assemblers /\ a.crowded \in Nat /\ MaxPieces \in Nat /\ ReadyCapacity \in Nat
      /\ a.unit \in Nat /\ a.buffer \in Seq(Places)
  BY AsmFields, DepacketizerAssumption DEF AsmType
<1>b. /\ AsmType(b) /\ b.open = 0 /\ b.state = "active" /\ b.unit = a.unit
      /\ b.pending = a.pending /\ b.ready = a.ready /\ b.dropped = a.dropped
      /\ b.crowded = a.crowded /\ b.oversized = a.oversized
      /\ (a.open = 0 => b = a) /\ (a.open # 0 => b.damaged)
  BY AbandonFields
<1>t. /\ b \in Assemblers /\ b.dropped + 1 \in Nat /\ b.crowded + 1 \in Nat /\ b.crowded \in Nat
      /\ b.ready \in Seq(Units) /\ Len(b.ready) \in Nat /\ Len(b.ready) <= ReadyCapacity
      /\ <<>> \in Seq(Places) /\ Len(<<>>) = 0
  BY <1>b, AsmFields, EmptySeq DEF AsmType
<1>1. CASE spoiled \/ full
  <2> DEFINE n == IF spoiled THEN b.crowded ELSE b.crowded + 1
             d == [b EXCEPT !.dropped = @ + 1, !.crowded = n]
  <2>1. q = Reset(d)
    <3>1. d = [b EXCEPT !.dropped = @ + 1, !.crowded = IF spoiled THEN @ ELSE @ + 1]
      BY <1>t DEF Assemblers
    <3>2. QED  BY <1>1, <3>1 DEF Complete
  <2>2. n \in Nat /\ (n = a.crowded + 1 \/ (n = a.crowded /\ spoiled))  BY <1>b, <1>t
  <2> HIDE DEF n, q
  <2>3. /\ d \in Assemblers /\ d.crowded = n /\ d.pending = b.pending /\ d.ready = b.ready
        /\ d.oversized = b.oversized
    BY <1>t, <2>2 DEF Assemblers
  <2> HIDE DEF d
  <2>4. /\ q \in Assemblers /\ q.state = "idle" /\ q.damaged = FALSE /\ q.pending = d.pending
        /\ q.ready = d.ready /\ q.crowded = d.crowded /\ q.oversized = d.oversized
        /\ q.buffer = <<>> /\ q.open = 0
    BY <1>t, <2>1, <2>3 DEF Reset, Assemblers
  <2>5. AsmType(q)  BY <1>0, <1>t, <2>3, <2>4 DEF AsmType
  <2>6. spoiled => a.damaged \/ a.open # 0 \/ a.buffer = <<>>  BY <1>b
  <2> HIDE DEF spoiled, full
  <2>7. QED  BY <1>b, <2>2, <2>3, <2>4, <2>5, <2>6 DEF q
<1>2. CASE ~(spoiled \/ full)
  <2> DEFINE u == [unit |-> a.unit, data |-> b.buffer]
             r == Append(b.ready, u)
             d == [b EXCEPT !.ready = r]
  <2>0. b = a /\ a.open = 0 /\ ~a.damaged /\ a.buffer # <<>>  BY <1>b, <1>2
  <2>1. q = Reset(d)
    <3>1. d = [b EXCEPT !.ready = Append(@, [unit |-> a.unit, data |-> b.buffer])]
      BY <1>t DEF Assemblers
    <3>2. QED  BY <1>2, <3>1 DEF Complete
  <2>2. u \in Units  BY <1>0, <2>0 DEF Units
  <2> HIDE DEF u
  <2>3. r \in Seq(Units) /\ Len(r) = Len(b.ready) + 1  BY <1>t, <2>2, Longer
  <2>4. Len(r) <= ReadyCapacity  BY <1>0, <1>t, <1>2, <2>3
  <2> HIDE DEF r, q
  <2>5. /\ d \in Assemblers /\ d.crowded = b.crowded /\ d.pending = b.pending /\ d.ready = r
        /\ d.oversized = b.oversized /\ d.dropped = b.dropped
    BY <1>t, <2>3 DEF Assemblers
  <2> HIDE DEF d
  <2>6. /\ q \in Assemblers /\ q.state = "idle" /\ q.damaged = FALSE /\ q.pending = d.pending
        /\ q.ready = d.ready /\ q.crowded = d.crowded /\ q.oversized = d.oversized
        /\ q.dropped = d.dropped /\ q.buffer = <<>> /\ q.open = 0
    BY <1>t, <2>1, <2>5 DEF Reset, Assemblers
  <2>7. AsmType(q)  BY <1>0, <1>t, <2>4, <2>5, <2>6 DEF AsmType
  <2>8. u = [unit |-> a.unit, data |-> a.buffer]  BY <2>0 DEF u
  <2>9. r = Append(a.ready, u)  BY <2>0 DEF r
  <2>10. QED  BY <1>b, <2>0, <2>2, <2>5, <2>6, <2>7, <2>8, <2>9 DEF q
<1>3. QED  BY <1>1, <1>2

LEMMA ResetFields ==
  ASSUME NEW a, AsmType(a)
  PROVE  LET q == Reset(a)
         IN /\ AsmType(q) /\ q.state = "idle" /\ ~q.damaged /\ q.pending = a.pending
            /\ q.ready = a.ready /\ q.oversized = a.oversized /\ q.crowded = a.crowded
            /\ q.dropped = a.dropped
<1> DEFINE q == Reset(a)
<1>1. a \in Assemblers /\ <<>> \in Seq(Places) /\ Len(<<>>) = 0 /\ MaxPieces \in Nat
  BY EmptySeq, DepacketizerAssumption DEF AsmType
<1>2. q = [a EXCEPT !.state = "idle", !.buffer = <<>>, !.open = 0,
                    !.skipping = FALSE, !.damaged = FALSE]
  BY DEF Reset
<1> HIDE DEF q
<1>3. /\ q \in Assemblers /\ q.state = "idle" /\ q.damaged = FALSE /\ q.pending = a.pending
      /\ q.ready = a.ready /\ q.oversized = a.oversized /\ q.crowded = a.crowded
      /\ q.dropped = a.dropped /\ q.buffer = <<>> /\ q.open = 0
  BY <1>1, <1>2 DEF Assemblers
<1>4. QED  BY <1>1, <1>3 DEF AsmType, q

LEMMA MarkGapFields ==
  ASSUME NEW a, AsmType(a)
  PROVE  LET q == MarkGap(a)
         IN /\ AsmType(q) /\ q.state = a.state /\ q.unit = a.unit /\ q.ready = a.ready
            /\ q.dropped = a.dropped /\ q.oversized = a.oversized /\ q.crowded = a.crowded
            /\ Len(q.buffer) <= Len(a.buffer)
            /\ (a.state = "active" => q.damaged) /\ (a.state = "idle" => q.pending)
<1> DEFINE q == MarkGap(a)
<1>0. a \in Assemblers /\ a.state \in {"idle", "active", "discarding"} /\ Len(a.buffer) \in Nat
  BY AsmFields DEF AsmType
<1>1. CASE a.state = "active"
  <2> DEFINE b == Abandon(a)
  <2>1. /\ AsmType(b) /\ b.state = a.state /\ b.unit = a.unit /\ b.ready = a.ready
        /\ b.dropped = a.dropped /\ b.crowded = a.crowded
        /\ b.oversized = a.oversized /\ Len(b.buffer) <= Len(a.buffer)
    BY AbandonFields
  <2>2. q = [b EXCEPT !.damaged = TRUE]  BY <1>1 DEF MarkGap
  <2> HIDE DEF q, b
  <2>3. /\ q \in Assemblers /\ q.state = b.state /\ q.unit = b.unit /\ q.ready = b.ready
        /\ q.dropped = b.dropped /\ q.crowded = b.crowded /\ q.oversized = b.oversized
        /\ q.buffer = b.buffer /\ q.open = b.open /\ q.damaged = TRUE
    BY <2>1, <2>2 DEF AsmType, Assemblers
  <2>4. QED  BY <1>1, <2>1, <2>3 DEF AsmType, q
<1>2. CASE a.state = "idle"
  <2>1. q = [a EXCEPT !.pending = TRUE]  BY <1>2 DEF MarkGap
  <2> HIDE DEF q
  <2>2. /\ q \in Assemblers /\ q.state = a.state /\ q.unit = a.unit /\ q.ready = a.ready
        /\ q.dropped = a.dropped /\ q.crowded = a.crowded /\ q.oversized = a.oversized
        /\ q.buffer = a.buffer /\ q.open = a.open /\ q.pending = TRUE
    BY <1>0, <2>1 DEF Assemblers
  <2>3. QED  BY <1>0, <1>2, <2>2 DEF AsmType, q
<1>3. CASE a.state = "discarding"
  <2>1. q = a  BY <1>3 DEF MarkGap
  <2>2. QED  BY <1>0, <1>3, <2>1
<1>4. QED  BY <1>0, <1>1, <1>2, <1>3

\* push gives back the oldest unit.
LEMMA Handing ==
  ASSUME NEW a, AsmType(a), a.ready # <<>>
  PROVE  LET q == [a EXCEPT !.ready = Tail(@)]
         IN /\ AsmType(q) /\ q.ready = Tail(a.ready) /\ Head(a.ready) \in Units
            /\ Len(q.ready) = Len(a.ready) - 1
            /\ q.state = a.state /\ q.unit = a.unit /\ q.damaged = a.damaged
            /\ q.pending = a.pending /\ q.open = a.open /\ q.skipping = a.skipping
            /\ q.buffer = a.buffer /\ q.dropped = a.dropped /\ q.crowded = a.crowded
            /\ q.oversized = a.oversized
<1> DEFINE r == Tail(a.ready)
           q == [a EXCEPT !.ready = r]
<1>1. a \in Assemblers /\ a.ready \in Seq(Units) /\ Len(a.ready) \in Nat /\ ReadyCapacity \in Nat
  BY AsmFields, DepacketizerAssumption DEF AsmType
<1>2. r \in Seq(Units) /\ Len(r) = Len(a.ready) - 1 /\ Head(a.ready) \in Units  BY <1>1
<1>3. [a EXCEPT !.ready = Tail(@)] = q  BY <1>1 DEF Assemblers
<1> HIDE DEF r
<1>4. /\ q \in Assemblers /\ q.ready = r
      /\ q.state = a.state /\ q.unit = a.unit /\ q.damaged = a.damaged
      /\ q.pending = a.pending /\ q.open = a.open /\ q.skipping = a.skipping
      /\ q.buffer = a.buffer /\ q.dropped = a.dropped /\ q.crowded = a.crowded
      /\ q.oversized = a.oversized
  BY <1>1, <1>2 DEF Assemblers
<1> HIDE DEF q
<1>5. AsmType(q)  BY <1>1, <1>2, <1>4 DEF AsmType
<1>6. QED  BY <1>2, <1>3, <1>4, <1>5 DEF r

-----------------------------------------------------------------------------
(* The stream and what the assembler was shown of it. *)

LEMMA StreamFacts ==
  ASSUME NEW s, NEW f, StreamInv(s, f)
  PROVE  /\ Len(s) \in Nat /\ DOMAIN s = 1..Len(s) /\ f \in Int
         /\ \A i \in DOMAIN s :
              /\ s[i].unit \in Nat /\ s[i].at = i /\ s[i].at \in Places /\ s[i].role \in Roles
              /\ s[i].seq = Circle(f, i) /\ s[i].marker \in BOOLEAN
              /\ s[i].marker => s[i].role \in Ends
              /\ Starting(s, i) => s[i].role \in Begins
         /\ \A i, j \in DOMAIN s :
              /\ i <= j => s[i].unit <= s[j].unit
              /\ i < j /\ s[i].marker => s[i].unit < s[j].unit
         /\ \A i, j \in DOMAIN s : j = i + 1 =>
              /\ s[j].unit = IF s[i].marker THEN s[i].unit + 1 ELSE s[i].unit
              /\ s[i].role \in Ends <=> s[j].role \in Begins
<1>1. Len(s) \in Nat /\ DOMAIN s = 1..Len(s) /\ f \in Int  BY DEF StreamInv
<1>2. \A i \in DOMAIN s :
        /\ s[i].unit \in Nat /\ s[i].at = i /\ s[i].at \in Places /\ s[i].role \in Roles
        /\ s[i].seq = Circle(f, i) /\ s[i].marker \in BOOLEAN
        /\ s[i].marker => s[i].role \in Ends
  <2> TAKE i \in DOMAIN s
  <2> DEFINE P == [unit : Nat, at : Places, seq : 0..(SeqModulus - 1),
                   role : Roles, marker : BOOLEAN]
  <2>1. s \in Seq(P)  BY DEF StreamInv
  <2> HIDE DEF P
  <2>2. s[i] \in P  BY <1>1, <2>1
  <2>3. s[i].unit \in Nat /\ s[i].at \in Places /\ s[i].role \in Roles /\ s[i].marker \in BOOLEAN
    BY <2>2 DEF P
  <2>4. s[i].at = i /\ s[i].seq = Circle(f, i) /\ (s[i].marker => s[i].role \in Ends)
    BY DEF StreamInv
  <2>5. QED  BY <2>3, <2>4
<1>3. \A i, j \in DOMAIN s : j = i + 1 =>
        /\ s[j].unit = IF s[i].marker THEN s[i].unit + 1 ELSE s[i].unit
        /\ s[i].role \in Ends <=> s[j].role \in Begins
  <2>1. \A i \in 1..(Len(s) - 1) :
          /\ s[i + 1].unit = IF s[i].marker THEN s[i].unit + 1 ELSE s[i].unit
          /\ s[i].role \in Ends <=> s[i + 1].role \in Begins
    BY DEF StreamInv
  <2>2. \A i, j \in DOMAIN s : j = i + 1 => i \in 1..(Len(s) - 1)  BY <1>1
  <2>3. QED  BY <2>1, <2>2
<1>4. \A i, j \in DOMAIN s :
        /\ i <= j => s[i].unit <= s[j].unit
        /\ i < j /\ s[i].marker => s[i].unit < s[j].unit
  BY <1>1, <1>2 DEF StreamInv
<1>5. ASSUME NEW i \in DOMAIN s, Starting(s, i)  PROVE s[i].role \in Begins
  <2>1. CASE i = 1
    <3>1. s # <<>>  BY <1>1
    <3>2. QED  BY <2>1, <3>1 DEF StreamInv
  <2>2. CASE i # 1
    <3>1. i - 1 \in DOMAIN s /\ s[i - 1].marker  BY <1>1, <1>5, <2>2 DEF Starting
    <3>2. QED  BY <1>1, <1>2, <1>3, <3>1
  <2>3. QED  BY <2>1, <2>2
<1>6. QED  BY <1>1, <1>2, <1>3, <1>4, <1>5

\* A unit begins once.
LEMMA OneBeginning ==
  ASSUME NEW s, NEW f, StreamInv(s, f), NEW i \in DOMAIN s, NEW j \in DOMAIN s,
         Starting(s, j), s[i].unit = s[j].unit
  PROVE  j <= i
<1>1. SUFFICES ASSUME i < j  PROVE FALSE  BY StreamFacts
<1>2. j - 1 \in DOMAIN s /\ s[j - 1].marker  BY <1>1, StreamFacts DEF Starting
<1>3. i <= j - 1 /\ j - 1 < j  BY <1>1, StreamFacts
<1>4. s[i].unit <= s[j - 1].unit /\ s[j - 1].unit < s[j].unit  BY <1>2, <1>3, StreamFacts
<1>5. s[i].unit \in Nat /\ s[j].unit \in Nat /\ s[j - 1].unit \in Nat  BY <1>2, StreamFacts
<1>6. QED  BY <1>4, <1>5

LEMMA SeenFacts ==
  ASSUME NEW s, NEW f, StreamInv(s, f), NEW b, NEW c, SeenInv(s, b, c)
  PROVE  /\ b \in Seq(Places) /\ Len(b) \in Nat \ {0} /\ DOMAIN b = 1..Len(b)
         /\ c \in 1..(Len(s) + 1) /\ c \in Nat
         /\ LastOf(b) \in DOMAIN s /\ LastOf(b) < c /\ b[1] \in DOMAIN s /\ b[1] <= LastOf(b)
         /\ \A i \in DOMAIN b : b[i] \in Nat /\ b[i] <= LastOf(b)
         /\ Len(b) <= c - b[1]
<1>1. b \in Seq(Places) /\ b # <<>> /\ Len(b) \in Nat \ {0} /\ DOMAIN b = 1..Len(b)
  BY DEF SeenInv
<1>2. 1 \in DOMAIN b /\ Len(b) \in DOMAIN b  BY <1>1
<1>3. c \in 1..(Len(s) + 1) /\ Len(s) \in Nat /\ DOMAIN s = 1..Len(s)  BY StreamFacts DEF SeenInv
<1>4. \A i \in DOMAIN b : b[i] \in 1..(c - 1)  BY DEF SeenInv
<1>5. \A i \in DOMAIN b : i < Len(b) => b[i] < b[Len(b)]  BY <1>2 DEF SeenInv
<1>6. \A i \in DOMAIN b : b[i] \in Nat /\ b[i] <= b[Len(b)]
  <2> TAKE i \in DOMAIN b
  <2>1. b[i] \in 1..(c - 1) /\ b[Len(b)] \in 1..(c - 1)  BY <1>2, <1>4
  <2>2. i < Len(b) \/ i = Len(b)  BY <1>1
  <2>3. QED  BY <1>3, <1>5, <2>1, <2>2
<1>7. QED  BY <1>1, <1>2, <1>3, <1>4, <1>6 DEF SeenInv, LastOf

LEMMA SeenOneMore ==
  ASSUME NEW s, NEW f, StreamInv(s, f), NEW b, NEW c, SeenInv(s, b, c), NEW d \in DOMAIN s, d >= c
  PROVE  LET e == Append(b, d)
         IN SeenInv(s, e, d + 1) /\ LastOf(e) = d /\ e[1] = b[1] /\ Len(e) = Len(b) + 1
<1> DEFINE e == Append(b, d)
<1>1. /\ b \in Seq(Places) /\ Len(b) \in Nat \ {0} /\ DOMAIN b = 1..Len(b)
      /\ c \in Nat /\ LastOf(b) < c /\ LastOf(b) \in Nat /\ b[1] \in Nat
      /\ \A i \in DOMAIN b : b[i] \in Nat /\ b[i] <= LastOf(b)
      /\ Len(b) <= c - b[1]
  BY SeenFacts, StreamFacts
<1>2. d \in Places /\ d \in 1..Len(s) /\ Len(s) \in Nat /\ d \in Nat
  BY StreamFacts
<1>3. /\ e \in Seq(Places) /\ Len(e) = Len(b) + 1 /\ DOMAIN e = 1..(Len(b) + 1)
      /\ \A i \in DOMAIN b : e[i] = b[i]
      /\ e[Len(b) + 1] = d
  BY <1>1, <1>2, Longer
<1>4. e[1] = b[1] /\ e # <<>>  BY <1>1, <1>3
<1> HIDE DEF e
<1>5. \A i \in DOMAIN e : e[i] \in 1..d
  <2>1. \A i \in DOMAIN b : b[i] \in 1..(c - 1)  BY DEF SeenInv
  <2>2. \A i \in DOMAIN e : i \in DOMAIN b \/ i = Len(b) + 1  BY <1>1, <1>3
  <2>3. QED  BY <1>1, <1>2, <1>3, <2>1, <2>2
<1>6. \A i, j \in DOMAIN e : i < j => e[i] < e[j]
  <2> TAKE i, j \in DOMAIN e
  <2> HAVE i < j
  <2>1. i \in DOMAIN b /\ e[i] = b[i]  BY <1>1, <1>3
  <2>2. CASE j \in DOMAIN b
    <3>1. \A k, l \in DOMAIN b : k < l => b[k] < b[l]  BY DEF SeenInv
    <3>2. QED  BY <1>3, <2>1, <2>2, <3>1
  <2>3. CASE j = Len(b) + 1
    <3>1. b[i] <= LastOf(b) /\ b[i] \in Nat  BY <1>1, <2>1
    <3>2. QED  BY <1>1, <1>2, <1>3, <2>1, <2>3, <3>1
  <2>4. QED  BY <1>1, <1>3, <2>2, <2>3
<1>7. Len(e) <= d + 1 - e[1]  BY <1>1, <1>2, <1>3, <1>4
<1>8. SeenInv(s, e, d + 1)  BY <1>2, <1>3, <1>4, <1>5, <1>6, <1>7 DEF SeenInv
<1>9. LastOf(e) = d  BY <1>3 DEF LastOf
<1>10. QED  BY <1>3, <1>4, <1>8, <1>9 DEF e

\* What a unit lacks, it lacks whatever comes after it.
LEMMA HoleStays ==
  ASSUME NEW s, NEW f, StreamInv(s, f), NEW b, NEW c, SeenInv(s, b, c), NEW d \in DOMAIN s, d >= c,
         NEW unit \in Int, NEW from, unit <= s[d].unit, Hole(s, b, unit, from)
  PROVE  Hole(s, Append(b, d), unit, from)
<1> DEFINE e == Append(b, d)
<1>1. /\ e[1] = b[1] /\ Len(e) = Len(b) + 1
      /\ DOMAIN e = 1..(Len(b) + 1) /\ DOMAIN b = 1..Len(b) /\ Len(b) \in Nat
      /\ \A i \in DOMAIN b : e[i] = b[i]
      /\ e[Len(b) + 1] = d
  <2>1. b \in Seq(Places) /\ Len(b) \in Nat /\ DOMAIN b = 1..Len(b) /\ d \in Places
    BY SeenFacts, StreamFacts
  <2>2. QED  BY <2>1, SeenOneMore, Longer
<1> HIDE DEF e
<1>2. SUFFICES ASSUME NEW first \in DOMAIN s, s[first].unit = unit, Starting(s, first),
                      from # first, unit # s[b[1]].unit, ~Big(s, unit - 1, first)
               PROVE  \A i \in DOMAIN e : e[i] # first - 1
  BY <1>1 DEF Hole, e
<1>3. \A i \in DOMAIN b : b[i] # first - 1  BY <1>2 DEF Hole
<1>4. d # first - 1
  <2>1. SUFFICES ASSUME d = first - 1  PROVE FALSE  OBVIOUS
  <2>2. first # 1 /\ s[d].marker /\ d < first  BY <1>2, <2>1, StreamFacts DEF Starting
  <2>3. s[d].unit < unit /\ s[d].unit \in Nat  BY <1>2, <2>2, StreamFacts
  <2>4. QED  BY <2>3
<1>5. QED  BY <1>1, <1>3, <1>4

LEMMA FinishedStays ==
  ASSUME NEW s, NEW f, StreamInv(s, f), NEW b, NEW c, SeenInv(s, b, c), NEW d \in DOMAIN s, d >= c,
         NEW q \in Seq(Units), NEW h \in Seq(Units), NEW next \in Int, next <= s[d].unit,
         FinishedInv(s, q, h, b, next)
  PROVE  FinishedInv(s, q, h, Append(b, d), s[d].unit)
<1> DEFINE e == Append(b, d)
<1>1. s[d].unit \in Nat  BY StreamFacts
<1>2. ASSUME NEW u \in Units, Good(s, u, b), u.unit < next
      PROVE  Good(s, u, e) /\ u.unit < s[d].unit
  <2>1. u.unit \in Nat  BY DEF Units
  <2>2. u.unit < s[d].unit  BY <1>1, <1>2, <2>1
  <2>3. Hole(s, e, u.unit, u.data[1])
    <3>1. Hole(s, b, u.unit, u.data[1])  BY <1>2 DEF Good
    <3>2. QED  BY <1>1, <2>1, <2>2, <3>1, HoleStays
  <2>4. QED  BY <1>2, <2>2, <2>3 DEF Good
<1> HIDE DEF e
<1>3. (\A i \in DOMAIN q : q[i] \in Units) /\ (\A i \in DOMAIN h : h[i] \in Units)  OBVIOUS
<1>4. QED  BY <1>2, <1>3 DEF FinishedInv, e

-----------------------------------------------------------------------------
(* A packet goes to the assembler. *)

\* The unit of the packet is open, and b has the packet's place in it already.
Ready(s, o, b, c) ==
  /\ o.state \in {"active", "discarding"} /\ o.unit = s[c].unit
  /\ o.state = "discarding" =>
       \E from \in 1..c : s[from].unit = o.unit /\ c - from >= MaxPieces
  /\ o.state = "active" =>
       \A first \in 1..c :
         (Starting(s, first) /\ s[first].unit = o.unit) => Len(o.buffer) <= c - first
  /\ (o.state = "active" /\ ~o.damaged) =>
       /\ ~o.skipping
       /\ \E from \in 1..c :
            /\ IsRun(o.buffer, from, c - 1)
            /\ from < c => s[from].role \in Begins
            /\ \A k \in from..(c - 1) : s[k].unit = o.unit
            /\ Hole(s, b, o.unit, from)
  /\ Clean(s, o, b, c + 1) =>
       /\ o.state = "active" /\ o.dropped = 0 /\ ~o.damaged /\ ~o.pending
       /\ o.open = 0 <=> s[c].role \in Begins

\* A unit started at a packet has nothing in its buffer.
LEMMA ReadyFresh ==
  ASSUME NEW s, NEW f, StreamInv(s, f), NEW c \in DOMAIN s, NEW o, NEW b, AsmType(o),
         o.state = "active", o.unit = s[c].unit, o.buffer = <<>>, ~o.skipping,
         o.damaged \/ Hole(s, b, s[c].unit, c),
         Clean(s, o, b, c + 1) =>
           /\ o.dropped = 0 /\ ~o.damaged /\ ~o.pending
           /\ o.open = 0 <=> s[c].role \in Begins
  PROVE  Ready(s, o, b, c)
<1>1. c \in Nat \ {0} /\ Len(o.buffer) = 0 /\ DOMAIN o.buffer = {}
  <2>1. c \in Nat \ {0}  BY StreamFacts
  <2>2. Len(o.buffer) = 0 /\ DOMAIN o.buffer = 1..0  BY EmptySeq
  <2>3. QED  BY <2>1, <2>2
<1>2. \A first \in 1..c : Len(o.buffer) <= c - first  BY <1>1
<1>3. c \in 1..c /\ ~(c < c) /\ c..(c - 1) = {} /\ 0 = (c - 1) + 1 - c  BY <1>1
<1>4. IsRun(o.buffer, c, c - 1)  BY <1>1, <1>3 DEF IsRun
<1>5. ~o.damaged =>
        \E from \in 1..c :
            /\ IsRun(o.buffer, from, c - 1)
            /\ from < c => s[from].role \in Begins
            /\ \A k \in from..(c - 1) : s[k].unit = o.unit
            /\ Hole(s, b, o.unit, from)
  BY <1>3, <1>4
<1>6. QED  BY <1>2, <1>5 DEF Ready

LEMMA OpenedFirst ==
  ASSUME NEW s, NEW f, StreamInv(s, f), NEW c \in DOMAIN s
  PROVE  LET o == Opened(NewAssembler, s[c])
         IN AsmType(NewAssembler) /\ Ready(s, o, <<c>>, c)
<1> DEFINE a == NewAssembler
           o == Opened(a, s[c])
           b == <<c>>
<1>1. AsmType(a) /\ a.state = "idle" /\ a.pending = FALSE /\ a.dropped = 0
  <2>1. MaxPieces \in Nat /\ ReadyCapacity \in Nat  BY DepacketizerAssumption
  <2>2. <<>> \in Seq(Places) /\ <<>> \in Seq(Units) /\ Len(<<>>) = 0  BY EmptySeq
  <2>3. a \in Assemblers  BY <2>2 DEF NewAssembler, Assemblers
  <2>4. a.buffer = <<>> /\ a.ready = <<>> /\ a.open = 0 /\ a.state = "idle" /\ a.pending = FALSE /\ a.dropped = 0
    BY DEF NewAssembler
  <2> HIDE DEF a
  <2>5. QED  BY <2>1, <2>2, <2>3, <2>4 DEF AsmType
<1> HIDE DEF a
<1>2. s[c].unit \in Nat /\ c \in Nat \ {0}  BY StreamFacts
<1>3. /\ AsmType(o) /\ o.state = "active" /\ o.unit = s[c].unit /\ ~o.damaged /\ ~o.pending
      /\ o.open = 0 /\ ~o.skipping /\ o.buffer = <<>> /\ o.dropped = 0
  BY <1>1, <1>2, OpenedFields
<1> HIDE DEF o
<1>4. b[1] = c /\ Len(b) = 1  OBVIOUS
<1> HIDE DEF b
<1>5. Hole(s, b, s[c].unit, c)  BY <1>4 DEF Hole
<1>6. Clean(s, o, b, c + 1) => s[c].role \in Begins
  BY <1>4, StreamFacts DEF Clean
<1>7. Ready(s, o, b, c)  BY <1>3, <1>5, <1>6, ReadyFresh
<1>8. QED  BY <1>1, <1>7 DEF o, b, a

LEMMA OpenedNext ==
  ASSUME NEW s, NEW f, StreamInv(s, f), NEW b, NEW c \in DOMAIN s, SeenInv(s, b, c),
         NEW a, AsmType(a), AsmInv(s, a, b, c, FALSE)
  PROVE  Ready(s, Opened(a, s[c]), Append(b, c), c)
<1> DEFINE o == Opened(a, s[c])
           e == Append(b, c)
           last == LastOf(b)
<1>1. /\ c \in Nat \ {0} /\ last \in DOMAIN s /\ last \in Nat \ {0} /\ last < c
      /\ last \in 1..last /\ last \in 1..c
      /\ s[c].unit \in Nat /\ s[last].unit \in Nat /\ s[last].unit <= s[c].unit
      /\ (s[last].marker => s[last].unit < s[c].unit)
  BY SeenFacts, StreamFacts
<1>2. /\ e[1] = b[1] /\ Len(e) = Len(b) + 1 /\ b[1] \in Nat /\ Len(b) \in Nat
      /\ DOMAIN e = 1..(Len(b) + 1) /\ DOMAIN b = 1..Len(b)
      /\ \A i \in DOMAIN b : e[i] = b[i] /\ e[i] \in Nat /\ e[i] <= last
      /\ e[Len(b) + 1] = c
  <2>1. b \in Seq(Places) /\ Len(b) \in Nat /\ DOMAIN b = 1..Len(b) /\ c \in Places
    BY SeenFacts, StreamFacts
  <2>2. QED  BY <1>1, <2>1, SeenOneMore, SeenFacts, Longer, StreamFacts
<1>3. /\ AsmType(o) /\ o.state \in {"active", "discarding"} /\ o.unit = s[c].unit
      /\ o.oversized = a.oversized /\ o.crowded = a.crowded
      /\ (a.state = "idle" \/ s[c].unit # a.unit) =>
           /\ o.state = "active" /\ o.damaged = a.pending /\ ~o.pending
           /\ o.open = 0 /\ ~o.skipping /\ o.buffer = <<>>
           /\ (a.state # "active" => o.dropped = a.dropped)
      /\ (a.state # "idle" /\ s[c].unit = a.unit) => o = a
  BY <1>1, OpenedFields
<1> HIDE DEF o, e
<1>4. Clean(s, o, e, c + 1) => Clean(s, a, b, c)
  <2>1. c + 1 = e[1] + Len(e) => c = b[1] + Len(b)  BY <1>1, <1>2
  <2>2. QED  BY <1>2, <1>3, <2>1 DEF Clean
<1>5. Clean(s, o, e, c + 1) =>
        a.dropped = 0 /\ ~a.damaged /\ ~a.pending /\ a.state # "discarding"
  BY <1>4 DEF AsmInv
<1>6. a.state \in {"idle", "active", "discarding"}  BY AsmFields DEF AsmType
<1>7. c = last + 1 => (s[last].role \in Ends <=> s[c].role \in Begins)  BY <1>1, StreamFacts
<1>8. CASE a.state = "idle"
  <2>1. s[last].marker /\ (a.pending \/ c = last + 1)  BY <1>8 DEF AsmInv
  <2>2. a.pending \/ Hole(s, e, s[c].unit, c)
    <3>1. SUFFICES ASSUME c = last + 1, NEW first \in DOMAIN s, s[first].unit = s[c].unit, Starting(s, first)
                   PROVE  c = first
      BY <2>1 DEF Hole
    <3>2. Starting(s, c)  BY <1>1, <2>1, <3>1 DEF Starting
    <3>3. c <= first /\ first <= c /\ first \in Nat
      BY <3>1, <3>2, OneBeginning, StreamFacts
    <3>4. QED  BY <1>1, <3>3
  <2>3. Clean(s, o, e, c + 1) => s[c].role \in Begins
    BY <1>1, <1>5, <1>7, <2>1, StreamFacts
  <2>4. Ready(s, o, e, c)
    BY <1>3, <1>5, <1>8, <2>2, <2>3, ReadyFresh
  <2>5. QED  BY <2>4 DEF o, e
<1>9. CASE a.state # "idle" /\ s[c].unit # a.unit
  <2>1. a.unit = s[last].unit /\ s[last].unit < s[c].unit  BY <1>1, <1>9 DEF AsmInv
  <2>2. Hole(s, e, s[c].unit, c)
    <3>1. SUFFICES ASSUME NEW first \in DOMAIN s, s[first].unit = s[c].unit, Starting(s, first),
                          NEW i \in DOMAIN e, e[i] = first - 1
                   PROVE  Big(s, s[c].unit - 1, first)
      BY DEF Hole
    <3>2. first \in Nat /\ last < first
      BY <1>1, <2>1, <3>1, StreamFacts
    <3>3. first # 1 /\ s[first - 1].marker /\ first - 1 \in DOMAIN s
      BY <1>1, <3>1, <3>2, StreamFacts DEF Starting
    <3>4. first - 1 # c
      BY <1>1, <3>1, <3>2, <3>3, StreamFacts
    <3>5. first - 1 = last  BY <1>1, <1>2, <3>1, <3>2, <3>4
    <3>6. s[last].marker  BY <3>3, <3>5
    <3>7. a.state = "discarding"  BY <1>6, <1>9, <3>6 DEF AsmInv
    <3>8. PICK from \in 1..last : s[from].unit = a.unit /\ last - from >= MaxPieces
      BY <3>7 DEF AsmInv
    <3>9. first = last + 1 /\ s[first].unit = s[last].unit + 1
      BY <1>1, <3>2, <3>5, <3>6, StreamFacts
    <3>10. s[from].unit = s[c].unit - 1 /\ from \in DOMAIN s /\ first - from > MaxPieces
      <4>1. s[from].unit = s[last].unit /\ s[c].unit = s[last].unit + 1
        BY <2>1, <3>1, <3>8, <3>9
      <4>2. from \in DOMAIN s  BY <1>1, StreamFacts
      <4>3. first - from > MaxPieces  BY <1>1, <3>8, <3>9, DepacketizerAssumption
      <4>4. QED  BY <1>1, <4>1, <4>2, <4>3
    <3>11. QED  BY <3>10 DEF Big
  <2>3. ~Clean(s, o, e, c + 1)
    <3>1. SUFFICES ASSUME Clean(s, o, e, c + 1)  PROVE FALSE  OBVIOUS
    <3>2. a.state = "active" /\ ~a.damaged  BY <1>5, <1>6, <1>9, <3>1
    <3>3. ~s[last].marker /\ c = last + 1  BY <3>2 DEF AsmInv
    <3>4. s[c].unit = s[last].unit  BY <1>1, <3>3, StreamFacts
    <3>5. QED  BY <1>1, <2>1, <3>4
  <2>4. Ready(s, o, e, c)  BY <1>3, <1>9, <2>2, <2>3, ReadyFresh
  <2>5. QED  BY <2>4 DEF o, e
<1>10. CASE a.state # "idle" /\ s[c].unit = a.unit
  <2>1. o = a /\ a.unit = s[last].unit  BY <1>3, <1>10 DEF AsmInv
  <2>2. a.state = "discarding" =>
          \E from \in 1..c : s[from].unit = a.unit /\ c - from >= MaxPieces
    <3>1. SUFFICES ASSUME a.state = "discarding"
                   PROVE  \E from \in 1..c : s[from].unit = a.unit /\ c - from >= MaxPieces
      OBVIOUS
    <3>2. PICK from \in 1..last : s[from].unit = a.unit /\ last - from >= MaxPieces
      BY <3>1 DEF AsmInv
    <3>3. from \in 1..c /\ c - from >= MaxPieces  BY <1>1, <3>2, DepacketizerAssumption
    <3>4. QED  BY <3>2, <3>3
  <2>3. a.state = "active" =>
          \A first \in 1..c :
            (Starting(s, first) /\ s[first].unit = a.unit) => Len(a.buffer) <= c - first
    <3>1. SUFFICES ASSUME a.state = "active", NEW first \in 1..c,
                          Starting(s, first), s[first].unit = a.unit
                   PROVE  Len(a.buffer) <= c - first
      OBVIOUS
    <3>2. first \in DOMAIN s  BY <1>1, StreamFacts
    <3>3. first <= last
      <4>1. last \in DOMAIN s /\ s[last].unit = s[first].unit  BY <1>1, <2>1, <3>1
      <4> HIDE DEF last
      <4>2. QED  BY <3>1, <3>2, <4>1, OneBeginning
    <3>4. Len(a.buffer) <= last + 1 - first  BY <1>1, <3>1, <3>3 DEF AsmInv
    <3>5. Len(a.buffer) \in Nat  BY AsmFields DEF AsmType
    <3>6. QED  BY <1>1, <3>4, <3>5
  <2>4. (a.state = "active" /\ ~a.damaged) =>
          /\ ~a.skipping /\ c = last + 1
          /\ \E from \in 1..c :
               /\ IsRun(a.buffer, from, c - 1)
               /\ from < c => s[from].role \in Begins
               /\ \A k \in from..(c - 1) : s[k].unit = a.unit
               /\ Hole(s, e, a.unit, from)
    <3>1. SUFFICES ASSUME a.state = "active", ~a.damaged
                   PROVE  /\ ~a.skipping /\ c = last + 1
                          /\ \E from \in 1..c :
                               /\ IsRun(a.buffer, from, c - 1)
                               /\ from < c => s[from].role \in Begins
                               /\ \A k \in from..(c - 1) : s[k].unit = a.unit
                               /\ Hole(s, e, a.unit, from)
      OBVIOUS
    <3>2. ~a.skipping /\ c = last + 1  BY <3>1 DEF AsmInv
    <3>3. PICK from \in 1..last : WholeTo(s, a, b, from, last)  BY <3>1 DEF AsmInv
    <3>4. from \in 1..c /\ last = c - 1 /\ (from < c => from <= last)  BY <1>1, <3>2
    <3>5. IsRun(a.buffer, from, c - 1) /\ (\A k \in from..(c - 1) : s[k].unit = a.unit)
          /\ (from < c => s[from].role \in Begins) /\ Hole(s, b, a.unit, from)
      BY <3>3, <3>4 DEF WholeTo
    <3>6. Hole(s, e, a.unit, from)
      <4>1. a.unit \in Int /\ a.unit <= s[c].unit /\ c >= c  BY <1>1, <2>1
      <4>2. QED  BY <3>5, <4>1, HoleStays DEF e
    <3>7. QED  BY <3>2, <3>4, <3>5, <3>6
  <2>5. Clean(s, o, e, c + 1) =>
          /\ a.state = "active" /\ a.dropped = 0 /\ ~a.damaged /\ ~a.pending
          /\ a.open = 0 <=> s[c].role \in Begins
    <3>1. SUFFICES ASSUME Clean(s, o, e, c + 1)
                   PROVE  /\ a.state = "active" /\ a.dropped = 0 /\ ~a.damaged /\ ~a.pending
                          /\ a.open = 0 <=> s[c].role \in Begins
      OBVIOUS
    <3>2. a.state = "active" /\ a.dropped = 0 /\ ~a.damaged /\ ~a.pending
      BY <1>5, <1>6, <1>10, <3>1
    <3>3. a.open = 0 <=> s[last].role \in Ends  BY <3>2 DEF AsmInv
    <3>4. QED  BY <1>7, <2>4, <3>2, <3>3
  <2>6. Ready(s, o, e, c)  BY <1>10, <1>6, <2>1, <2>2, <2>3, <2>4, <2>5 DEF Ready
  <2>7. QED  BY <2>6 DEF o, e
<1>11. QED  BY <1>8, <1>9, <1>10

LEMMA FinishedLater ==
  ASSUME NEW s, NEW q \in Seq(Units), NEW h \in Seq(Units), NEW b, NEW next \in Int,
         NEW later \in Int, next <= later, FinishedInv(s, q, h, b, next)
  PROVE  FinishedInv(s, q, h, b, later)
<1>1. \A i \in DOMAIN h : h[i].unit \in Nat /\ h[i].unit < later
  <2>1. \A i \in DOMAIN h : h[i] \in Units  OBVIOUS
  <2>2. \A i \in DOMAIN h : h[i].unit \in Nat  BY <2>1 DEF Units
  <2>3. \A i \in DOMAIN h : h[i].unit < next  BY DEF FinishedInv
  <2>4. QED  BY <2>2, <2>3
<1>2. \A i \in DOMAIN q : q[i].unit \in Nat /\ q[i].unit < later
  <2>1. \A i \in DOMAIN q : q[i] \in Units  OBVIOUS
  <2>2. \A i \in DOMAIN q : q[i].unit \in Nat  BY <2>1 DEF Units
  <2>3. \A i \in DOMAIN q : q[i].unit < next  BY DEF FinishedInv
  <2>4. QED  BY <2>2, <2>3
<1>3. QED  BY <1>1, <1>2 DEF FinishedInv

LEMMA FinishedOneMore ==
  ASSUME NEW s, NEW q \in Seq(Units), NEW h \in Seq(Units), NEW b, NEW u \in Units,
         FinishedInv(s, q, h, b, u.unit), Good(s, u, b)
  PROVE  FinishedInv(s, Append(q, u), h, b, u.unit + 1)
<1> DEFINE r == Append(q, u)
<1>1. u.unit \in Nat  BY DEF Units
<1>2. FinishedInv(s, q, h, b, u.unit + 1)  BY <1>1, FinishedLater
<1>3. /\ Len(q) \in Nat /\ DOMAIN q = 1..Len(q) /\ DOMAIN r = 1..(Len(q) + 1)
      /\ \A i \in DOMAIN q : r[i] = q[i]
      /\ r[Len(q) + 1] = u
  BY Longer
<1> HIDE DEF r
<1>4. \A i \in DOMAIN r : (i \in DOMAIN q /\ r[i] = q[i]) \/ (i = Len(q) + 1 /\ r[i] = u)
  BY <1>3
<1>5. \A i \in DOMAIN r : Good(s, r[i], b) /\ r[i].unit < u.unit + 1
  BY <1>1, <1>2, <1>4 DEF FinishedInv
<1>6. \A i, j \in DOMAIN r : i < j => r[i].unit < r[j].unit
  <2> TAKE i, j \in DOMAIN r
  <2> HAVE i < j
  <2>1. i \in DOMAIN q /\ r[i] = q[i]  BY <1>3
  <2>2. CASE j \in DOMAIN q /\ r[j] = q[j]  BY <2>1, <2>2 DEF FinishedInv
  <2>3. CASE r[j] = u  BY <2>1, <2>3 DEF FinishedInv
  <2>4. QED  BY <1>4, <2>2, <2>3
<1>7. \A i \in DOMAIN h, j \in DOMAIN r : h[i].unit < r[j].unit
  BY <1>4 DEF FinishedInv
<1>8. QED  BY <1>2, <1>5, <1>6, <1>7 DEF FinishedInv, r

LEMMA Shown ==
  ASSUME NEW s, NEW f, StreamInv(s, f), NEW c \in DOMAIN s, NEW b, LastOf(b) = c,
         NEW h \in Seq(Units), NEW o, AsmType(o), Ready(s, o, b, c),
         FinishedInv(s, o.ready, h, b, o.unit)
  PROVE  LET r == IF o.state = "active" THEN Finished(Collect(o, s[c]), s[c])
                  ELSE IF s[c].marker THEN Reset(o) ELSE o
         IN /\ AsmType(r) /\ AsmInv(s, r, b, c + 1, FALSE)
            /\ FinishedInv(s, r.ready, h, b, NextOf(s, r, b))
<1> DEFINE p == s[c]
           q == Collect(o, p)
           r == IF o.state = "active" THEN Finished(q, p)
                ELSE IF p.marker THEN Reset(o) ELSE o
<1>1. /\ c \in Nat \ {0} /\ c \in 1..c /\ c + 1 = c + 1
      /\ p.at = c /\ p.at \in Places /\ p.role \in Roles /\ p.unit \in Nat
      /\ p.marker \in BOOLEAN /\ (p.marker => p.role \in Ends) /\ p = s[c]
  BY StreamFacts
<1>2. o.unit = p.unit /\ o.state \in {"active", "discarding"}  BY DEF Ready
<1>3. /\ o.ready \in Seq(Units) /\ o.oversized \in Nat /\ o.crowded \in Nat
      /\ o.buffer \in Seq(Places) /\ Len(o.buffer) \in Nat /\ MaxPieces \in Nat
      /\ o.open \in 0..Len(o.buffer)
  BY AsmFields, DepacketizerAssumption DEF AsmType
<1>4. FinishedInv(s, o.ready, h, b, p.unit) /\ FinishedInv(s, o.ready, h, b, p.unit + 1)
  BY <1>1, <1>2, <1>3, FinishedLater
<1> HIDE DEF p
<1>5. CASE o.state = "discarding"
  <2>1. ~Clean(s, o, b, c + 1)  BY <1>5 DEF Ready
  <2>2. PICK from \in 1..c : s[from].unit = o.unit /\ c - from >= MaxPieces
    BY <1>5 DEF Ready
  <2>3. CASE p.marker
    <3>1. r = Reset(o)  BY <1>5, <2>3
    <3> HIDE DEF r
    <3>2. /\ AsmType(r) /\ r.state = "idle" /\ r.oversized = o.oversized
          /\ r.crowded = o.crowded /\ r.ready = o.ready
      BY <3>1, ResetFields
    <3>3. ~Clean(s, r, b, c + 1)  BY <2>1, <3>2 DEF Clean
    <3>4. AsmInv(s, r, b, c + 1, FALSE)  BY <1>1, <2>3, <3>2, <3>3 DEF AsmInv
    <3>5. NextOf(s, r, b) = p.unit + 1  BY <1>1, <3>2 DEF NextOf
    <3>6. QED  BY <1>4, <3>2, <3>4, <3>5 DEF r, p
  <2>4. CASE ~p.marker
    <3>1. r = o  BY <1>5, <2>4
    <3> HIDE DEF r
    <3>2. AsmInv(s, r, b, c + 1, FALSE)
      BY <1>1, <1>2, <1>5, <2>1, <2>2, <3>1 DEF AsmInv
    <3>3. NextOf(s, r, b) = p.unit  BY <1>2, <1>5, <3>1 DEF NextOf
    <3>4. QED  BY <1>4, <3>1, <3>2, <3>3 DEF r, p
  <2>5. QED  BY <2>3, <2>4
<1>6. CASE o.state = "active"
  <2>0. r = Finished(q, p)  BY <1>6
  <2>1. /\ AsmType(q) /\ q.state \in {"active", "discarding"}
        /\ q.unit = o.unit /\ q.ready = o.ready /\ q.crowded = o.crowded
        /\ q.state = "discarding" => q.oversized = o.oversized + 1 /\ Len(o.buffer) >= MaxPieces
        /\ q.state = "active" =>
             /\ q.dropped = o.dropped /\ q.oversized = o.oversized
             /\ q.pending = o.pending /\ Len(q.buffer) <= Len(o.buffer) + 1
        /\ (q.state = "active" /\ ~q.damaged /\ ~o.skipping) =>
             /\ ~o.damaged /\ ~q.skipping /\ q.buffer = Append(o.buffer, p.at)
             /\ (p.role \in Begins <=> o.open = 0) /\ (q.open = 0 <=> p.role \in Ends)
        /\ (q.state = "active" /\ ~o.damaged /\ ~o.skipping /\ (p.role \in Begins <=> o.open = 0))
             => ~q.damaged
        /\ (q.state = "active" /\ o.damaged) => q.damaged
    BY <1>1, <1>6, CollectFields
  <2>2. Len(q.buffer) \in Nat  BY <2>1, AsmFields DEF AsmType
  <2> HIDE DEF q, r
  <2>3. \A first \in 1..c : (Starting(s, first) /\ s[first].unit = p.unit) => Len(o.buffer) <= c - first
    BY <1>2, <1>6 DEF Ready
  <2>4. CASE q.state = "discarding"
    <3>1. r = q  BY <2>0, <2>4 DEF Finished
    <3>2. PICK first \in 1..c : Starting(s, first) /\ s[first].unit = p.unit
      BY <1>1 DEF StreamInv
    <3>3. c - first >= MaxPieces  BY <1>1, <1>3, <2>1, <2>3, <2>4, <3>2
    <3>4. ~Clean(s, r, b, c + 1)  BY <1>3, <2>1, <2>4, <3>1 DEF Clean
    <3>5. AsmInv(s, r, b, c + 1, FALSE)
      BY <1>1, <1>2, <2>1, <2>4, <3>1, <3>2, <3>3, <3>4 DEF AsmInv
    <3>6. NextOf(s, r, b) = p.unit  BY <1>2, <2>1, <2>4, <3>1 DEF NextOf
    <3>7. QED  BY <1>4, <2>1, <3>1, <3>5, <3>6 DEF r, q, p
  <2>5. CASE q.state = "active"
    <3>1. \A first \in 1..c :
            (Starting(s, first) /\ s[first].unit = q.unit) => Len(q.buffer) <= c + 1 - first
      <4>1. TAKE first \in 1..c
      <4>2. HAVE Starting(s, first) /\ s[first].unit = q.unit
      <4>3. Len(o.buffer) <= c - first  BY <1>2, <2>1, <2>3, <4>2
      <4>4. QED  BY <1>1, <1>3, <2>1, <2>2, <2>5, <4>3
    <3>2. ~q.damaged =>
            /\ ~q.skipping /\ (q.open = 0 <=> p.role \in Ends) /\ q.buffer # <<>>
            /\ \E from \in 1..c : WholeTo(s, q, b, from, c)
      <4>1. SUFFICES ASSUME ~q.damaged
                     PROVE  /\ ~q.skipping /\ (q.open = 0 <=> p.role \in Ends) /\ q.buffer # <<>>
                            /\ \E from \in 1..c : WholeTo(s, q, b, from, c)
        OBVIOUS
      <4>2. ~o.damaged  BY <2>1, <2>5, <4>1
      <4>3. ~o.skipping  BY <1>6, <4>2 DEF Ready
      <4>4. PICK from \in 1..c :
              /\ IsRun(o.buffer, from, c - 1)
              /\ from < c => s[from].role \in Begins
              /\ \A k \in from..(c - 1) : s[k].unit = o.unit
              /\ Hole(s, b, o.unit, from)
        BY <1>6, <4>2 DEF Ready
      <4>5. /\ ~q.skipping /\ q.buffer = Append(o.buffer, c)
            /\ (p.role \in Begins <=> o.open = 0) /\ (q.open = 0 <=> p.role \in Ends)
        BY <1>1, <2>1, <2>5, <4>1, <4>3
      <4>6. /\ Len(q.buffer) = Len(o.buffer) + 1 /\ DOMAIN q.buffer = 1..(Len(o.buffer) + 1)
            /\ DOMAIN o.buffer = 1..Len(o.buffer)
            /\ \A i \in DOMAIN o.buffer : q.buffer[i] = o.buffer[i]
            /\ q.buffer[Len(o.buffer) + 1] = c
        <5>1. c \in Places  BY <1>1
        <5>2. QED  BY <1>3, <4>5, <5>1, Longer
      <4>7. IsRun(q.buffer, from, c)
        <5>1. Len(o.buffer) = c - from  BY <1>1, <4>4 DEF IsRun
        <5>2. \A i \in DOMAIN o.buffer : q.buffer[i] = from + i - 1  BY <4>4, <4>6 DEF IsRun
        <5>3. \A i \in DOMAIN q.buffer : i \in DOMAIN o.buffer \/ i = Len(o.buffer) + 1
          BY <1>3, <4>6
        <5>4. from + (Len(o.buffer) + 1) - 1 = c  BY <1>1, <5>1
        <5>5. \A i \in DOMAIN q.buffer : q.buffer[i] = from + i - 1
          BY <1>1, <4>6, <5>2, <5>3, <5>4
        <5>6. Len(q.buffer) = c + 1 - from  BY <1>1, <4>6, <5>1
        <5>7. QED  BY <5>5, <5>6 DEF IsRun
      <4>8. s[from].role \in Begins
        <5>1. CASE from < c  BY <4>4, <5>1
        <5>2. CASE from = c
          <6>1. Len(o.buffer) = 0  BY <1>1, <4>4, <5>2 DEF IsRun
          <6>2. o.open = 0  BY <1>3, <6>1
          <6>3. QED  BY <1>1, <4>5, <5>2, <6>2
        <5>3. QED  BY <1>1, <5>1, <5>2
      <4>9. \A k \in from..c : s[k].unit = q.unit
        <5>1. \A k \in from..c : k \in from..(c - 1) \/ k = c  BY <1>1
        <5>2. QED  BY <1>1, <1>2, <2>1, <4>4, <5>1
      <4>10. WholeTo(s, q, b, from, c)  BY <2>1, <4>4, <4>7, <4>8, <4>9 DEF WholeTo
      <4>11. q.buffer # <<>>  BY <1>3, <4>6, EmptySeq
      <4>12. QED  BY <4>5, <4>10, <4>11
    <3>3. Clean(s, q, b, c + 1) => q.dropped = 0 /\ ~q.damaged /\ ~q.pending
      <4>1. Clean(s, q, b, c + 1) => Clean(s, o, b, c + 1)  BY <2>1, <2>5 DEF Clean
      <4>2. Clean(s, o, b, c + 1) =>
              o.dropped = 0 /\ ~o.damaged /\ ~o.pending /\ (o.open = 0 <=> p.role \in Begins)
        BY <1>1 DEF Ready
      <4>3. ~o.damaged => ~o.skipping  BY <1>6 DEF Ready
      <4>4. QED  BY <2>1, <2>5, <4>1, <4>2, <4>3
    <3>4. CASE ~p.marker
      <4>1. r = q  BY <2>0, <3>4 DEF Finished
      <4>2. AsmInv(s, r, b, c + 1, FALSE)
        BY <1>1, <1>2, <2>1, <2>5, <3>1, <3>2, <3>3, <3>4, <4>1 DEF AsmInv
      <4>3. NextOf(s, r, b) = p.unit  BY <1>2, <2>1, <2>5, <4>1 DEF NextOf
      <4>4. QED  BY <1>4, <2>1, <4>1, <4>2, <4>3 DEF r, q, p
    <3>5. CASE p.marker
      <4> DEFINE u == [unit |-> q.unit, data |-> q.buffer]
      <4>1. r = Complete(q)  BY <2>0, <2>5, <3>5 DEF Finished
      <4>2. /\ AsmType(r) /\ r.state = "idle" /\ ~r.damaged /\ r.pending = q.pending
            /\ r.oversized = q.oversized
            /\ \/ /\ r.ready = Append(q.ready, u) /\ u \in Units
                  /\ ~q.damaged /\ q.buffer # <<>>
                  /\ r.dropped = q.dropped /\ r.crowded = q.crowded
               \/ /\ r.ready = q.ready
                  /\ \/ r.crowded = q.crowded + 1
                     \/ r.crowded = q.crowded /\ (q.damaged \/ q.open # 0 \/ q.buffer = <<>>)
        BY <2>1, <2>5, <4>1, CompleteFields
      <4>3. NextOf(s, r, b) = p.unit + 1  BY <1>1, <4>2 DEF NextOf
      <4>4. u.unit = p.unit /\ u.data = q.buffer  BY <1>2, <2>1
      <4> HIDE DEF u
      <4>5. FinishedInv(s, r.ready, h, b, NextOf(s, r, b))
        <5>1. CASE r.ready = q.ready  BY <1>4, <2>1, <4>3, <5>1
        <5>2. CASE r.ready = Append(q.ready, u) /\ u \in Units /\ ~q.damaged /\ q.buffer # <<>>
          <6>1. PICK from \in 1..c : WholeTo(s, q, b, from, c)  BY <3>2, <5>2
          <6>2. TailOf(s, u)
            <7>1. IsRun(u.data, from, c) /\ s[from].role \in Begins
              BY <1>1, <4>4, <6>1 DEF WholeTo
            <7>2. \A k \in from..c : s[k].unit = u.unit  BY <1>2, <2>1, <4>4, <6>1 DEF WholeTo
            <7>3. QED  BY <1>1, <3>5, <7>1, <7>2 DEF TailOf
          <6>3. u.data[1] = from
            <7>1. IsRun(q.buffer, from, c)  BY <6>1 DEF WholeTo
            <7>2. Len(q.buffer) >= 1 /\ 1 \in DOMAIN q.buffer
              <8>1. Len(q.buffer) >= 1  BY <1>1, <7>1 DEF IsRun
              <8>2. q.buffer \in Seq(Places)  BY <2>1, AsmFields DEF AsmType
              <8>3. QED  BY <2>2, <8>1, <8>2
            <7>3. q.buffer[1] = from + 1 - 1  BY <7>1, <7>2 DEF IsRun
            <7>4. QED  BY <4>4, <7>3
          <6>4. Hole(s, b, u.unit, u.data[1])  BY <1>2, <2>1, <4>4, <6>1, <6>3 DEF WholeTo
          <6>5. Good(s, u, b)  BY <6>2, <6>4 DEF Good
          <6>6. FinishedInv(s, q.ready, h, b, u.unit) /\ q.ready \in Seq(Units)
            BY <1>3, <1>4, <2>1, <4>4
          <6>7. FinishedInv(s, r.ready, h, b, u.unit + 1)  BY <5>2, <6>5, <6>6, FinishedOneMore
          <6>8. QED  BY <4>3, <4>4, <6>7
        <5>3. QED  BY <4>2, <5>1, <5>2
      <4>6. Clean(s, r, b, c + 1) => r.dropped = 0 /\ ~r.pending
        <5>1. SUFFICES ASSUME Clean(s, r, b, c + 1)  PROVE r.dropped = 0 /\ ~r.pending
          OBVIOUS
        <5>2. r.crowded = 0 /\ q.oversized = 0  BY <4>2, <5>1 DEF Clean
        <5>3. r.crowded = q.crowded  BY <1>3, <2>1, <4>2, <5>2
        <5>4. Clean(s, q, b, c + 1)  BY <5>1, <5>2, <5>3 DEF Clean
        <5>5. q.dropped = 0 /\ ~q.damaged /\ ~q.pending  BY <3>3, <5>4
        <5>6. q.open = 0 /\ q.buffer # <<>>  BY <1>1, <3>2, <3>5, <5>5
        <5>7. q.crowded \in Nat  BY <1>3, <2>1
        <5>8. QED  BY <4>2, <5>3, <5>5, <5>6, <5>7
      <4>7. AsmInv(s, r, b, c + 1, FALSE)
        BY <1>1, <3>5, <4>2, <4>6 DEF AsmInv
      <4>8. QED  BY <4>2, <4>5, <4>7 DEF r, q, p
    <3>6. QED  BY <1>1, <3>4, <3>5
  <2>6. QED  BY <2>1, <2>4, <2>5
<1>7. QED  BY <1>2, <1>5, <1>6

LEMMA AcceptedFirst ==
  ASSUME NEW s, NEW f, StreamInv(s, f), NEW c \in DOMAIN s
  PROVE  LET r == Accepted(NewAssembler, s[c])
             b == <<c>>
         IN /\ AsmType(r) /\ AsmInv(s, r, b, c + 1, FALSE) /\ SeenInv(s, b, c + 1)
            /\ FinishedInv(s, r.ready, <<>>, b, NextOf(s, r, b))
<1> DEFINE a == NewAssembler
           o == Opened(a, s[c])
           b == <<c>>
<1>1. c \in Places /\ c \in 1..Len(s) /\ Len(s) \in Nat /\ s[c].unit \in Nat /\ c \in Nat
  BY StreamFacts
<1>2. /\ b \in Seq(Places) /\ b # <<>> /\ Len(b) = 1 /\ DOMAIN b = {1} /\ b[1] = c /\ LastOf(b) = c
  BY <1>1 DEF LastOf
<1>3. SeenInv(s, b, c + 1)
  <2> HIDE DEF b
  <2>1. c + 1 \in 1..(Len(s) + 1) /\ c \in 1..(c + 1 - 1) /\ 1 <= c + 1 - c  BY <1>1
  <2>2. QED  BY <1>2, <2>1 DEF SeenInv
<1>4. AsmType(a) /\ Ready(s, o, b, c)  BY OpenedFirst
<1>5. AsmType(o) /\ o.ready = <<>>
  <2>1. a.ready = <<>>  BY DEF NewAssembler
  <2> HIDE DEF a
  <2>2. QED  BY <1>1, <1>4, <2>1, OpenedFields
<1> HIDE DEF o, a
<1>6. FinishedInv(s, o.ready, <<>>, b, o.unit) /\ <<>> \in Seq(Units)
  <2>1. DOMAIN o.ready = {} /\ <<>> \in Seq(Units)  BY <1>5, EmptySeq
  <2>2. QED  BY <2>1 DEF FinishedInv
<1> HIDE DEF b
<1>7. QED
  <2> DEFINE r == IF o.state = "active" THEN Finished(Collect(o, s[c]), s[c])
                  ELSE IF s[c].marker THEN Reset(o) ELSE o
  <2>1. /\ AsmType(r) /\ AsmInv(s, r, b, c + 1, FALSE)
        /\ FinishedInv(s, r.ready, <<>>, b, NextOf(s, r, b))
    BY <1>2, <1>4, <1>5, <1>6, Shown
  <2>2. Accepted(a, s[c]) = r  BY DEF Accepted, o
  <2> HIDE DEF r
  <2>3. QED  BY <1>3, <2>1, <2>2 DEF a, b

LEMMA AcceptedNext ==
  ASSUME NEW s, NEW f, StreamInv(s, f), NEW b, NEW c \in DOMAIN s, SeenInv(s, b, c),
         NEW a, AsmType(a), AsmInv(s, a, b, c, FALSE), NEW h \in Seq(Units),
         FinishedInv(s, a.ready, h, b, NextOf(s, a, b))
  PROVE  LET r == Accepted(a, s[c])
             e == Append(b, c)
         IN /\ AsmType(r) /\ AsmInv(s, r, e, c + 1, FALSE) /\ SeenInv(s, e, c + 1)
            /\ FinishedInv(s, r.ready, h, e, NextOf(s, r, e))
<1> DEFINE o == Opened(a, s[c])
           e == Append(b, c)
           last == LastOf(b)
           next == NextOf(s, a, b)
<1>1. /\ c \in Nat /\ last \in DOMAIN s /\ last < c
      /\ s[c].unit \in Nat /\ s[last].unit \in Nat /\ s[last].unit <= s[c].unit
      /\ (s[last].marker => s[last].unit < s[c].unit)
  BY SeenFacts, StreamFacts
<1>2. next \in Int /\ next <= s[c].unit
  <2>1. CASE a.state = "idle"
    <3>1. next = s[last].unit + 1 /\ s[last].marker  BY <2>1 DEF NextOf, AsmInv
    <3>2. QED  BY <1>1, <3>1
  <2>2. CASE a.state # "idle"
    <3>1. next = s[last].unit  BY <2>2 DEF NextOf, AsmInv
    <3>2. QED  BY <1>1, <3>1
  <2>3. QED  BY <2>1, <2>2
<1>3. a.ready \in Seq(Units)  BY AsmFields DEF AsmType
<1>4. AsmType(o) /\ o.ready = a.ready /\ o.unit = s[c].unit  BY <1>1, OpenedFields
<1>5. Ready(s, o, e, c)  BY OpenedNext
<1>6. SeenInv(s, e, c + 1) /\ LastOf(e) = c  BY <1>1, SeenOneMore
<1> HIDE DEF next
<1>7. FinishedInv(s, o.ready, h, e, o.unit)
  <2>1. c >= c /\ FinishedInv(s, a.ready, h, b, next)  BY <1>1 DEF next
  <2>2. FinishedInv(s, a.ready, h, Append(b, c), s[c].unit)  BY <1>2, <1>3, <2>1, FinishedStays
  <2>3. QED  BY <1>4, <2>2
<1> HIDE DEF o, e
<1>8. QED
  <2> DEFINE r == IF o.state = "active" THEN Finished(Collect(o, s[c]), s[c])
                  ELSE IF s[c].marker THEN Reset(o) ELSE o
  <2>1. /\ AsmType(r) /\ AsmInv(s, r, e, c + 1, FALSE)
        /\ FinishedInv(s, r.ready, h, e, NextOf(s, r, e))
    BY <1>4, <1>5, <1>6, <1>7, Shown
  <2>2. Accepted(a, s[c]) = r  BY DEF Accepted, o
  <2> HIDE DEF r
  <2>3. QED  BY <1>6, <2>1, <2>2 DEF e

-----------------------------------------------------------------------------
(* What does not show the assembler a packet. *)

LEMMA SeenLater ==
  ASSUME NEW s, NEW f, StreamInv(s, f), NEW b, NEW c, SeenInv(s, b, c),
         NEW d \in 1..(Len(s) + 1), d >= c
  PROVE  SeenInv(s, b, d)
<1>1. /\ c \in Nat /\ d \in Nat /\ Len(b) <= c - b[1] /\ b[1] \in Nat /\ Len(b) \in Nat
  BY SeenFacts, StreamFacts
<1>2. \A i \in DOMAIN b : b[i] \in 1..(d - 1)
  <2>1. \A i \in DOMAIN b : b[i] \in 1..(c - 1)  BY DEF SeenInv
  <2>2. QED  BY <1>1, <2>1
<1>3. Len(b) <= d - b[1]  BY <1>1
<1>4. QED  BY <1>2, <1>3 DEF SeenInv

\* A gap marked is a gap no more.
LEMMA GapMarked ==
  ASSUME NEW s, NEW f, StreamInv(s, f), NEW b, NEW c, SeenInv(s, b, c),
         NEW a, AsmType(a), NEW g \in BOOLEAN, AsmInv(s, a, b, c, g), NEW d \in Int, d >= c, g \/ d > c
  PROVE  LET q == MarkGap(a)
         IN /\ AsmType(q) /\ AsmInv(s, q, b, d, FALSE)
            /\ q.ready = a.ready /\ NextOf(s, q, b) = NextOf(s, a, b)
<1> DEFINE q == MarkGap(a)
           last == LastOf(b)
<1>1. /\ AsmType(q) /\ q.state = a.state /\ q.unit = a.unit /\ q.ready = a.ready
      /\ q.dropped = a.dropped /\ q.oversized = a.oversized /\ q.crowded = a.crowded
      /\ Len(q.buffer) <= Len(a.buffer)
      /\ (a.state = "active" => q.damaged) /\ (a.state = "idle" => q.pending)
  BY MarkGapFields
<1>2. /\ c \in Nat /\ Len(b) \in Nat /\ b[1] \in Nat /\ Len(b) <= c - b[1]
      /\ last \in Nat
  BY SeenFacts, StreamFacts
<1>3. Len(q.buffer) \in Nat /\ Len(a.buffer) \in Nat  BY <1>1, AsmFields DEF AsmType
<1> HIDE DEF q
<1>4. ~Clean(s, q, b, d)
  <2>1. SUFFICES ASSUME Clean(s, q, b, d)  PROVE FALSE  OBVIOUS
  <2>2. d = c /\ g  BY <1>2, <2>1 DEF Clean
  <2>3. Clean(s, a, b, c)  BY <1>1, <2>1, <2>2 DEF Clean
  <2>4. QED  BY <2>2, <2>3 DEF AsmInv
<1>5. a.state = "active" =>
        \A first \in 1..last :
          (Starting(s, first) /\ s[first].unit = a.unit) => Len(q.buffer) <= last + 1 - first
  <2>1. HAVE a.state = "active"
  <2>2. TAKE first \in 1..last
  <2>3. HAVE Starting(s, first) /\ s[first].unit = a.unit
  <2>4. Len(a.buffer) <= last + 1 - first  BY <2>1, <2>3 DEF AsmInv
  <2>5. QED  BY <1>1, <1>2, <1>3, <2>4
<1>6. AsmInv(s, q, b, d, FALSE)  BY <1>1, <1>4, <1>5 DEF AsmInv
<1>7. QED  BY <1>1, <1>6 DEF q, NextOf

\* A number written off is a gap to be marked.
LEMMA Skipped ==
  ASSUME NEW s, NEW f, StreamInv(s, f), NEW b, NEW c, SeenInv(s, b, c),
         NEW a, NEW g \in BOOLEAN, AsmInv(s, a, b, c, g)
  PROVE  AsmInv(s, a, b, c + 1, TRUE)
<1>1. /\ c \in Nat /\ Len(b) \in Nat /\ b[1] \in Nat /\ Len(b) <= c - b[1]
  BY SeenFacts, StreamFacts
<1>2. ~Clean(s, a, b, c + 1)  BY <1>1 DEF Clean
<1>3. QED  BY <1>2 DEF AsmInv

\* What push returns goes from the one queue to the other.
LEMMA HandedOn ==
  ASSUME NEW s, NEW a, AsmType(a), a.ready # <<>>, NEW h \in Seq(Units), NEW b, NEW c, NEW g,
         AsmInv(s, a, b, c, g), FinishedInv(s, a.ready, h, b, NextOf(s, a, b))
  PROVE  LET q == [a EXCEPT !.ready = Tail(@)]
             e == Append(h, Head(a.ready))
         IN /\ AsmType(q) /\ AsmInv(s, q, b, c, g) /\ e \in Seq(Units)
            /\ Len(q.ready) < ReadyCapacity
            /\ FinishedInv(s, q.ready, e, b, NextOf(s, q, b))
<1> DEFINE q == [a EXCEPT !.ready = Tail(@)]
           u == Head(a.ready)
           r == Tail(a.ready)
           e == Append(h, u)
           next == NextOf(s, a, b)
<1>1. /\ AsmType(q) /\ q.ready = r /\ u \in Units /\ Len(q.ready) = Len(a.ready) - 1
      /\ q.state = a.state /\ q.unit = a.unit /\ q.damaged = a.damaged
      /\ q.pending = a.pending /\ q.open = a.open /\ q.skipping = a.skipping
      /\ q.buffer = a.buffer /\ q.dropped = a.dropped /\ q.crowded = a.crowded
      /\ q.oversized = a.oversized
  BY Handing
<1>2. /\ a.ready \in Seq(Units) /\ Len(a.ready) \in Nat /\ Len(a.ready) <= ReadyCapacity
      /\ ReadyCapacity \in Nat
  BY AsmFields, DepacketizerAssumption DEF AsmType
<1> HIDE DEF q
<1>3. AsmInv(s, q, b, c, g) /\ NextOf(s, q, b) = next
  BY <1>1 DEF AsmInv, NextOf, WholeTo, Clean
<1>4. /\ Len(a.ready) \in Nat \ {0} /\ DOMAIN a.ready = 1..Len(a.ready) /\ u = a.ready[1]
      /\ DOMAIN r = 1..(Len(a.ready) - 1)
      /\ \A i \in DOMAIN r : r[i] = a.ready[i + 1]
  BY <1>2
<1>5. /\ e \in Seq(Units) /\ Len(h) \in Nat /\ DOMAIN h = 1..Len(h) /\ DOMAIN e = 1..(Len(h) + 1)
      /\ \A i \in DOMAIN h : e[i] = h[i]
      /\ e[Len(h) + 1] = u
  BY <1>1, Longer
<1> HIDE DEF e, r, u, next
<1>6. FinishedInv(s, a.ready, h, b, next)  BY DEF next
<1>7. 1 \in DOMAIN a.ready /\ \A i \in DOMAIN r : i + 1 \in DOMAIN a.ready /\ 1 < i + 1 /\ i \in Nat
  BY <1>4
<1>8. \A i \in DOMAIN e : (i \in DOMAIN h /\ e[i] = h[i]) \/ (i = Len(h) + 1 /\ e[i] = a.ready[1])
  BY <1>4, <1>5
<1>9. \A i \in DOMAIN e : Good(s, e[i], b) /\ e[i].unit < next
  BY <1>6, <1>7, <1>8 DEF FinishedInv
<1>10. \A i \in DOMAIN r : Good(s, r[i], b) /\ r[i].unit < next
  BY <1>4, <1>6, <1>7 DEF FinishedInv
<1>11. \A i, j \in DOMAIN e : i < j => e[i].unit < e[j].unit
  <2> TAKE i, j \in DOMAIN e
  <2> HAVE i < j
  <2>1. i \in DOMAIN h /\ e[i] = h[i]  BY <1>5
  <2>2. CASE j \in DOMAIN h /\ e[j] = h[j]  BY <1>6, <2>1, <2>2 DEF FinishedInv
  <2>3. CASE e[j] = a.ready[1]  BY <1>6, <1>7, <2>1, <2>3 DEF FinishedInv
  <2>4. QED  BY <1>8, <2>2, <2>3
<1>12. \A i, j \in DOMAIN r : i < j => r[i].unit < r[j].unit
  <2> TAKE i, j \in DOMAIN r
  <2> HAVE i < j
  <2>1. i + 1 < j + 1  BY <1>7
  <2>2. a.ready[i + 1].unit < a.ready[j + 1].unit  BY <1>6, <1>7, <2>1 DEF FinishedInv
  <2>3. QED  BY <1>4, <2>2
<1>13. \A i \in DOMAIN e, j \in DOMAIN r : e[i].unit < r[j].unit
  <2> TAKE i \in DOMAIN e, j \in DOMAIN r
  <2>1. r[j] = a.ready[j + 1] /\ j + 1 \in DOMAIN a.ready /\ 1 < j + 1  BY <1>4, <1>7
  <2>2. CASE i \in DOMAIN h /\ e[i] = h[i]  BY <1>6, <2>1, <2>2 DEF FinishedInv
  <2>3. CASE e[i] = a.ready[1]  BY <1>6, <1>7, <2>1, <2>3 DEF FinishedInv
  <2>4. QED  BY <1>8, <2>2, <2>3
<1>14. FinishedInv(s, r, e, b, next)
  BY <1>9, <1>10, <1>11, <1>12, <1>13 DEF FinishedInv
<1>15. Len(q.ready) < ReadyCapacity  BY <1>1, <1>2
<1>16. QED  BY <1>1, <1>3, <1>5, <1>14, <1>15 DEF q, e, u

-----------------------------------------------------------------------------
(* The ring. *)

LEMMA SlotType ==
  ASSUME NEW n \in Int
  PROVE  Slot(n) \in 0..(Window - 1)
BY DepacketizerAssumption, Division DEF Slot

\* What the ring holds under the cursor's number is the packet at its place.
LEMMA HeldHere ==
  ASSUME NEW s, NEW f, StreamInv(s, f), NEW r, RingType(s, r), NEW c \in 1..(Len(s) + 1)
  PROVE  LET k == Circle(f, c)
             held == r[Slot(k)] # None /\ r[Slot(k)].seq = k
         IN /\ k \in 0..(SeqModulus - 1)
            /\ held => c \in DOMAIN s /\ r[Slot(k)] = s[c]
            /\ \A i \in 0..(Window - 1) :
                 r[i] # None /\ r[i].at = c => i = Slot(k) /\ held
<1> DEFINE k == Circle(f, c)
<1>1. /\ Len(s) \in Nat /\ DOMAIN s = 1..Len(s) /\ f \in Int /\ c \in Int
      /\ \A j \in DOMAIN s : s[j].seq = Circle(f, j) /\ s[j].at = j
      /\ Len(s) <= MaxPackets /\ MaxPackets \in Nat
  BY StreamFacts, HalfCircle DEF StreamInv
<1>2. k \in 0..(SeqModulus - 1) /\ k \in Int
  BY <1>1, Apart, HalfCircle
<1>3. Slot(k) \in 0..(Window - 1)  BY <1>2, SlotType
<1>4. ASSUME r[Slot(k)] # None, r[Slot(k)].seq = k
      PROVE  c \in DOMAIN s /\ r[Slot(k)] = s[c]
  <2>1. PICK j \in DOMAIN s : r[Slot(k)] = s[j]  BY <1>3, <1>4 DEF RingType
  <2>2. Circle(f, j) = Circle(f, c) /\ j \in Int  BY <1>1, <1>4, <2>1
  <2>3. j - c <= MaxPackets /\ c - j <= MaxPackets  BY <1>1, <2>1
  <2>4. j = c  BY <1>1, <2>2, <2>3, OnePlace
  <2>5. QED  BY <2>1, <2>4
<1>5. ASSUME NEW i \in 0..(Window - 1), r[i] # None, r[i].at = c
      PROVE  i = Slot(k) /\ r[Slot(k)] # None /\ r[Slot(k)].seq = k
  <2>1. PICK j \in DOMAIN s : r[i] = s[j]  BY <1>5 DEF RingType
  <2>2. j = c /\ r[i].seq = k  BY <1>1, <1>5, <2>1
  <2>3. Slot(r[i].seq) = i  BY <1>5 DEF RingType
  <2>4. QED  BY <1>5, <2>2, <2>3
<1>6. QED  BY <1>2, <1>4, <1>5

LEMMA RingTaken ==
  ASSUME NEW s, NEW f, StreamInv(s, f), NEW r, RingType(s, r), NEW c \in 1..(Len(s) + 1)
  PROVE  LET q == [r EXCEPT ![Slot(Circle(f, c))] = None]
         IN /\ RingType(s, q)
            /\ \A p \in {"sweep", "drain"}, l \in Int :
                 RingInv(r, c, p, l) => RingInv(q, c + 1, p, l - 1)
<1> DEFINE k == Circle(f, c)
           q == [r EXCEPT ![Slot(k)] = None]
<1>1. k \in Int /\ Slot(k) \in 0..(Window - 1)  BY HeldHere, SlotType
<1>2. DOMAIN r = 0..(Window - 1)  BY DEF RingType
<1>3. DOMAIN q = 0..(Window - 1) /\ q[Slot(k)] = None
      /\ \A i \in 0..(Window - 1) : i # Slot(k) => q[i] = r[i]
  BY <1>1, <1>2
<1> HIDE DEF q
<1>4. RingType(s, q)  BY <1>3 DEF RingType
<1>5. ASSUME NEW p \in {"sweep", "drain"}, NEW l \in Int, RingInv(r, c, p, l)
      PROVE  RingInv(q, c + 1, p, l - 1)
  <2>1. SUFFICES ASSUME NEW i \in 0..(Window - 1), q[i] # None
                 PROVE  /\ q[i].at >= c + 1
                        /\ q[i].at <= (IF p = "sweep" THEN (c + 1) + (l - 1) - 1 ELSE (c + 1) + Window)
    BY DEF RingInv
  <2>2. i # Slot(k) /\ q[i] = r[i]  BY <1>3, <2>1
  <2>3. r[i].at # c  BY <2>1, <2>2, HeldHere
  <2>4. /\ r[i].at >= c
        /\ r[i].at <= (IF p = "sweep" THEN c + l - 1 ELSE c + Window)
    BY <1>5, <2>1, <2>2 DEF RingInv
  <2>5. PICK j \in DOMAIN s : r[i] = s[j]  BY <2>1, <2>2 DEF RingType
  <2>6. r[i].at \in Int /\ c \in Int /\ Window \in Nat  BY <2>5, StreamFacts, HalfCircle
  <2>7. QED  BY <2>2, <2>3, <2>4, <2>6
<1>6. QED  BY <1>4, <1>5 DEF q

LEMMA RingPassed ==
  ASSUME NEW s, NEW f, StreamInv(s, f), NEW r, RingType(s, r), NEW c \in 1..(Len(s) + 1),
         ~(r[Slot(Circle(f, c))] # None /\ r[Slot(Circle(f, c))].seq = Circle(f, c))
  PROVE  /\ \A l \in Int : RingInv(r, c, "sweep", l) => RingInv(r, c + 1, "sweep", l - 1)
         /\ \A l, m \in Int : RingInv(r, c, "drain", l) => RingInv(r, c, "rest", m)
<1>1. \A i \in 0..(Window - 1) : r[i] # None =>
        r[i].at # c /\ r[i].at \in Int /\ c \in Int
  <2> TAKE i \in 0..(Window - 1)
  <2> HAVE r[i] # None
  <2>1. r[i].at # c  BY HeldHere
  <2>2. PICK j \in DOMAIN s : r[i] = s[j]  BY DEF RingType
  <2>3. QED  BY <2>1, <2>2, StreamFacts
<1>2. QED  BY <1>1 DEF RingInv

-----------------------------------------------------------------------------
(* The steps. *)

Same == UNCHANGED <<stream, base>>

LEMMA InvFacts ==
  ASSUME ReassemblyInv
  PROVE  /\ StreamInv(stream, base) /\ RingType(stream, reorder) /\ AsmType(asm)
         /\ base \in Int /\ Len(stream) \in Nat /\ DOMAIN stream = 1..Len(stream)
         /\ Len(stream) <= MaxPackets /\ MaxPackets \in Nat
         /\ handed \in Seq(Units) /\ left \in 0..(Window + 1) /\ gap \in BOOLEAN
         /\ joined \in BOOLEAN /\ stopped \in BOOLEAN
         /\ ~joined => Untouched
         /\ joined => \E c \in 1..(Len(stream) + 1) : Reached(c)
         /\ \A i \in DOMAIN stream : stream[i].seq = Circle(base, i) /\ stream[i].at = i
BY StreamFacts, HalfCircle DEF ReassemblyInv, StreamInv

\* How far a packet is ahead of the cursor is how far it is on in the stream.
LEMMA AheadIsTrue ==
  ASSUME ReassemblyInv, NEW i \in DOMAIN stream, NEW c \in Int, 2 <= c, c <= Len(stream) + 1,
         cursor = Circle(base, c)
  PROVE  Distance(stream[i].seq, cursor) = i - c
<1>1. /\ stream[i].seq = Circle(base, i) /\ base \in Int /\ i \in Int
      /\ i - c < MaxPackets /\ c - i <= MaxPackets
  BY InvFacts
<1>2. QED  BY <1>1, DistanceIsTrue

LEMMA ReachedFacts ==
  ASSUME ReassemblyInv, joined
  PROVE  \E c \in 1..(Len(stream) + 1) :
           /\ Reached(c) /\ 2 <= c /\ cursor = Circle(base, c)
           /\ SeenInv(stream, assembled, c) /\ AsmInv(stream, asm, assembled, c, gap)
           /\ FinishedInv(stream, asm.ready, handed, assembled, NextOf(stream, asm, assembled))
           /\ lost = c - assembled[1] - Len(assembled)
           /\ assembled \in Seq(Places) /\ Len(assembled) \in Nat /\ assembled[1] \in Nat
           /\ assembled # <<>>
<1>1. PICK c \in 1..(Len(stream) + 1) : Reached(c)  BY InvFacts
<1>2. StreamInv(stream, base) /\ SeenInv(stream, assembled, c)  BY <1>1, InvFacts DEF Reached
<1>3. /\ assembled \in Seq(Places) /\ Len(assembled) \in Nat /\ c \in Nat
      /\ assembled[1] \in DOMAIN stream /\ assembled[1] <= LastOf(assembled)
      /\ LastOf(assembled) < c /\ LastOf(assembled) \in DOMAIN stream
      /\ DOMAIN stream = 1..Len(stream) /\ Len(stream) \in Nat
  BY <1>2, SeenFacts, InvFacts
<1>4. 2 <= c /\ assembled[1] \in Nat  BY <1>3
<1>5. assembled # <<>>  BY <1>2 DEF SeenInv
<1>6. QED  BY <1>1, <1>3, <1>4, <1>5 DEF Reached

\* What push returns leaves the rest as it was.
LEMMA ReturnKeeps ==
  ASSUME ReassemblyInv, Return, NEW c,
         AsmInv(stream, asm, assembled, c, gap),
         FinishedInv(stream, asm.ready, handed, assembled, NextOf(stream, asm, assembled))
  PROVE  /\ AsmType(asm') /\ handed' \in Seq(Units) /\ Len(asm'.ready) < ReadyCapacity
         /\ AsmInv(stream, asm', assembled, c, gap)
         /\ FinishedInv(stream, asm'.ready, handed', assembled, NextOf(stream, asm', assembled))
<1>1. AsmType(asm) /\ handed \in Seq(Units)  BY InvFacts
<1>2. CASE asm.ready = <<>>
  <2>1. asm' = asm /\ handed' = handed  BY <1>2 DEF Return
  <2>2. Len(asm.ready) = 0 /\ ReadyCapacity \in Nat \ {0}  BY <1>2, DepacketizerAssumption
  <2>3. QED  BY <1>1, <2>1, <2>2
<1>3. CASE asm.ready # <<>>
  <2> DEFINE q == [asm EXCEPT !.ready = Tail(@)]
             e == Append(handed, Head(asm.ready))
  <2>1. asm' = q /\ handed' = e  BY <1>3 DEF Return
  <2>2. /\ AsmType(q) /\ AsmInv(stream, q, assembled, c, gap) /\ e \in Seq(Units)
        /\ Len(q.ready) < ReadyCapacity
        /\ FinishedInv(stream, q.ready, e, assembled, NextOf(stream, q, assembled))
    BY <1>1, <1>3, HandedOn
  <2> HIDE DEF q, e
  <2>3. QED  BY <2>1, <2>2
<1>4. QED  BY <1>2, <1>3

LEMMA PushNextKeeps ==
  ASSUME ReassemblyInv, Same, progress = "rest", NEW i \in DOMAIN stream, PushNext(stream[i])
  PROVE  ReassemblyInv'
<1> DEFINE p == stream[i]
<1>1. /\ stream' = stream /\ base' = base /\ reorder' = reorder /\ lost' = lost
      /\ target' = target /\ left' = left /\ gap' = gap /\ handed' = handed
      /\ stopped' = stopped /\ joined' = TRUE /\ progress' = "drain"
      /\ asm' = Accepted(asm, p) /\ assembled' = Append(assembled, i)
      /\ cursor' = Circle(base, i + 1) /\ Ahead(p) = 0 /\ p.seq = Circle(base, i)
      /\ i \in Nat /\ i \in 1..Len(stream)
  <2>1. p.at = i /\ p.seq = Circle(base, i) /\ base \in Int /\ i \in 1..Len(stream) /\ i \in Nat
    BY InvFacts
  <2>2. Following(p.seq) = Circle(base, i + 1)  BY <2>1, NextOnCircle
  <2>3. QED  BY <2>1, <2>2 DEF PushNext, Same, Assemble, sweepVars
<1>2. SUFFICES AsmType(asm') /\ Reached(i + 1)'
  <2>1. i + 1 \in 1..(Len(stream) + 1)  BY <1>1, InvFacts
  <2>2. QED  BY <1>1, <2>1, InvFacts DEF ReassemblyInv
<1>3. StreamInv(stream, base) /\ AsmType(asm) /\ handed \in Seq(Units) /\ Len(stream) \in Nat
  BY InvFacts
<1>4. CASE joined
  <2>1. PICK c \in 1..(Len(stream) + 1) :
          /\ Reached(c) /\ 2 <= c /\ cursor = Circle(base, c)
          /\ SeenInv(stream, assembled, c) /\ AsmInv(stream, asm, assembled, c, gap)
          /\ FinishedInv(stream, asm.ready, handed, assembled, NextOf(stream, asm, assembled))
          /\ lost = c - assembled[1] - Len(assembled)
          /\ assembled \in Seq(Places) /\ Len(assembled) \in Nat /\ assembled[1] \in Nat
          /\ assembled # <<>>
    BY <1>4, ReachedFacts
  <2>2. c = i
    <3>1. Ahead(p) = i - c  BY <1>3, <1>4, <2>1, AheadIsTrue DEF Ahead, From
    <3>2. QED  BY <1>1, <1>3, <2>1, <3>1
  <2>3. gap = FALSE /\ target = None  BY <2>1 DEF Reached, SweepInv
  <2> DEFINE r == Accepted(asm, p)
             e == Append(assembled, i)
  <2>4. /\ AsmType(r) /\ AsmInv(stream, r, e, i + 1, FALSE) /\ SeenInv(stream, e, i + 1)
        /\ FinishedInv(stream, r.ready, handed, e, NextOf(stream, r, e))
    BY <1>3, <2>1, <2>2, <2>3, AcceptedNext
  <2>5. e[1] = assembled[1] /\ Len(e) = Len(assembled) + 1
    BY <1>1, <1>3, <2>1, <2>2, SeenOneMore
  <2> HIDE DEF r, e
  <2>6. asm' = r /\ assembled' = e  BY <1>1 DEF r, e
  <2>7. lost = (i + 1) - e[1] - Len(e)  BY <1>1, <2>1, <2>2, <2>5
  <2>8. ~stopped => RingInv(reorder, i + 1, "drain", left)
    <3>1. SUFFICES ASSUME ~stopped  PROVE RingInv(reorder, i + 1, "drain", left)  OBVIOUS
    <3>2. RingInv(reorder, i, "rest", left)  BY <2>1, <2>2, <3>1 DEF Reached
    <3>3. \A j \in 0..(Window - 1) : reorder[j] # None => reorder[j].at \in Int
      BY <1>3, StreamFacts, InvFacts DEF RingType
    <3>4. QED  BY <1>1, <3>2, <3>3, HalfCircle DEF RingInv
  <2>9. SweepInv(stream, i + 1, "drain", target, left, gap)  BY <2>3 DEF SweepInv
  <2>10. QED  BY <1>1, <2>3, <2>4, <2>6, <2>7, <2>8, <2>9 DEF Reached
<1>5. CASE ~joined
  <2>1. /\ assembled = <<>> /\ asm = NewAssembler /\ handed = <<>> /\ lost = 0
        /\ target = None /\ gap = FALSE /\ ~stopped
        /\ \A j \in 0..(Window - 1) : reorder[j] = None
    BY <1>5, InvFacts DEF Untouched
  <2> DEFINE r == Accepted(NewAssembler, p)
             e == <<i>>
  <2>2. /\ AsmType(r) /\ AsmInv(stream, r, e, i + 1, FALSE) /\ SeenInv(stream, e, i + 1)
        /\ FinishedInv(stream, r.ready, <<>>, e, NextOf(stream, r, e))
    BY <1>3, AcceptedFirst
  <2>3. Append(<<>>, i) = e /\ e[1] = i /\ Len(e) = 1  OBVIOUS
  <2> HIDE DEF r, e
  <2>4. asm' = r /\ assembled' = e  BY <1>1, <2>1, <2>3 DEF r
  <2>5. lost = (i + 1) - e[1] - Len(e)  BY <1>1, <2>1, <2>3
  <2>6. RingInv(reorder, i + 1, "drain", left)  BY <2>1 DEF RingInv
  <2>7. SweepInv(stream, i + 1, "drain", target, left, gap)  BY <2>1 DEF SweepInv
  <2>8. QED  BY <1>1, <2>1, <2>2, <2>4, <2>5, <2>6, <2>7 DEF Reached
<1>6. QED  BY <1>4, <1>5, InvFacts

\* Only a stream that was joined has a cursor to be late for or ahead of.
LEMMA JoinsAtOnce ==
  ASSUME ReassemblyInv, NEW i \in DOMAIN stream, ~joined
  PROVE  Ahead(stream[i]) = 0
<1>1. /\ stream[i].seq = Circle(base, i) /\ base \in Int /\ i \in Int
      /\ i - i < MaxPackets /\ i - i <= MaxPackets /\ i - i = 0
  BY InvFacts
<1>2. Distance(Circle(base, i), Circle(base, i)) = i - i  BY <1>1, DistanceIsTrue
<1>3. QED  BY <1>1, <1>2 DEF Ahead, From

LEMMA PushLateKeeps ==
  ASSUME ReassemblyInv, Same, progress = "rest", NEW i \in DOMAIN stream, PushLate(stream[i])
  PROVE  ReassemblyInv'
<1>1. /\ stream' = stream /\ base' = base /\ reorder' = reorder /\ lost' = lost
      /\ cursor' = cursor /\ target' = target /\ left' = left /\ gap' = gap
      /\ stopped' = stopped /\ joined' = joined /\ progress' = progress
      /\ assembled' = assembled /\ Ahead(stream[i]) < 0 /\ Return
  BY DEF PushLate, Same, ringVars, sweepVars
<1>2. joined  BY <1>1, JoinsAtOnce, InvFacts
<1>3. PICK c \in 1..(Len(stream) + 1) :
        /\ Reached(c) /\ AsmInv(stream, asm, assembled, c, gap)
        /\ FinishedInv(stream, asm.ready, handed, assembled, NextOf(stream, asm, assembled))
  BY <1>2, ReachedFacts
<1>4. /\ AsmType(asm') /\ handed' \in Seq(Units) /\ Len(asm'.ready) < ReadyCapacity
      /\ AsmInv(stream, asm', assembled, c, gap)
      /\ FinishedInv(stream, asm'.ready, handed', assembled, NextOf(stream, asm', assembled))
  BY <1>1, <1>3, ReturnKeeps
<1>5. Reached(c)'  BY <1>1, <1>3, <1>4 DEF Reached
<1>6. QED  BY <1>1, <1>2, <1>4, <1>5 DEF ReassemblyInv

LEMMA PushEarlyKeeps ==
  ASSUME ReassemblyInv, Same, progress = "rest", NEW i \in DOMAIN stream, PushEarly(stream[i])
  PROVE  ReassemblyInv'
<1> DEFINE p == stream[i]
           r == IF reorder[Slot(p.seq)] = None THEN [reorder EXCEPT ![Slot(p.seq)] = p] ELSE reorder
<1>1. /\ stream' = stream /\ base' = base /\ reorder' = r /\ lost' = lost
      /\ cursor' = cursor /\ target' = target /\ left' = left /\ gap' = gap
      /\ stopped' = stopped /\ joined' = joined /\ progress' = progress
      /\ assembled' = assembled /\ Ahead(p) \in 1..Window /\ Return
  BY DEF PushEarly, Same, sweepVars
<1>2. joined  BY <1>1, JoinsAtOnce, InvFacts
<1>3. PICK c \in 1..(Len(stream) + 1) :
        /\ Reached(c) /\ 2 <= c /\ cursor = Circle(base, c)
        /\ AsmInv(stream, asm, assembled, c, gap)
        /\ FinishedInv(stream, asm.ready, handed, assembled, NextOf(stream, asm, assembled))
  BY <1>2, ReachedFacts
<1>4. /\ AsmType(asm') /\ handed' \in Seq(Units) /\ Len(asm'.ready) < ReadyCapacity
      /\ AsmInv(stream, asm', assembled, c, gap)
      /\ FinishedInv(stream, asm'.ready, handed', assembled, NextOf(stream, asm', assembled))
  BY <1>1, <1>3, ReturnKeeps
<1>5. /\ RingType(stream, reorder) /\ StreamInv(stream, base) /\ Window \in Nat
      /\ i \in 1..Len(stream) /\ Len(stream) \in Nat /\ p.at = i /\ p.seq \in Int
      /\ DOMAIN reorder = 0..(Window - 1)
  <2>1. base \in Int /\ i \in Int /\ p.seq = Circle(base, i)  BY InvFacts
  <2>2. p.seq \in Int  BY <2>1, Apart, HalfCircle
  <2>3. QED  BY <2>2, InvFacts, HalfCircle DEF RingType
<1>6. i \in (c + 1)..(c + Window)
  <2>1. Ahead(p) = i - c  BY <1>2, <1>3, AheadIsTrue DEF Ahead, From
  <2>2. QED  BY <1>1, <1>3, <1>5, <2>1
<1>7. Slot(p.seq) \in 0..(Window - 1)  BY <1>5, SlotType
<1>8. /\ DOMAIN r = 0..(Window - 1)
      /\ \A j \in 0..(Window - 1) : r[j] = reorder[j] \/ (r[j] = p /\ Slot(p.seq) = j)
  BY <1>5, <1>7
<1> HIDE DEF r
<1>9. RingType(stream, r)  BY <1>5, <1>8 DEF RingType
<1>10. ~stopped => RingInv(r, c, "rest", left)
  <2>1. HAVE ~stopped
  <2>2. RingInv(reorder, c, "rest", left)  BY <1>3, <2>1 DEF Reached
  <2>3. c + 1 <= p.at /\ p.at <= c + Window  BY <1>3, <1>5, <1>6
  <2> HIDE DEF p
  <2>4. QED  BY <1>8, <2>2, <2>3 DEF RingInv
<1>11. Reached(c)'  BY <1>1, <1>3, <1>4, <1>10 DEF Reached
<1>12. QED  BY <1>1, <1>2, <1>4, <1>9, <1>11 DEF ReassemblyInv

LEMMA PushBeyondKeeps ==
  ASSUME ReassemblyInv, Same, progress = "rest", NEW i \in DOMAIN stream, PushBeyond(stream[i])
  PROVE  ReassemblyInv'
<1> DEFINE p == stream[i]
<1>1. /\ stream' = stream /\ base' = base /\ reorder' = reorder /\ lost' = lost
      /\ cursor' = cursor /\ target' = p /\ left' = Window + 1 /\ gap' = FALSE
      /\ stopped' = stopped /\ joined' = joined /\ progress' = "sweep"
      /\ assembled' = assembled /\ asm' = asm /\ handed' = handed /\ Ahead(p) > Window
  BY DEF PushBeyond, Same, ringVars
<1>2. joined  BY <1>1, JoinsAtOnce, InvFacts, HalfCircle
<1>3. PICK c \in 1..(Len(stream) + 1) : Reached(c) /\ 2 <= c /\ cursor = Circle(base, c)
  BY <1>2, ReachedFacts
<1>4. /\ Window \in Nat /\ i \in 1..Len(stream) /\ Len(stream) \in Nat /\ p.at = i /\ c \in Nat
  BY InvFacts, HalfCircle
<1>5. p.at >= c + (Window + 1)
  <2>1. Ahead(p) = i - c  BY <1>2, <1>3, <1>4, AheadIsTrue DEF Ahead, From
  <2>2. QED  BY <1>1, <1>3, <1>4, <2>1
<1>6. SweepInv(stream, c, "sweep", p, Window + 1, FALSE)  BY <1>5 DEF SweepInv
<1>7. ~stopped => RingInv(reorder, c, "sweep", Window + 1)
  <2>1. HAVE ~stopped
  <2>2. RingInv(reorder, c, "rest", left)  BY <1>3, <2>1 DEF Reached
  <2>3. \A j \in 0..(Window - 1) : reorder[j] # None => reorder[j].at \in Int
    BY StreamFacts, InvFacts DEF RingType
  <2>4. QED  BY <1>4, <2>2, <2>3 DEF RingInv
<1>8. AsmInv(stream, asm, assembled, c, FALSE)
  <2>1. gap = FALSE  BY <1>3 DEF Reached, SweepInv
  <2>2. QED  BY <1>3, <2>1 DEF Reached
<1>9. Reached(c)'  BY <1>1, <1>3, <1>6, <1>7, <1>8 DEF Reached
<1>10. left' \in 0..(Window + 1) /\ gap' \in BOOLEAN
  <2>1. left' = Window + 1 /\ gap' = FALSE  BY <1>1
  <2>2. Window + 1 \in 0..(Window + 1)  BY <1>4
  <2>3. QED  BY <2>1, <2>2
<1>11. QED  BY <1>1, <1>2, <1>9, <1>10 DEF ReassemblyInv

\* A packet from the ring goes to the assembler, whatever the turn.
LEMMA TakeKeeps ==
  ASSUME ReassemblyInv, NEW c \in 1..(Len(stream) + 1), Reached(c), NEW a, AsmType(a),
         AsmInv(stream, a, assembled, c, FALSE),
         FinishedInv(stream, a.ready, handed, assembled, NextOf(stream, a, assembled)),
         Holds(cursor), TakeHeld(a)
  PROVE  /\ c \in DOMAIN stream /\ AsmType(asm') /\ cursor' = Circle(base, c + 1)
         /\ SeenInv(stream, assembled', c + 1)
         /\ AsmInv(stream, asm', assembled', c + 1, FALSE)
         /\ FinishedInv(stream, asm'.ready, handed, assembled', NextOf(stream, asm', assembled'))
         /\ lost = (c + 1) - assembled'[1] - Len(assembled')
         /\ RingType(stream, reorder')
         /\ \A p \in {"sweep", "drain"}, l \in Int :
              RingInv(reorder, c, p, l) => RingInv(reorder', c + 1, p, l - 1)
<1>1. /\ SeenInv(stream, assembled, c) /\ cursor = Circle(base, c)
      /\ lost = c - assembled[1] - Len(assembled)
  BY DEF Reached
<1>2. /\ StreamInv(stream, base) /\ RingType(stream, reorder) /\ handed \in Seq(Units)
      /\ base \in Int /\ c \in Nat
  BY InvFacts
<1>3. c \in DOMAIN stream /\ reorder[Slot(cursor)] = stream[c]
  BY <1>1, <1>2, HeldHere DEF Holds
<1>4. stream[c].at = c /\ c >= c  BY <1>2, <1>3, InvFacts
<1> DEFINE r == Accepted(a, stream[c])
           e == Append(assembled, c)
<1>5. /\ AsmType(r) /\ AsmInv(stream, r, e, c + 1, FALSE) /\ SeenInv(stream, e, c + 1)
      /\ FinishedInv(stream, r.ready, handed, e, NextOf(stream, r, e))
  BY <1>1, <1>2, <1>3, AcceptedNext
<1>6. e[1] = assembled[1] /\ Len(e) = Len(assembled) + 1
  BY <1>1, <1>2, <1>3, <1>4, SeenOneMore
<1>7. asm' = r /\ assembled' = e /\ reorder' = [reorder EXCEPT ![Slot(cursor)] = None]
      /\ cursor' = Following(cursor)
  BY <1>3, <1>4 DEF TakeHeld, Assemble
<1> HIDE DEF r, e
<1>8. cursor' = Circle(base, c + 1)  BY <1>1, <1>2, <1>7, NextOnCircle
<1>9. /\ RingType(stream, reorder')
      /\ \A p \in {"sweep", "drain"}, l \in Int :
           RingInv(reorder, c, p, l) => RingInv(reorder', c + 1, p, l - 1)
  BY <1>1, <1>2, <1>7, RingTaken
<1>10. lost = (c + 1) - e[1] - Len(e)
  <2>1. assembled[1] \in Nat /\ Len(assembled) \in Nat  BY <1>1, <1>2, SeenFacts, InvFacts
  <2>2. QED  BY <1>1, <1>2, <1>6, <2>1
<1>11. QED  BY <1>3, <1>5, <1>7, <1>8, <1>9, <1>10

LEMMA DrainHeldKeeps ==
  ASSUME ReassemblyInv, Same, DrainHeld
  PROVE  ReassemblyInv'
<1>1. /\ stream' = stream /\ base' = base /\ lost' = lost
      /\ target' = target /\ left' = left /\ gap' = gap /\ handed' = handed
      /\ stopped' = stopped /\ joined' = joined /\ progress' = "drain" /\ progress = "drain"
      /\ Holds(cursor) /\ TakeHeld(asm)
  BY DEF DrainHeld, Contiguous, Same, sweepVars
<1>2. joined  BY <1>1, InvFacts DEF Untouched
<1>3. PICK c \in 1..(Len(stream) + 1) :
        /\ Reached(c) /\ AsmInv(stream, asm, assembled, c, gap)
        /\ FinishedInv(stream, asm.ready, handed, assembled, NextOf(stream, asm, assembled))
  BY <1>2, ReachedFacts
<1>4. gap = FALSE /\ target = None  BY <1>1, <1>3 DEF Reached, SweepInv
<1>5. AsmType(asm)  BY InvFacts
<1>6. /\ c \in DOMAIN stream /\ AsmType(asm') /\ cursor' = Circle(base, c + 1)
      /\ SeenInv(stream, assembled', c + 1)
      /\ AsmInv(stream, asm', assembled', c + 1, FALSE)
      /\ FinishedInv(stream, asm'.ready, handed, assembled', NextOf(stream, asm', assembled'))
      /\ lost = (c + 1) - assembled'[1] - Len(assembled')
      /\ RingType(stream, reorder')
      /\ \A p \in {"sweep", "drain"}, l \in Int :
           RingInv(reorder, c, p, l) => RingInv(reorder', c + 1, p, l - 1)
  BY <1>1, <1>3, <1>4, <1>5, TakeKeeps
<1>7. ~stopped => RingInv(reorder', c + 1, "drain", left)
  <2>1. HAVE ~stopped
  <2>2. RingInv(reorder, c, "drain", left + 1)  BY <1>1, <1>3, <2>1 DEF Reached, RingInv
  <2>3. left + 1 \in Int /\ (left + 1) - 1 = left  BY InvFacts, HalfCircle
  <2>4. QED  BY <1>6, <2>2, <2>3
<1>8. SweepInv(stream, c + 1, "drain", target, left, gap)  BY <1>4 DEF SweepInv
<1>9. Reached(c + 1)'  BY <1>1, <1>4, <1>6, <1>7, <1>8 DEF Reached
<1>10. c + 1 \in 1..(Len(stream) + 1)  BY <1>6, InvFacts
<1>11. QED  BY <1>1, <1>2, <1>6, <1>9, <1>10, InvFacts DEF ReassemblyInv

LEMMA DrainEndsKeeps ==
  ASSUME ReassemblyInv, Same, DrainEnds
  PROVE  ReassemblyInv'
<1>1. /\ stream' = stream /\ base' = base /\ reorder' = reorder /\ lost' = lost
      /\ cursor' = cursor /\ target' = target /\ left' = left /\ gap' = gap
      /\ joined' = joined /\ progress' = "rest" /\ progress = "drain"
      /\ stopped' = (stopped \/ Holds(cursor))
      /\ assembled' = assembled /\ Return
  BY DEF DrainEnds, Same, ringVars, sweepVars
<1>2. joined  BY <1>1, InvFacts DEF Untouched
<1>3. PICK c \in 1..(Len(stream) + 1) :
        /\ Reached(c) /\ cursor = Circle(base, c) /\ AsmInv(stream, asm, assembled, c, gap)
        /\ FinishedInv(stream, asm.ready, handed, assembled, NextOf(stream, asm, assembled))
  BY <1>2, ReachedFacts
<1>4. /\ AsmType(asm') /\ handed' \in Seq(Units) /\ Len(asm'.ready) < ReadyCapacity
      /\ AsmInv(stream, asm', assembled, c, gap)
      /\ FinishedInv(stream, asm'.ready, handed', assembled, NextOf(stream, asm', assembled))
  BY <1>1, <1>3, ReturnKeeps
<1>5. SweepInv(stream, c, "rest", target, left, gap)  BY <1>1, <1>3 DEF Reached, SweepInv
<1>6. ~stopped' => RingInv(reorder, c, "rest", left)
  <2>1. HAVE ~stopped'
  <2>2. ~stopped /\ ~Holds(cursor)  BY <1>1, <2>1
  <2>3. RingInv(reorder, c, "drain", left)  BY <1>1, <1>3, <2>2 DEF Reached
  <2>4. left \in Int  BY InvFacts, HalfCircle
  <2>5. QED  BY <1>3, <2>2, <2>3, <2>4, RingPassed, InvFacts DEF Holds
<1>7. stopped' \in BOOLEAN  BY <1>1, InvFacts DEF Holds
<1>8. Reached(c)'  BY <1>1, <1>3, <1>4, <1>5, <1>6 DEF Reached
<1>9. QED  BY <1>1, <1>2, <1>4, <1>7, <1>8, InvFacts DEF ReassemblyInv

LEMMA SweepHeldKeeps ==
  ASSUME ReassemblyInv, Same, SweepHeld
  PROVE  ReassemblyInv'
<1> DEFINE a == IF gap THEN MarkGap(asm) ELSE asm
<1>1. /\ stream' = stream /\ base' = base /\ lost' = lost
      /\ target' = target /\ left' = left - 1 /\ gap' = FALSE /\ handed' = handed
      /\ stopped' = stopped /\ joined' = joined /\ progress' = "sweep" /\ progress = "sweep"
      /\ left > 0 /\ Holds(cursor) /\ TakeHeld(a)
  BY DEF SweepHeld, Sweeping, Same
<1>2. joined  BY <1>1, InvFacts DEF Untouched
<1>3. PICK c \in 1..(Len(stream) + 1) :
        /\ Reached(c) /\ SeenInv(stream, assembled, c) /\ AsmInv(stream, asm, assembled, c, gap)
        /\ FinishedInv(stream, asm.ready, handed, assembled, NextOf(stream, asm, assembled))
  BY <1>2, ReachedFacts
<1>4. /\ AsmType(asm) /\ StreamInv(stream, base) /\ gap \in BOOLEAN /\ c \in Nat /\ left \in Nat
      /\ left <= Window + 1 /\ Window \in Nat
  BY InvFacts, HalfCircle
<1>5. /\ AsmType(a) /\ AsmInv(stream, a, assembled, c, FALSE)
      /\ FinishedInv(stream, a.ready, handed, assembled, NextOf(stream, a, assembled))
  <2>1. CASE gap
    <3>1. a = MarkGap(asm)  BY <2>1
    <3>2. c \in Int /\ c >= c  BY <1>4
    <3> HIDE DEF a
    <3>3. AsmType(a) /\ AsmInv(stream, a, assembled, c, FALSE) /\ a.ready = asm.ready
          /\ NextOf(stream, a, assembled) = NextOf(stream, asm, assembled)
      BY <1>3, <1>4, <2>1, <3>1, <3>2, GapMarked
    <3>4. QED  BY <1>3, <3>3
  <2>2. CASE ~gap
    <3>1. a = asm /\ gap = FALSE  BY <1>4, <2>2
    <3>2. QED  BY <1>3, <1>4, <3>1
  <2>3. QED  BY <2>1, <2>2
<1> HIDE DEF a
<1>6. /\ c \in DOMAIN stream /\ AsmType(asm') /\ cursor' = Circle(base, c + 1)
      /\ SeenInv(stream, assembled', c + 1)
      /\ AsmInv(stream, asm', assembled', c + 1, FALSE)
      /\ FinishedInv(stream, asm'.ready, handed, assembled', NextOf(stream, asm', assembled'))
      /\ lost = (c + 1) - assembled'[1] - Len(assembled')
      /\ RingType(stream, reorder')
      /\ \A p \in {"sweep", "drain"}, l \in Int :
           RingInv(reorder, c, p, l) => RingInv(reorder', c + 1, p, l - 1)
  BY <1>1, <1>3, <1>5, TakeKeeps
<1>7. ~stopped => RingInv(reorder', c + 1, "sweep", left - 1)
  <2>1. HAVE ~stopped
  <2>2. RingInv(reorder, c, "sweep", left)  BY <1>1, <1>3, <2>1 DEF Reached
  <2>3. QED  BY <1>4, <1>6, <2>2
<1>8. SweepInv(stream, c + 1, "sweep", target, left - 1, FALSE)
  <2>1. (\E j \in DOMAIN stream : target = stream[j]) /\ target.at >= c + left
    BY <1>1, <1>3 DEF Reached, SweepInv
  <2>2. (c + 1) + (left - 1) = c + left  BY <1>4
  <2>3. QED  BY <2>1, <2>2 DEF SweepInv
<1>9. Reached(c + 1)'  BY <1>1, <1>6, <1>7, <1>8 DEF Reached
<1>10. c + 1 \in 1..(Len(stream) + 1)  BY <1>6, InvFacts
<1>11. left' \in 0..(Window + 1) /\ gap' \in BOOLEAN
  <2>1. left - 1 \in 0..(Window + 1)  BY <1>1, <1>4
  <2>2. QED  BY <1>1, <2>1
<1>12. QED  BY <1>1, <1>2, <1>6, <1>9, <1>10, <1>11, InvFacts DEF ReassemblyInv

LEMMA SweepMissingKeeps ==
  ASSUME ReassemblyInv, Same, SweepMissing
  PROVE  ReassemblyInv'
<1>1. /\ stream' = stream /\ base' = base /\ lost' = lost + 1 /\ reorder' = reorder
      /\ target' = target /\ left' = left - 1 /\ gap' = TRUE /\ handed' = handed
      /\ stopped' = stopped /\ joined' = joined /\ progress' = "sweep" /\ progress = "sweep"
      /\ asm' = asm /\ assembled' = assembled /\ cursor' = Following(cursor)
      /\ left > 0 /\ ~Holds(cursor)
  BY DEF SweepMissing, Sweeping, Same
<1>2. joined  BY <1>1, InvFacts DEF Untouched
<1>3. PICK c \in 1..(Len(stream) + 1) :
        /\ Reached(c) /\ SeenInv(stream, assembled, c) /\ AsmInv(stream, asm, assembled, c, gap)
        /\ FinishedInv(stream, asm.ready, handed, assembled, NextOf(stream, asm, assembled))
        /\ lost = c - assembled[1] - Len(assembled) /\ cursor = Circle(base, c)
        /\ Len(assembled) \in Nat /\ assembled[1] \in Nat
  BY <1>2, ReachedFacts
<1>4. /\ AsmType(asm) /\ StreamInv(stream, base) /\ gap \in BOOLEAN /\ c \in Nat /\ left \in Nat
      /\ left <= Window + 1 /\ Window \in Nat /\ Len(stream) \in Nat /\ base \in Int
      /\ RingType(stream, reorder) /\ handed \in Seq(Units)
  BY InvFacts, HalfCircle
<1>5. PICK j \in DOMAIN stream : target = stream[j] /\ target.at >= c + left
  BY <1>1, <1>3 DEF Reached, SweepInv
<1>6. c + 1 \in 1..(Len(stream) + 1) /\ c + 1 >= c
  <2>1. target.at = j /\ j \in 1..Len(stream)  BY <1>5, InvFacts
  <2>2. QED  BY <1>1, <1>4, <1>5, <2>1
<1>7. SeenInv(stream, assembled, c + 1)  BY <1>3, <1>4, <1>6, SeenLater
<1>8. AsmInv(stream, asm, assembled, c + 1, TRUE)  BY <1>3, <1>4, Skipped
<1>9. cursor' = Circle(base, c + 1)  BY <1>1, <1>3, <1>4, NextOnCircle
<1>10. ~stopped => RingInv(reorder, c + 1, "sweep", left - 1)
  <2>1. HAVE ~stopped
  <2>2. RingInv(reorder, c, "sweep", left) /\ left \in Int  BY <1>1, <1>3, <1>4, <2>1 DEF Reached
  <2>3. QED  BY <1>1, <1>3, <1>4, <2>2, RingPassed DEF Holds
<1>11. SweepInv(stream, c + 1, "sweep", target, left - 1, TRUE)
  <2>1. (c + 1) + (left - 1) = c + left  BY <1>4
  <2>2. QED  BY <1>5, <2>1 DEF SweepInv
<1>12. lost + 1 = (c + 1) - assembled[1] - Len(assembled)  BY <1>3, <1>4
<1>13. Reached(c + 1)'  BY <1>1, <1>3, <1>7, <1>8, <1>9, <1>10, <1>11, <1>12 DEF Reached
<1>14. left' \in 0..(Window + 1) /\ gap' \in BOOLEAN
  <2>1. left - 1 \in 0..(Window + 1)  BY <1>1, <1>4
  <2>2. QED  BY <1>1, <2>1
<1>15. QED  BY <1>1, <1>2, <1>4, <1>6, <1>13, <1>14, InvFacts DEF ReassemblyInv

LEMMA SweepEndsKeeps ==
  ASSUME ReassemblyInv, Same, SweepEnds
  PROVE  ReassemblyInv'
<1> DEFINE remaining == (target.seq - cursor) % SeqModulus
           a == IF gap \/ remaining > 0 THEN MarkGap(asm) ELSE asm
<1>1. /\ stream' = stream /\ base' = base /\ lost' = lost + remaining /\ reorder' = reorder
      /\ target' = None /\ left' = 0 /\ gap' = FALSE /\ handed' = handed
      /\ stopped' = stopped /\ joined' = joined /\ progress' = "drain" /\ progress = "sweep"
      /\ Assemble(a, target) /\ cursor' = Following(target.seq)
      /\ (left > 0 => cursor = target.seq)
  BY DEF SweepEnds, Sweeping, Same
<1>2. joined  BY <1>1, InvFacts DEF Untouched
<1>3. PICK c \in 1..(Len(stream) + 1) :
        /\ Reached(c) /\ SeenInv(stream, assembled, c) /\ AsmInv(stream, asm, assembled, c, gap)
        /\ FinishedInv(stream, asm.ready, handed, assembled, NextOf(stream, asm, assembled))
        /\ lost = c - assembled[1] - Len(assembled) /\ cursor = Circle(base, c)
        /\ Len(assembled) \in Nat /\ assembled[1] \in Nat
  BY <1>2, ReachedFacts
<1>4. /\ AsmType(asm) /\ StreamInv(stream, base) /\ gap \in BOOLEAN /\ c \in Nat \ {0} /\ left \in Nat
      /\ left <= Window + 1 /\ Window \in Nat /\ Len(stream) \in Nat /\ base \in Int
      /\ RingType(stream, reorder) /\ handed \in Seq(Units)
      /\ Len(stream) <= MaxPackets /\ MaxPackets \in Nat
  BY InvFacts, HalfCircle
<1>5. PICK d \in DOMAIN stream : target = stream[d] /\ target.at >= c + left
  BY <1>1, <1>3 DEF Reached, SweepInv
<1>6. /\ target.at = d /\ target.seq = Circle(base, d) /\ d \in 1..Len(stream) /\ d \in Nat
      /\ d >= c + left /\ d >= c
  <2>1. target.at = d /\ target.seq = Circle(base, d) /\ d \in 1..Len(stream)  BY <1>5, InvFacts
  <2>2. QED  BY <1>4, <1>5, <2>1
<1>7. remaining = d - c
  <2>1. d - c \in 0..(SeqModulus - 1)  BY <1>4, <1>6, HalfCircle
  <2>2. d \in Int /\ c \in Int /\ base \in Int  BY <1>4, <1>6
  <2>3. (Circle(base, d) - Circle(base, c)) % SeqModulus = d - c  BY <2>1, <2>2, Apart
  <2>4. QED  BY <1>3, <1>6, <2>3
<1>8. left = 0
  <2>1. SUFFICES ASSUME left > 0  PROVE FALSE  BY <1>4
  <2>2. Circle(base, d) = Circle(base, c)  BY <1>1, <1>3, <1>6, <2>1
  <2>3. d - c <= MaxPackets /\ c - d <= MaxPackets  BY <1>4, <1>6
  <2>4. d = c  BY <1>4, <1>6, <2>2, <2>3, OnePlace
  <2>5. QED  BY <1>4, <1>6, <2>1, <2>4
<1> HIDE DEF remaining
<1>9. /\ AsmType(a) /\ AsmInv(stream, a, assembled, d, FALSE)
      /\ FinishedInv(stream, a.ready, handed, assembled, NextOf(stream, a, assembled))
  <2>1. CASE gap \/ remaining > 0
    <3>1. a = MarkGap(asm)  BY <2>1
    <3>2. d \in Int /\ d >= c /\ (gap \/ d > c)  BY <1>4, <1>6, <1>7, <2>1
    <3>3. SeenInv(stream, assembled, c) /\ AsmInv(stream, asm, assembled, c, gap)  BY <1>3
    <3>4. AsmType(asm) /\ StreamInv(stream, base) /\ gap \in BOOLEAN  BY <1>4
    <3> HIDE DEF a
    <3>5. AsmType(a) /\ AsmInv(stream, a, assembled, d, FALSE) /\ a.ready = asm.ready
          /\ NextOf(stream, a, assembled) = NextOf(stream, asm, assembled)
      BY <3>1, <3>2, <3>3, <3>4, GapMarked
    <3>6. QED  BY <1>3, <3>5
  <2>2. CASE ~(gap \/ remaining > 0)
    <3>1. a = asm /\ gap = FALSE /\ d = c  BY <1>4, <1>6, <1>7, <2>2
    <3>2. QED  BY <1>3, <1>4, <3>1
  <2>3. QED  BY <2>1, <2>2
<1> HIDE DEF a
<1>10. SeenInv(stream, assembled, d)
  <2>1. d \in 1..(Len(stream) + 1)  BY <1>4, <1>6
  <2>2. QED  BY <1>3, <1>4, <1>6, <2>1, SeenLater
<1> DEFINE r == Accepted(a, stream[d])
           e == Append(assembled, d)
<1>11. /\ AsmType(r) /\ AsmInv(stream, r, e, d + 1, FALSE) /\ SeenInv(stream, e, d + 1)
       /\ FinishedInv(stream, r.ready, handed, e, NextOf(stream, r, e))
  BY <1>4, <1>9, <1>10, AcceptedNext
<1>12. e[1] = assembled[1] /\ Len(e) = Len(assembled) + 1
  <2>1. d >= d  BY <1>6
  <2>2. QED  BY <1>4, <1>10, <2>1, SeenOneMore
<1>13. asm' = r /\ assembled' = e  BY <1>1, <1>5, <1>6 DEF Assemble
<1> HIDE DEF r, e
<1>14. cursor' = Circle(base, d + 1)  BY <1>1, <1>4, <1>6, NextOnCircle
<1>15. lost + remaining = (d + 1) - e[1] - Len(e)
  <2>1. lost = c - assembled[1] - Len(assembled) /\ c \in Nat
        /\ Len(assembled) \in Nat /\ assembled[1] \in Nat
    BY <1>3, <1>4
  <2>2. PICK j \in Nat, n \in Nat, k \in Nat : j = assembled[1] /\ n = Len(assembled) /\ k = d
    BY <1>6, <2>1
  <2>3. lost = c - j - n /\ remaining = k - c /\ c \in Nat  BY <1>7, <2>1, <2>2
  <2>4. e[1] = j /\ Len(e) = n + 1  BY <1>12, <2>2
  <2>5. lost + remaining = (k + 1) - j - (n + 1)  BY <2>3
  <2>6. QED  BY <2>2, <2>4, <2>5
<1>16. ~stopped => RingInv(reorder, d + 1, "drain", 0)
  <2>1. HAVE ~stopped
  <2>2. RingInv(reorder, c, "sweep", 0)  BY <1>1, <1>3, <1>8, <2>1 DEF Reached
  <2>3. \A j \in 0..(Window - 1) : reorder[j] = None
    <3>1. SUFFICES ASSUME NEW j \in 0..(Window - 1), reorder[j] # None  PROVE FALSE  OBVIOUS
    <3>2. reorder[j].at \in Int  BY <1>4, <3>1, StreamFacts DEF RingType
    <3>3. reorder[j].at >= c /\ reorder[j].at <= c + 0 - 1  BY <2>2, <3>1 DEF RingInv
    <3>4. QED  BY <1>4, <3>2, <3>3
  <2>4. QED  BY <2>3 DEF RingInv
<1>17. SweepInv(stream, d + 1, "drain", None, 0, FALSE)  BY DEF SweepInv
<1>18. Reached(d + 1)'  BY <1>1, <1>11, <1>13, <1>14, <1>15, <1>16, <1>17 DEF Reached
<1>19. d + 1 \in 1..(Len(stream) + 1)  BY <1>4, <1>6
<1>20. left' \in 0..(Window + 1) /\ gap' \in BOOLEAN
  <2>1. 0 \in 0..(Window + 1)  BY <1>4
  <2>2. QED  BY <1>1, <2>1
<1>21. QED
  BY <1>1, <1>2, <1>4, <1>11, <1>13, <1>18, <1>19, <1>20, InvFacts DEF ReassemblyInv

-----------------------------------------------------------------------------
(* The stream grows. *)

\* t is s and units after it.
Grown(s, t) ==
  /\ Len(t) >= Len(s)
  /\ \A i \in DOMAIN s : t[i] = s[i]
  /\ \A i \in DOMAIN t, j \in DOMAIN s : i > Len(s) => s[j].unit < t[i].unit

LEMMA GrownFacts ==
  ASSUME NEW s, NEW t, NEW f, StreamInv(s, f), StreamInv(t, f), Grown(s, t)
  PROVE  /\ \A i \in DOMAIN s : i \in DOMAIN t /\ t[i] = s[i] /\ (Starting(s, i) <=> Starting(t, i))
         /\ \A i \in DOMAIN t, j \in DOMAIN s : t[i].unit <= s[j].unit => i \in DOMAIN s
         /\ Len(s) <= Len(t) /\ Len(s) \in Nat /\ Len(t) \in Nat
         /\ DOMAIN s = 1..Len(s) /\ DOMAIN t = 1..Len(t)
<1>1. /\ Len(s) <= Len(t) /\ Len(s) \in Nat /\ Len(t) \in Nat
      /\ DOMAIN s = 1..Len(s) /\ DOMAIN t = 1..Len(t)
  BY StreamFacts DEF Grown
<1>2. \A i \in DOMAIN s : i \in DOMAIN t /\ t[i] = s[i] /\ (Starting(s, i) <=> Starting(t, i))
  <2> TAKE i \in DOMAIN s
  <2>1. i \in DOMAIN t /\ t[i] = s[i]  BY <1>1 DEF Grown
  <2>2. i = 1 \/ i - 1 \in DOMAIN s  BY <1>1
  <2>3. QED  BY <2>1, <2>2 DEF Grown, Starting
<1>3. ASSUME NEW i \in DOMAIN t, NEW j \in DOMAIN s, t[i].unit <= s[j].unit
      PROVE  i \in DOMAIN s
  <2>1. SUFFICES ASSUME i > Len(s)  PROVE FALSE  BY <1>1
  <2>2. s[j].unit < t[i].unit  BY <2>1 DEF Grown
  <2>3. s[j].unit \in Nat /\ t[i].unit \in Nat  BY StreamFacts
  <2>4. QED  BY <1>3, <2>2, <2>3
<1>4. QED  BY <1>1, <1>2, <1>3

LEMMA HoleGrown ==
  ASSUME NEW s, NEW t, NEW f, StreamInv(s, f), StreamInv(t, f), Grown(s, t),
         NEW b, NEW c, SeenInv(s, b, c), NEW unit \in Int, NEW from, Hole(s, b, unit, from),
         unit <= s[LastOf(b)].unit
  PROVE  Hole(t, b, unit, from)
<1>1. LastOf(b) \in DOMAIN s /\ b[1] \in DOMAIN s  BY SeenFacts
<1>2. t[b[1]] = s[b[1]]  BY <1>1, GrownFacts
<1>3. ASSUME NEW first \in DOMAIN s, Big(s, unit - 1, first)  PROVE Big(t, unit - 1, first)
  <2>1. PICK k \in DOMAIN s : s[k].unit = unit - 1 /\ first - k > MaxPieces  BY <1>3 DEF Big
  <2>2. k \in DOMAIN t /\ t[k] = s[k]  BY GrownFacts
  <2>3. QED  BY <2>1, <2>2 DEF Big
<1>4. ASSUME NEW first \in DOMAIN t, t[first].unit = unit
      PROVE  first \in DOMAIN s /\ t[first] = s[first] /\ (Starting(s, first) <=> Starting(t, first))
  BY <1>1, <1>4, GrownFacts
<1>5. QED  BY <1>2, <1>3, <1>4 DEF Hole

LEMMA FinishedGrown ==
  ASSUME NEW s, NEW t, NEW f, StreamInv(s, f), StreamInv(t, f), Grown(s, t),
         NEW b, NEW c, SeenInv(s, b, c), NEW q \in Seq(Units), NEW h \in Seq(Units),
         NEW next \in Int, next <= s[LastOf(b)].unit + 1, FinishedInv(s, q, h, b, next)
  PROVE  FinishedInv(t, q, h, b, next)
<1>1. LastOf(b) \in DOMAIN s /\ s[LastOf(b)].unit \in Nat  BY SeenFacts, StreamFacts
<1>2. ASSUME NEW u \in Units, Good(s, u, b), u.unit < next
      PROVE  Good(t, u, b)
  <2>1. u.unit \in Nat  BY DEF Units
  <2>2. u.unit <= s[LastOf(b)].unit  BY <1>1, <1>2, <2>1
  <2>3. Hole(t, b, u.unit, u.data[1])  BY <1>2, <2>1, <2>2, HoleGrown DEF Good
  <2>4. TailOf(t, u)
    <3>1. PICK to \in DOMAIN s : \E from \in 1..to :
            /\ IsRun(u.data, from, to)
            /\ s[from].role \in Begins /\ s[to].marker
            /\ \A k \in from..to : s[k].unit = u.unit
      BY <1>2 DEF Good, TailOf
    <3>2. PICK from \in 1..to :
            /\ IsRun(u.data, from, to)
            /\ s[from].role \in Begins /\ s[to].marker
            /\ \A k \in from..to : s[k].unit = u.unit
      BY <3>1
    <3>3. to \in DOMAIN t /\ \A k \in from..to : k \in DOMAIN s /\ t[k] = s[k]
      BY GrownFacts
    <3>4. from \in from..to /\ to \in from..to  BY <3>2, StreamFacts
    <3>5. QED  BY <3>2, <3>3, <3>4 DEF TailOf
  <2>5. QED  BY <2>3, <2>4 DEF Good
<1>3. (\A i \in DOMAIN q : q[i] \in Units) /\ (\A i \in DOMAIN h : h[i] \in Units)  OBVIOUS
<1>4. QED  BY <1>2, <1>3 DEF FinishedInv

LEMMA AsmGrown ==
  ASSUME NEW s, NEW t, NEW f, StreamInv(s, f), StreamInv(t, f), Grown(s, t),
         NEW b, NEW c, SeenInv(s, b, c), NEW a, NEW g, AsmInv(s, a, b, c, g)
  PROVE  AsmInv(t, a, b, c, g) /\ NextOf(t, a, b) = NextOf(s, a, b)
<1> DEFINE last == LastOf(b)
<1>1. /\ last \in DOMAIN s /\ b[1] \in DOMAIN s /\ last \in Nat
      /\ \A i \in DOMAIN s : i \in DOMAIN t /\ t[i] = s[i] /\ (Starting(s, i) <=> Starting(t, i))
      /\ \A i \in 1..last : i \in DOMAIN s
      /\ s[last].unit \in Int
  BY SeenFacts, GrownFacts, StreamFacts
<1>2. NextOf(t, a, b) = NextOf(s, a, b)  BY <1>1 DEF NextOf
<1>3. Clean(t, a, b, c) <=> Clean(s, a, b, c)  BY <1>1 DEF Clean
<1>4. ASSUME NEW from \in 1..last, WholeTo(s, a, b, from, last), a.unit = s[last].unit
      PROVE  WholeTo(t, a, b, from, last)
  <2>1. \A k \in from..last : t[k] = s[k]  BY <1>1
  <2>2. Hole(s, b, a.unit, from)  BY <1>4 DEF WholeTo
  <2>3. Hole(t, b, a.unit, from)  BY <1>1, <1>4, <2>2, HoleGrown
  <2>4. QED  BY <1>1, <1>4, <2>1, <2>3 DEF WholeTo
<1>5. AsmInv(t, a, b, c, g)
  <2>1. a.state # "idle" => a.unit = s[last].unit  BY DEF AsmInv
  <2>2. (a.state = "active" /\ ~a.damaged) => \E from \in 1..last : WholeTo(t, a, b, from, last)
    <3>1. HAVE a.state = "active" /\ ~a.damaged
    <3>2. PICK from \in 1..last : WholeTo(s, a, b, from, last)  BY <3>1 DEF AsmInv
    <3>3. QED  BY <1>4, <2>1, <3>1, <3>2
  <2>3. a.state = "active" =>
          \A first \in 1..last :
            (Starting(t, first) /\ t[first].unit = a.unit) => Len(a.buffer) <= last + 1 - first
    BY <1>1 DEF AsmInv
  <2>4. a.state = "discarding" =>
          \E from \in 1..last : t[from].unit = a.unit /\ last - from >= MaxPieces
    <3>1. HAVE a.state = "discarding"
    <3>2. PICK from \in 1..last : s[from].unit = a.unit /\ last - from >= MaxPieces
      BY <3>1 DEF AsmInv
    <3>3. QED  BY <1>1, <3>2
  <2>5. t[last] = s[last]  BY <1>1
  <2>6. QED  BY <1>3, <2>2, <2>3, <2>4, <2>5 DEF AsmInv
<1>6. QED  BY <1>2, <1>5

\* A unit's packets follow the stream as the packets of a unit follow each other.
LEMMA Sent ==
  ASSUME StreamInv(stream, base), NEW shape \in Shapes, Len(stream) + Len(shape) <= MaxPackets
  PROVE  LET t == stream \o Packets(shape)
         IN StreamInv(t, base) /\ Grown(stream, t)
<1> DEFINE s == stream
           n == Len(stream)
           m == Len(shape)
           q == Packets(shape)
           t == s \o q
           u == NextUnit
           P == [unit : Nat, at : Places, seq : 0..(SeqModulus - 1), role : Roles, marker : BOOLEAN]
<1>1. /\ n \in Nat /\ DOMAIN s = 1..n /\ base \in Int /\ s \in Seq(P) /\ base \in 0..(SeqModulus - 1)
      /\ MaxPackets \in Nat
  BY StreamFacts, HalfCircle DEF StreamInv
<1>2. /\ shape \in Seq(Roles) /\ m \in Nat \ {0} /\ DOMAIN shape = 1..m
      /\ shape[1] \in Begins /\ shape[m] \in Ends
      /\ \A i \in 1..(m - 1) : shape[i] \in Ends <=> shape[i + 1] \in Begins
      /\ \A i \in 1..m : shape[i] \in Roles
  <2>1. Fragmented(shape)  BY LinkAssumption
  <2>2. shape \in Seq(Roles) /\ shape # <<>>  BY <2>1 DEF Fragmented
  <2>3. m \in Nat \ {0} /\ DOMAIN shape = 1..m  BY <2>2
  <2>4. \A i \in 1..m : shape[i] \in Roles  BY <2>2, <2>3
  <2>5. QED  BY <2>1, <2>2, <2>3, <2>4 DEF Fragmented
<1>3. /\ u \in Nat
      /\ \A i \in 1..n : s[i].unit \in Nat /\ s[i].unit < u
      /\ n > 0 => s[n].unit + 1 = u /\ s[n].marker /\ s[1].role \in Begins /\ s[n].role \in Ends
      /\ n = 0 => u = 1
  <2>1. CASE s = <<>>
    <3>1. n = 0 /\ u = 1  BY <2>1 DEF NextUnit
    <3>2. QED  BY <3>1
  <2>2. CASE s # <<>>
    <3>1. n > 0 /\ n \in DOMAIN s /\ 1 \in DOMAIN s  BY <1>1, <2>2
    <3>2. u = s[n].unit + 1 /\ s[n].unit \in Nat  BY <2>2, <3>1, StreamFacts DEF NextUnit
    <3>3. s[n].marker /\ s[1].role \in Begins  BY <2>2 DEF StreamInv
    <3>4. \A i \in 1..n : s[i].unit \in Nat /\ s[i].unit <= s[n].unit
      <4> TAKE i \in 1..n
      <4>1. i \in DOMAIN s /\ i <= n  BY <1>1
      <4> HIDE DEF n, s
      <4>2. QED  BY <3>1, <4>1, StreamFacts DEF s
    <3>5. s[n].role \in Ends  BY <3>1, <3>3, StreamFacts
    <3>6. QED  BY <1>1, <3>1, <3>2, <3>3, <3>4, <3>5
  <2>3. QED  BY <2>1, <2>2
<1> HIDE DEF u
<1>4. \A i \in 1..m : q[i] = [unit |-> u, at |-> n + i, seq |-> Circle(base, n + i),
                              role |-> shape[i], marker |-> i = m]
  <2>1. DOMAIN shape = 1..m  BY <1>2
  <2>2. \A i \in 1..m : base + n + i - 1 = base + (n + i) - 1  BY <1>1
  <2>3. QED  BY <2>1, <2>2 DEF Packets, Circle, u
<1>5. DOMAIN q = 1..m  BY <1>2 DEF Packets
<1>6. \A i \in 1..m : q[i] \in P
  <2> TAKE i \in 1..m
  <2>1. n + i \in Places /\ n + i \in Int  BY <1>1, <1>2 DEF Places
  <2>2. Circle(base, n + i) \in 0..(SeqModulus - 1)  BY <1>1, <2>1, Apart
  <2> DEFINE at == n + i
             seq == Circle(base, n + i)
             marker == i = m
  <2>3. marker \in BOOLEAN /\ shape[i] \in Roles  BY <1>2
  <2>4. q[i] = [unit |-> u, at |-> at, seq |-> seq, role |-> shape[i], marker |-> marker]
    BY <1>4
  <2>5. at \in Places /\ seq \in 0..(SeqModulus - 1)  BY <2>1, <2>2
  <2> HIDE DEF at, seq, marker, q
  <2>6. QED  BY <1>3, <2>3, <2>4, <2>5
<1> HIDE DEF P
<1>7. q \in Seq(P) /\ Len(q) = m
  <2>1. q = [i \in 1..m |-> q[i]]  BY <1>2 DEF Packets
  <2> HIDE DEF q
  <2>2. q \in [1..m -> P]  BY <1>5, <1>6, <2>1
  <2>3. q \in Seq(P)  BY <1>2, <2>2
  <2>4. QED  BY <1>2, <1>5, <2>3
<1> HIDE DEF q
<1>8. /\ t \in Seq(P) /\ Len(t) = n + m /\ DOMAIN t = 1..(n + m)
      /\ \A i \in 1..n : t[i] = s[i]
      /\ \A i \in 1..m : t[n + i] = q[i]
  <2>1. s \in Seq(P) /\ q \in Seq(P) /\ Len(s) = n /\ Len(q) = m  BY <1>1, <1>7
  <2> HIDE DEF s, n, m
  <2>2. /\ t \in Seq(P) /\ Len(t) = Len(s) + Len(q) /\ DOMAIN t = 1..(Len(s) + Len(q))
        /\ \A i \in 1..Len(s) : t[i] = s[i]
        /\ \A i \in 1..Len(q) : t[Len(s) + i] = q[i]
    BY <2>1
  <2> HIDE DEF t
  <2>3. QED  BY <2>1, <2>2
<1> HIDE DEF t
<1>9. \A k \in 1..(n + m) : k \in 1..n \/ (k - n \in 1..m /\ k = n + (k - n))  BY <1>1, <1>2
<1>10. \A k \in 1..(n + m) : k > n =>
         /\ k - n \in 1..m /\ t[k].unit = u /\ t[k].at = k /\ t[k].seq = Circle(base, k)
         /\ t[k].role = shape[k - n] /\ (t[k].marker <=> k = n + m)
  <2> TAKE k \in 1..(n + m)
  <2> HAVE k > n
  <2>1. k - n \in 1..m /\ k = n + (k - n)  BY <1>1, <1>2
  <2> DEFINE i == k - n
  <2>2. t[n + i] = q[i]  BY <1>8, <2>1
  <2>3. q[i] = [unit |-> u, at |-> n + i, seq |-> Circle(base, n + i),
                role |-> shape[i], marker |-> i = m]
    BY <1>4, <2>1
  <2>4. k = n + i  BY <2>1
  <2> DEFINE last == i = m
  <2>5. last <=> k = n + m  BY <1>1, <1>2
  <2> HIDE DEF i
  <2>6. t[k] = [unit |-> u, at |-> k, seq |-> Circle(base, k), role |-> shape[i], marker |-> last]
    BY <2>2, <2>3, <2>4
  <2> HIDE DEF last
  <2>7. /\ t[k].unit = u /\ t[k].at = k /\ t[k].seq = Circle(base, k) /\ t[k].role = shape[i]
        /\ t[k].marker = last
    BY <2>6
  <2>8. QED  BY <2>1, <2>5, <2>7 DEF i
<1>11. Grown(s, t)  BY <1>1, <1>2, <1>3, <1>8, <1>10 DEF Grown
<1>12. \A k \in DOMAIN t : t[k].at = k /\ t[k].seq = Circle(base, k)
  <2> TAKE k \in DOMAIN t
  <2>1. CASE k \in 1..n
    BY <1>1, <1>8, <2>1, StreamFacts
  <2>2. CASE k > n
    BY <1>8, <1>10, <2>2
  <2>3. QED  BY <1>1, <1>8, <2>1, <2>2
<1>13. t[1].role \in Begins /\ t[Len(t)].marker
  <2>1. t[Len(t)].marker
    <3>1. n + m \in 1..(n + m) /\ n + m > n  BY <1>1, <1>2
    <3>2. t[n + m].marker  BY <1>10, <3>1
    <3>3. QED  BY <1>8, <3>2
  <2>2. CASE n = 0
    <3>1. 1 \in 1..(n + m) /\ 1 > n /\ 1 - n = 1  BY <1>2, <2>2
    <3>2. QED  BY <1>2, <1>10, <2>1, <3>1
  <2>3. CASE n > 0
    <3>1. t[1] = s[1]  BY <1>1, <1>8, <2>3
    <3>2. QED  BY <1>3, <2>1, <2>3, <3>1
  <2>4. QED  BY <1>1, <2>2, <2>3
<1>14. \A k \in DOMAIN t : t[k].marker => t[k].role \in Ends
  <2> TAKE k \in DOMAIN t
  <2> HAVE t[k].marker
  <2>1. CASE k \in 1..n
    BY <1>1, <1>8, <2>1, StreamFacts
  <2>2. CASE k > n
    <3>1. k = n + m /\ t[k].role = shape[k - n] /\ k - n = m  BY <1>1, <1>2, <1>8, <1>10, <2>2
    <3>2. QED  BY <1>2, <3>1
  <2>3. QED  BY <1>1, <1>8, <2>1, <2>2
<1>15. \A k \in 1..(n + m - 1) :
         /\ t[k + 1].unit = IF t[k].marker THEN t[k].unit + 1 ELSE t[k].unit
         /\ t[k].role \in Ends <=> t[k + 1].role \in Begins
  <2> TAKE k \in 1..(n + m - 1)
  <2>1. CASE k < n
    <3>1. k \in DOMAIN s /\ k + 1 \in DOMAIN s /\ t[k] = s[k] /\ t[k + 1] = s[k + 1]
      BY <1>1, <1>8, <2>1
    <3>2. QED  BY <3>1, StreamFacts
  <2>2. CASE k = n
    <3>1. n > 0 /\ t[k] = s[n] /\ k + 1 \in 1..(n + m) /\ k + 1 > n /\ (k + 1) - n = 1
      BY <1>1, <1>2, <1>8, <2>2
    <3>2. t[k + 1].unit = u /\ t[k + 1].role = shape[1]  BY <1>10, <3>1
    <3>3. QED  BY <1>2, <1>3, <3>1, <3>2
  <2>3. CASE k > n
    <3>1. /\ k \in 1..(n + m) /\ k + 1 \in 1..(n + m) /\ k + 1 > n /\ k # n + m
          /\ (k + 1) - n = (k - n) + 1 /\ k - n \in 1..(m - 1)
      BY <1>1, <1>2, <2>3
    <3>2. /\ t[k].unit = u /\ t[k + 1].unit = u /\ ~t[k].marker
          /\ t[k].role = shape[k - n] /\ t[k + 1].role = shape[(k - n) + 1]
      BY <1>10, <2>3, <3>1
    <3>3. QED  BY <1>2, <3>1, <3>2
  <2>4. k < n \/ k = n \/ k > n
    <3>1. k \in Int /\ n \in Int  BY <1>1, <1>2
    <3> HIDE DEF n
    <3>2. QED  BY <3>1
  <2>5. QED  BY <2>1, <2>2, <2>3, <2>4
<1>16. \A i, j \in DOMAIN t :
         i < j => t[i].unit <= t[j].unit /\ (t[i].marker => t[i].unit < t[j].unit)
  <2> TAKE i, j \in DOMAIN t
  <2> HAVE i < j
  <2>0. i \in 1..(n + m) /\ j \in 1..(n + m)  BY <1>8
  <2>1. CASE j <= n
    <3>1. i \in DOMAIN s /\ j \in DOMAIN s /\ t[i] = s[i] /\ t[j] = s[j] /\ i <= j
      BY <1>1, <1>2, <1>8, <2>0, <2>1
    <3>2. QED  BY <3>1, StreamFacts
  <2>2. CASE j > n /\ i <= n
    <3>1. i \in 1..n /\ t[i] = s[i] /\ t[j].unit = u
      BY <1>1, <1>2, <1>8, <1>10, <2>0, <2>2
    <3>2. s[i].unit \in Nat /\ s[i].unit < u  BY <1>3, <3>1
    <3>3. QED  BY <1>3, <3>1, <3>2
  <2>3. CASE i > n
    <3>1. j > n /\ i # n + m  BY <1>1, <1>2, <2>0, <2>3
    <3>2. t[i].unit = u /\ t[j].unit = u /\ ~t[i].marker  BY <1>10, <2>0, <2>3, <3>1
    <3>3. QED  BY <1>3, <3>2
  <2>4. QED  BY <1>1, <1>2, <2>0, <2>1, <2>2, <2>3
<1>17. \A j \in DOMAIN t : \E first \in 1..j : Starting(t, first) /\ t[first].unit = t[j].unit
  <2> TAKE j \in DOMAIN t
  <2>1. CASE j \in 1..n
    <3>1. PICK first \in 1..j : Starting(s, first) /\ s[first].unit = s[j].unit
      BY <1>1, <2>1 DEF StreamInv
    <3>2. first \in 1..n /\ (first = 1 \/ first - 1 \in 1..n)  BY <1>1, <2>1, <3>1
    <3>3. Starting(t, first) /\ t[first] = s[first] /\ t[j] = s[j]
      BY <1>8, <2>1, <3>1, <3>2 DEF Starting
    <3>4. QED  BY <3>1, <3>3
  <2>2. CASE j > n
    <3> DEFINE first == n + 1
    <3>1. first \in 1..j /\ first \in 1..(n + m) /\ first > n /\ first - 1 = n /\ j \in 1..(n + m)
      BY <1>1, <1>2, <1>8, <2>2
    <3>2. t[first].unit = u /\ t[j].unit = u  BY <1>10, <2>2, <3>1
    <3>3. first = 1 \/ t[first - 1].marker
      <4>1. CASE n = 0  BY <4>1
      <4>2. CASE n > 0
        <5>1. t[n] = s[n]  BY <1>1, <1>8, <4>2
        <5>2. QED  BY <1>3, <3>1, <4>2, <5>1
      <4>3. QED  BY <1>1, <4>1, <4>2
    <3> HIDE DEF first
    <3>4. QED  BY <3>1, <3>2, <3>3 DEF Starting
  <2>3. QED  BY <1>1, <1>8, <2>1, <2>2
<1>18. StreamInv(t, base)
  <2>1. Len(t) <= MaxPackets /\ Len(t) - 1 = n + m - 1  BY <1>1, <1>2, <1>8
  <2>2. t \in Seq([unit : Nat, at : Places, seq : 0..(SeqModulus - 1), role : Roles, marker : BOOLEAN])
    BY <1>8 DEF P
  <2>3. \A i \in 1..(Len(t) - 1) :
         /\ t[i + 1].unit = IF t[i].marker THEN t[i].unit + 1 ELSE t[i].unit
         /\ t[i].role \in Ends <=> t[i + 1].role \in Begins
    BY <1>15, <2>1
  <2>4. QED  BY <1>1, <1>12, <1>13, <1>14, <1>16, <1>17, <2>1, <2>2, <2>3 DEF StreamInv
<1>19. QED  BY <1>11, <1>18 DEF t, q

LEMMA SendUnitKeeps ==
  ASSUME ReassemblyInv, SendUnit
  PROVE  ReassemblyInv'
<1>1. PICK shape \in Shapes :
        /\ Len(stream) + Len(shape) <= MaxPackets
        /\ stream' = stream \o Packets(shape)
        /\ UNCHANGED <<base, receiverVars>>
  BY DEF SendUnit
<1>2. /\ base' = base /\ reorder' = reorder /\ lost' = lost
      /\ cursor' = cursor /\ target' = target /\ left' = left /\ gap' = gap
      /\ stopped' = stopped /\ joined' = joined /\ progress' = progress
      /\ assembled' = assembled /\ asm' = asm /\ handed' = handed
  BY <1>1 DEF receiverVars, ringVars, sweepVars
<1> DEFINE t == stream \o Packets(shape)
<1>3. StreamInv(stream, base)  BY InvFacts
<1>4. StreamInv(t, base) /\ Grown(stream, t) /\ stream' = t  BY <1>1, <1>3, Sent
<1> HIDE DEF t
<1>5. \A i \in DOMAIN stream : i \in DOMAIN t /\ t[i] = stream[i]  BY <1>3, <1>4, GrownFacts
<1>6. RingType(stream, reorder) /\ AsmType(asm) /\ handed \in Seq(Units)  BY InvFacts
<1>7. RingType(t, reorder)
  <2>1. \A i \in 0..(Window - 1) : reorder[i] # None => \E j \in DOMAIN t : reorder[i] = t[j]
    <3> TAKE i \in 0..(Window - 1)
    <3> HAVE reorder[i] # None
    <3>1. PICK j \in DOMAIN stream : reorder[i] = stream[j]  BY <1>6 DEF RingType
    <3>2. QED  BY <1>5, <3>1
  <2>2. QED  BY <1>6, <2>1 DEF RingType
<1>8. CASE joined
  <2>1. PICK c \in 1..(Len(stream) + 1) :
          /\ Reached(c) /\ SeenInv(stream, assembled, c) /\ AsmInv(stream, asm, assembled, c, gap)
          /\ FinishedInv(stream, asm.ready, handed, assembled, NextOf(stream, asm, assembled))
    BY <1>8, ReachedFacts
  <2>2. Len(stream) <= Len(t) /\ Len(stream) \in Nat /\ Len(t) \in Nat  BY <1>3, <1>4, GrownFacts
  <2>3. c \in 1..(Len(t) + 1)  BY <2>1, <2>2
  <2>4. SeenInv(t, assembled, c)  BY <2>1, <2>3 DEF SeenInv
  <2>5. AsmInv(t, asm, assembled, c, gap)
        /\ NextOf(t, asm, assembled) = NextOf(stream, asm, assembled)
    BY <1>3, <1>4, <2>1, AsmGrown
  <2>6. FinishedInv(t, asm.ready, handed, assembled, NextOf(t, asm, assembled))
    <3> DEFINE next == NextOf(stream, asm, assembled)
               unit == stream[LastOf(assembled)].unit
    <3>1. asm.ready \in Seq(Units)  BY <1>6, AsmFields DEF AsmType
    <3>2. unit \in Nat  BY <1>3, <2>1, SeenFacts, StreamFacts
    <3>3. next = unit + 1 \/ next = unit  BY <2>1 DEF NextOf, AsmInv
    <3>4. next \in Int /\ next <= unit + 1  BY <3>2, <3>3
    <3>5. FinishedInv(stream, asm.ready, handed, assembled, next)  BY <2>1
    <3> HIDE DEF next
    <3>6. FinishedInv(t, asm.ready, handed, assembled, next)
      BY <1>3, <1>4, <1>6, <2>1, <3>1, <3>4, <3>5, FinishedGrown
    <3>7. QED  BY <2>5, <3>6 DEF next
  <2>7. SweepInv(t, c, progress, target, left, gap)
    <3>1. SweepInv(stream, c, progress, target, left, gap)  BY <2>1 DEF Reached
    <3>2. CASE progress = "sweep"
      <4>1. PICK j \in DOMAIN stream : target = stream[j]  BY <3>1, <3>2 DEF SweepInv
      <4>2. \E k \in DOMAIN t : target = t[k]  BY <1>5, <4>1
      <4>3. QED  BY <3>1, <3>2, <4>2 DEF SweepInv
    <3>3. CASE progress # "sweep"  BY <3>1, <3>3 DEF SweepInv
    <3>4. QED  BY <3>2, <3>3
  <2>8. Reached(c)'  BY <1>2, <1>4, <2>1, <2>4, <2>5, <2>6, <2>7 DEF Reached
  <2>9. QED  BY <1>2, <1>4, <1>7, <1>8, <2>3, <2>8 DEF ReassemblyInv
<1>9. CASE ~joined
  <2>1. Untouched  BY <1>9, InvFacts
  <2>2. Untouched'  BY <1>2, <2>1 DEF Untouched
  <2>3. QED  BY <1>2, <1>4, <1>7, <1>9, <2>2 DEF ReassemblyInv
<1>10. QED  BY <1>8, <1>9

-----------------------------------------------------------------------------
(* The theorems. *)

LEMMA InitHolds == Init => ReassemblyInv
<1> SUFFICES ASSUME Init  PROVE ReassemblyInv  OBVIOUS
<1>1. /\ stream = <<>> /\ base \in 0..(SeqModulus - 1) /\ base \in Int
      /\ Window \in Nat /\ ReadyCapacity \in Nat \ {0} /\ MaxPackets \in Nat
      /\ MaxPieces \in Nat /\ SeqModulus \in Nat
  BY LinkAssumption, DepacketizerAssumption DEF Init
<1>2. /\ joined = FALSE /\ cursor = 0 /\ lost = 0
      /\ reorder = [i \in 0..(Window - 1) |-> None]
      /\ asm = NewAssembler
      /\ progress = "rest" /\ target = None /\ left = 0 /\ gap = FALSE
      /\ handed = <<>> /\ assembled = <<>> /\ stopped = FALSE
  BY DEF Init, ReceiverInit
<1>3. StreamInv(<<>>, base)
  <2> DEFINE P == [unit : Nat, at : Places, seq : 0..(SeqModulus - 1), role : Roles, marker : BOOLEAN]
             s == <<>>
  <2>1. s \in Seq(P) /\ Len(s) = 0 /\ DOMAIN s = {} /\ 1..(Len(s) - 1) = {}  BY EmptySeq
  <2>2. s \in Seq([unit : Nat, at : Places, seq : 0..(SeqModulus - 1), role : Roles, marker : BOOLEAN])
    BY <2>1
  <2>3. Len(s) <= MaxPackets  BY <1>1, <2>1
  <2>4. s = <<>>  OBVIOUS
  <2> HIDE DEF s, P
  <2>5. StreamInv(s, base)  BY <1>1, <2>1, <2>2, <2>3, <2>4 DEF StreamInv
  <2>6. QED  BY <2>4, <2>5
<1>4. AsmType(NewAssembler) /\ NewAssembler.ready = <<>>
  <2> DEFINE a == NewAssembler
  <2>1. <<>> \in Seq(Places) /\ <<>> \in Seq(Units) /\ Len(<<>>) = 0  BY EmptySeq
  <2>2. a \in Assemblers  BY <2>1 DEF NewAssembler, Assemblers
  <2>3. a.buffer = <<>> /\ a.ready = <<>> /\ a.open = 0  BY DEF NewAssembler
  <2> HIDE DEF a
  <2>4. AsmType(a)  BY <1>1, <2>1, <2>2, <2>3 DEF AsmType
  <2>5. QED  BY <2>3, <2>4 DEF a
<1>5. RingType(stream, reorder) /\ \A i \in 0..(Window - 1) : reorder[i] = None
  BY <1>2 DEF RingType
<1>6. Untouched  BY <1>2, <1>5 DEF Untouched
<1>7. Len(asm.ready) < ReadyCapacity  BY <1>1, <1>2, <1>4, EmptySeq
<1>8. handed \in Seq(Units)  BY <1>2, EmptySeq
<1>9. left \in 0..(Window + 1)  BY <1>1, <1>2
<1>10. QED  BY <1>1, <1>2, <1>3, <1>4, <1>5, <1>6, <1>7, <1>8, <1>9 DEF ReassemblyInv

\* The invariant: the assembler was shown places of the stream in order, behind
\* the cursor, and holds the stream up to the last of them unless it knows of a
\* gap.
THEOREM ReassemblyInvariance == Spec => []ReassemblyInv
<1>1. Init => ReassemblyInv  BY InitHolds
<1>2. ReassemblyInv /\ [Next]_vars => ReassemblyInv'
  <2> SUFFICES ASSUME ReassemblyInv, [Next]_vars  PROVE ReassemblyInv'  OBVIOUS
  <2>1. CASE SendUnit  BY <2>1, SendUnitKeeps
  <2>2. CASE Deliver
    <3>1. PICK i \in DOMAIN stream : Push(stream[i]) /\ Same  BY <2>2 DEF Deliver, Same
    <3>2. progress = "rest"  BY <3>1 DEF Push
    <3>3. CASE PushNext(stream[i])  BY <3>1, <3>2, <3>3, PushNextKeeps
    <3>4. CASE PushLate(stream[i])  BY <3>1, <3>2, <3>4, PushLateKeeps
    <3>5. CASE PushEarly(stream[i])  BY <3>1, <3>2, <3>5, PushEarlyKeeps
    <3>6. CASE PushBeyond(stream[i])  BY <3>1, <3>2, <3>6, PushBeyondKeeps
    <3>7. QED  BY <3>1, <3>3, <3>4, <3>5, <3>6 DEF Push
  <2>3. CASE Resume /\ Same
    <3>1. CASE SweepHeld  BY <2>3, <3>1, SweepHeldKeeps
    <3>2. CASE SweepMissing  BY <2>3, <3>2, SweepMissingKeeps
    <3>3. CASE SweepEnds  BY <2>3, <3>3, SweepEndsKeeps
    <3>4. CASE DrainHeld  BY <2>3, <3>4, DrainHeldKeeps
    <3>5. CASE DrainEnds  BY <2>3, <3>5, DrainEndsKeeps
    <3>6. QED  BY <2>3, <3>1, <3>2, <3>3, <3>4, <3>5 DEF Resume
  <2>4. CASE UNCHANGED vars
    <3>1. /\ stream' = stream /\ base' = base /\ reorder' = reorder /\ lost' = lost
          /\ cursor' = cursor /\ target' = target /\ left' = left /\ gap' = gap
          /\ stopped' = stopped /\ joined' = joined /\ progress' = progress
          /\ assembled' = assembled /\ asm' = asm /\ handed' = handed
      BY <2>4 DEF vars, receiverVars, ringVars, sweepVars
    <3>2. CASE joined
      <4>1. PICK c \in 1..(Len(stream) + 1) : Reached(c)  BY <3>2, InvFacts
      <4>2. Reached(c)'  BY <3>1, <4>1 DEF Reached
      <4>3. QED  BY <3>1, <3>2, <4>2 DEF ReassemblyInv
    <3>3. CASE ~joined
      <4>1. Untouched'  BY <3>1, <3>3, InvFacts DEF Untouched
      <4>2. QED  BY <3>1, <3>3, <4>1 DEF ReassemblyInv
    <3>4. QED  BY <3>2, <3>3
  <2>5. QED  BY <2>1, <2>2, <2>3, <2>4 DEF Next, Same
<1>3. QED  BY <1>1, <1>2, PTL DEF Spec

\* The receiver stays within its bounds whatever arrives: a ring of Window
\* packets in their slots, READY_CAPACITY units less one between pushes, and a
\* unit in hand under its ceiling.
THEOREM ReceiverTypeCorrect == Spec => []ReceiverTypeOK
<1>1. ReassemblyInv => ReceiverTypeOK
  <2> SUFFICES ASSUME ReassemblyInv  PROVE ReceiverTypeOK  OBVIOUS
  <2>1. /\ joined \in BOOLEAN /\ gap \in BOOLEAN /\ stopped \in BOOLEAN
        /\ left \in 0..(Window + 1) /\ progress \in {"rest", "sweep", "drain"}
        /\ handed \in Seq(Units) /\ AsmType(asm)
        /\ (progress = "rest" => Len(asm.ready) < ReadyCapacity)
        /\ RingType(stream, reorder) /\ base \in Int /\ SeqModulus \in Nat \ {0}
    BY InvFacts, HalfCircle DEF ReassemblyInv
  <2>2. /\ asm \in Assemblers /\ Len(asm.buffer) <= MaxPieces
        /\ asm.open \in 0..Len(asm.buffer) /\ Len(asm.ready) <= ReadyCapacity
    BY <2>1 DEF AsmType
  <2>3. /\ DOMAIN reorder = 0..(Window - 1)
        /\ \A i \in 0..(Window - 1) :
             InRing(reorder[i]) /\ (reorder[i] # None => Slot(reorder[i].seq) = i)
    BY <2>1 DEF RingType, InRing
  <2>4. /\ cursor \in 0..(SeqModulus - 1) /\ lost \in Nat /\ assembled \in Seq(Places)
        /\ IF progress = "sweep" THEN \E i \in DOMAIN stream : target = stream[i] ELSE target = None
    <3>1. CASE joined
      <4>1. PICK c \in 1..(Len(stream) + 1) :
              /\ Reached(c) /\ SeenInv(stream, assembled, c) /\ cursor = Circle(base, c)
              /\ lost = c - assembled[1] - Len(assembled)
        BY <3>1, ReachedFacts
      <4>2. cursor \in 0..(SeqModulus - 1)  BY <2>1, <4>1, Apart
      <4>3. lost \in Nat
        <5>1. /\ Len(assembled) <= c - assembled[1] /\ Len(assembled) \in Nat
              /\ assembled[1] \in Nat /\ c \in Nat
          BY <4>1, InvFacts, SeenFacts
        <5>2. QED  BY <4>1, <5>1
      <4>4. IF progress = "sweep" THEN \E i \in DOMAIN stream : target = stream[i] ELSE target = None
        BY <4>1 DEF Reached, SweepInv
      <4>5. assembled \in Seq(Places)  BY <4>1 DEF SeenInv
      <4>6. QED  BY <4>2, <4>3, <4>4, <4>5
    <3>2. CASE ~joined
      <4>1. cursor = 0 /\ lost = 0 /\ assembled = <<>> /\ target = None /\ progress = "rest"
        BY <3>2, InvFacts DEF Untouched
      <4>2. QED  BY <2>1, <4>1, EmptySeq
    <3>3. QED  BY <2>1, <3>1, <3>2
  <2>5. QED  BY <2>1, <2>2, <2>3, <2>4 DEF ReceiverTypeOK
<1>2. QED  BY <1>1, ReassemblyInvariance, PTL

\* What the decoder is handed is sound: tails of units, in order and once, none
\* with a hole the assembler could see; and what waits in the ring waits for a
\* hole.
THEOREM ReceiverIsSound == Spec => []ReceiverSound
<1>1. ReassemblyInv => ReceiverSound
  <2> SUFFICES ASSUME ReassemblyInv  PROVE ReceiverSound  OBVIOUS
  <2>1. CASE joined
    <3>1. PICK c \in 1..(Len(stream) + 1) :
            /\ Reached(c) /\ 2 <= c /\ cursor = Circle(base, c)
            /\ FinishedInv(stream, asm.ready, handed, assembled, NextOf(stream, asm, assembled))
      BY <2>1, ReachedFacts
    <3>2. HandsOnTails
      <4>1. ASSUME NEW i \in DOMAIN handed  PROVE IsTail(handed[i])
        <5>1. TailOf(stream, handed[i])  BY <3>1 DEF FinishedInv, Good
        <5>2. PICK to \in DOMAIN stream : \E from \in 1..to :
                /\ IsRun(handed[i].data, from, to)
                /\ stream[from].role \in Begins /\ stream[to].marker
                /\ \A k \in from..to : stream[k].unit = handed[i].unit
          BY <5>1 DEF TailOf
        <5>3. PICK from \in 1..to :
                /\ IsRun(handed[i].data, from, to)
                /\ stream[from].role \in Begins /\ stream[to].marker
                /\ \A k \in from..to : stream[k].unit = handed[i].unit
          BY <5>2
        <5>4. QED  BY <5>3, Zenon DEF IsTail
      <4>2. QED  BY <3>1, <4>1 DEF HandsOnTails, FinishedInv
    <3>3. ConfinedHolesAreDropped
      <4> SUFFICES ASSUME NEW i \in DOMAIN handed
                   PROVE  HoleWasBefore(handed[i].unit, handed[i].data[1])
        BY DEF ConfinedHolesAreDropped
      <4>1. Hole(stream, assembled, handed[i].unit, handed[i].data[1])
        BY <3>1 DEF FinishedInv, Good
      <4>2. QED
        BY <4>1 DEF Hole, Big, Starting, HoleWasBefore, UnitBegins, JoinedUnit, JoinedAt, Seen, TooBig
    <3>4. RingIsAhead
      <4>1. SUFFICES ASSUME progress = "rest", ~stopped, NEW i \in 0..(Window - 1), reorder[i] # None
                     PROVE  Distance(reorder[i].seq, cursor) \in 1..Window
        BY InvFacts DEF RingIsAhead, RingType
      <4>2. RingInv(reorder, c, "rest", left)  BY <3>1, <4>1 DEF Reached
      <4>3. reorder[i].at >= c + 1 /\ reorder[i].at <= c + Window  BY <4>1, <4>2 DEF RingInv
      <4>4. PICK j \in DOMAIN stream : reorder[i] = stream[j]  BY <4>1, InvFacts DEF RingType
      <4>5. c \in Int /\ c <= Len(stream) + 1 /\ j \in Int /\ stream[j].at = j /\ Window \in Nat
        BY InvFacts, HalfCircle
      <4>6. Distance(stream[j].seq, cursor) = j - c  BY <3>1, <4>5, AheadIsTrue
      <4>7. j - c \in 1..Window  BY <4>3, <4>4, <4>5
      <4>8. QED  BY <4>4, <4>6, <4>7
    <3>5. QED  BY <3>2, <3>3, <3>4 DEF ReceiverSound
  <2>2. CASE ~joined
    <3>1. DOMAIN handed = {} /\ \A i \in DOMAIN reorder : reorder[i] = None
      <4>1. handed = <<>> /\ \A i \in 0..(Window - 1) : reorder[i] = None
        BY <2>2, InvFacts DEF Untouched
      <4>2. DOMAIN reorder = 0..(Window - 1)  BY InvFacts DEF RingType
      <4>3. QED  BY <4>1, <4>2, EmptySeq
    <3>2. QED
      BY <3>1 DEF ReceiverSound, HandsOnTails, ConfinedHolesAreDropped, RingIsAhead
  <2>3. QED  BY <2>1, <2>2, InvFacts
<1>2. QED  BY <1>1, ReassemblyInvariance, PTL

\* The assembler is shown every packet once at most and in the order sent, the
\* loss reported is exactly what it was not shown, and without a loss a unit is
\* dropped only for its size, for want of room, or where the stream was joined.
THEOREM LossCountIsExact == Spec => []LossIsExact
<1>1. ReassemblyInv => LossIsExact
  <2> SUFFICES ASSUME ReassemblyInv  PROVE LossIsExact  OBVIOUS
  <2>1. CASE joined
    <3>1. PICK c \in 1..(Len(stream) + 1) :
            /\ Reached(c) /\ cursor = Circle(base, c) /\ SeenInv(stream, assembled, c)
            /\ AsmInv(stream, asm, assembled, c, gap)
            /\ lost = c - assembled[1] - Len(assembled)
      BY <2>1, ReachedFacts
    <3>2. /\ Len(assembled) <= c - assembled[1] /\ Len(assembled) \in Nat
          /\ assembled[1] \in Nat /\ c \in Nat /\ base \in Int
          /\ assembled[1] \in DOMAIN stream
      BY <3>1, InvFacts, SeenFacts
    <3>3. Passed = c - assembled[1]
      <4>1. c - assembled[1] \in 0..(SeqModulus - 1)
        <5>1. c <= Len(stream) + 1 /\ Len(stream) <= MaxPackets /\ MaxPackets < SeqModulus
              /\ 1 <= assembled[1] /\ MaxPackets \in Nat /\ SeqModulus \in Nat /\ Len(stream) \in Nat
          BY <3>2, InvFacts, HalfCircle
        <5>2. QED  BY <3>2, <5>1
      <4>2. QED  BY <3>1, <3>2, <4>1, PassedIs DEF Passed, JoinedAt
    <3>4. \A i, j \in DOMAIN assembled : i < j => assembled[i] < assembled[j]
      BY <3>1 DEF SeenInv
    <3>5. LossCounted  BY <3>1, <3>3, <3>4 DEF LossCounted
    <3>6. DropsHaveACause
      <4>1. SUFFICES ASSUME asm.dropped > 0, lost = 0, ~(asm.oversized > 0), ~(asm.crowded > 0),
                            UnitBegins(JoinedAt)
                     PROVE  FALSE
        BY DEF DropsHaveACause
      <4>2. asm.dropped \in Nat /\ asm.oversized = 0 /\ asm.crowded = 0
        BY <4>1, InvFacts, AsmFields DEF AsmType
      <4>3. c = assembled[1] + Len(assembled)  BY <3>1, <3>2, <4>1
      <4>4. Clean(stream, asm, assembled, c)
        BY <4>1, <4>2, <4>3 DEF Clean, Starting, UnitBegins, JoinedAt
      <4>5. asm.dropped = 0  BY <3>1, <4>4 DEF AsmInv
      <4>6. QED  BY <4>1, <4>5
    <3>7. QED  BY <3>5, <3>6 DEF LossIsExact
  <2>2. CASE ~joined
    <3>1. asm.dropped = 0  BY <2>2, InvFacts DEF Untouched, NewAssembler
    <3>2. QED  BY <2>2, <3>1 DEF LossIsExact, LossCounted, DropsHaveACause
  <2>3. QED  BY <2>1, <2>2, InvFacts
<1>2. QED  BY <1>1, ReassemblyInvariance, PTL

=============================================================================
