---------------------------- MODULE PictureProofs ----------------------------
(***************************************************************************)
(* The bytes of a picture come through, whatever its NAL units are: for    *)
(* every size of a byte, a prefix and a datagram, every stream of NAL      *)
(* units, every mix of start codes and every padding.                      *)
(*                                                                         *)
(* A NAL unit has a place in each of the four forms it takes: in the       *)
(* Annex B stream (Landmarks), in the AVCC data (AvccLies), among the      *)
(* payloads (PayloadsAre) and in the assembler's buffer (Between, Within). *)
(* The invariant says how many are behind each of them.                    *)
(***************************************************************************)
EXTENDS PictureBytes, SequenceTheorems, WellFoundedInduction, TLAPS

-----------------------------------------------------------------------------
(* Recursion and induction over the naturals. *)

\* A set of naturals that is not empty has a least element.
LEMMA LeastNatural ==
  ASSUME NEW T \in SUBSET Nat, T # {}
  PROVE  \E n \in T : \A m \in T : n <= m
<1>1. PICK n \in T : \A m \in T : ~(<<m, n>> \in OpToRel(<, Nat))
  BY NatLessThanWellFounded, WFMin
<1>2. ASSUME NEW m \in T PROVE n <= m
  <2>1. ~(m < n)  BY <1>1 DEF OpToRel
  <2>2. QED  BY <2>1
<1>3. QED  BY <1>2

\* Induction up to a bound, over the set of the naturals that have a property.
LEMMA UpTo ==
  ASSUME NEW N \in Nat, NEW T, 0 \in T, \A n \in T : n < N => n + 1 \in T
  PROVE  \A n \in 0..N : n \in T
<1> DEFINE bad == {n \in 0..N : n \notin T}
<1>1. SUFFICES ASSUME bad # {} PROVE FALSE  OBVIOUS
<1>2. PICK x \in bad : \A y \in bad : x <= y
  <2>1. bad \in SUBSET Nat  OBVIOUS
  <2> HIDE DEF bad
  <2>2. QED  BY <1>1, <2>1, LeastNatural
<1>3. x \in Nat /\ x # 0 /\ x <= N /\ x \notin T  BY <1>2
<1>4. x - 1 \in 0..N  BY <1>3
<1>5. x - 1 \in T
  <2>1. ~(x <= x - 1)  BY <1>3
  <2>2. QED  BY <1>2, <1>4, <2>1
<1>6. (x - 1) + 1 = x /\ x - 1 < N  BY <1>3
<1>7. QED  BY <1>3, <1>5, <1>6

\* What is done again and again to a value has a result after every time.
Repeats(g, N, V, start, step) ==
    g \in [0..N -> V] /\ g[0] = start /\ \A n \in 1..N : g[n] = step[<<n, g[n - 1]>>]

LEMMA Repeated ==
  ASSUME NEW N \in Nat, NEW V, NEW start \in V, NEW step \in [(1..N) \X V -> V]
  PROVE  \E g : Repeats(g, N, V, start, step)
<1> DEFINE Upto(g, k) == g[0] = start /\ \A n \in 1..k : g[n] = step[<<n, g[n - 1]>>]
           T == {k \in 0..N : \E g \in [0..N -> V] : Upto(g, k)}
<1>1. 0 \in T
  <2> DEFINE g == [n \in 0..N |-> start]
  <2>1. g \in [0..N -> V] /\ 0 \in 0..N  OBVIOUS
  <2>2. Upto(g, 0)  BY <2>1
  <2> HIDE DEF g, Upto
  <2>3. QED  BY <2>1, <2>2
<1>2. ASSUME NEW k \in T, k < N PROVE k + 1 \in T
  <2>1. PICK g \in [0..N -> V] : Upto(g, k)  OBVIOUS
  <2> DEFINE h == [n \in 0..N |-> IF n = k + 1 THEN step[<<k + 1, g[k]>>] ELSE g[n]]
  <2>2. k \in 0..N /\ k + 1 \in 1..N /\ k + 1 \in 0..N  BY <1>2
  <2>3. h \in [0..N -> V]
    <3>1. step[<<k + 1, g[k]>>] \in V  BY <2>2
    <3>2. QED  BY <3>1
  <2>4. Upto(h, k + 1)
    <3>1. h[0] = start  BY <2>1, <2>2
    <3>2. ASSUME NEW n \in 1..(k + 1) PROVE h[n] = step[<<n, h[n - 1]>>]
      <4>1. n - 1 \in 0..N /\ n \in 0..N /\ n - 1 # k + 1 /\ h[n - 1] = g[n - 1]  BY <2>2
      <4>2. CASE n = k + 1
        <5>1. n - 1 = k /\ h[n] = step[<<k + 1, g[k]>>]  BY <2>2, <4>1, <4>2
        <5>2. QED  BY <4>1, <4>2, <5>1
      <4>3. CASE n # k + 1
        <5>1. n \in 1..k /\ h[n] = g[n]  BY <2>2, <4>1, <4>3
        <5>2. QED  BY <2>1, <4>1, <5>1
      <4>4. QED  BY <4>2, <4>3
    <3>3. QED  BY <3>1, <3>2
  <2> HIDE DEF h, Upto
  <2>5. QED  BY <2>2, <2>3, <2>4
<1> HIDE DEF T
<1>3. \A n \in 0..N : n \in T  BY <1>1, <1>2, UpTo
<1>4. N \in T  BY <1>3
<1>5. QED  BY <1>4 DEF T, Repeats

-----------------------------------------------------------------------------
(* Sequences of sequences, one after another. *)

\* Joining a sequence of sequences has a result after each of them.
LEMMA Joined ==
  ASSUME NEW A, NEW seqs \in Seq(Seq(A))
  PROVE  \E g \in [0..Len(seqs) -> Seq(A)] :
           /\ g[0] = <<>> /\ g[Len(seqs)] = FlattenSeq(seqs)
           /\ \A i \in 1..Len(seqs) : g[i] = g[i - 1] \o seqs[i]
<1> DEFINE N == Len(seqs)
           V == Seq(A)
           step == [p \in (1..N) \X V |-> p[2] \o seqs[p[1]]]
<1>1. N \in Nat /\ \A i \in 1..N : seqs[i] \in V  OBVIOUS
<1>2. <<>> \in V  OBVIOUS
<1>3. step \in [(1..N) \X V -> V]
  <2>1. \A i \in 1..N, v \in V : v \o seqs[i] \in V  BY <1>1, ConcatProperties
  <2>2. QED  BY <2>1
<1>4. \A i \in 1..N, v \in V : step[<<i, v>>] = v \o seqs[i]  OBVIOUS
<1> HIDE DEF N, V, step
<1>5. PICK g : Repeats(g, N, V, <<>>, step)  BY <1>1, <1>2, <1>3, Repeated
<1>6. /\ g \in [0..N -> V] /\ g[0] = <<>>
      /\ \A i \in 1..N : g[i] = g[i - 1] \o seqs[i]
  <2>1. \A i \in 1..N : i - 1 \in 0..N  BY <1>1
  <2>2. QED  BY <1>4, <1>5, <2>1 DEF Repeats
<1>7. g[N] = FlattenSeq(seqs)
  <2>1. CASE N = 0  BY <1>6, <2>1 DEF FlattenSeq, N
  <2>2. CASE N # 0
    <3> DEFINE h == [i \in 1..N |-> g[i]]
               flat == CHOOSE f : f = [i \in 1..N |-> IF i = 1 THEN seqs[i] ELSE f[i - 1] \o seqs[i]]
    <3>1. h = [i \in 1..N |-> IF i = 1 THEN seqs[i] ELSE h[i - 1] \o seqs[i]]
      <4>1. ASSUME NEW i \in 1..N
            PROVE  h[i] = IF i = 1 THEN seqs[i] ELSE h[i - 1] \o seqs[i]
        <5>1. h[i] = g[i - 1] \o seqs[i]  BY <1>6
        <5>2. CASE i = 1
          <6>1. g[i - 1] = <<>>  BY <1>6, <5>2
          <6>2. <<>> \o seqs[i] = seqs[i]  BY <1>1, ConcatEmptySeq DEF V
          <6>3. QED  BY <5>1, <5>2, <6>1, <6>2
        <5>3. CASE i # 1
          <6>1. i - 1 \in 1..N  BY <1>1, <5>3
          <6>2. h[i - 1] = g[i - 1]  BY <6>1
          <6>3. QED  BY <5>1, <5>3, <6>2
        <5>4. QED  BY <5>2, <5>3
      <4>2. QED  BY <4>1
    <3> HIDE DEF h
    <3>2. flat = [i \in 1..N |-> IF i = 1 THEN seqs[i] ELSE flat[i - 1] \o seqs[i]]  BY <3>1
    <3> HIDE DEF flat
    <3> DEFINE T == {i \in 0..N : i > 0 => flat[i] = g[i]}
    <3>3. 0 \in T  BY <1>1
    <3>4. ASSUME NEW i \in T, i < N PROVE i + 1 \in T
      <4>1. i + 1 \in 1..N /\ i \in 0..N  BY <1>1, <3>4
      <4>2. flat[i + 1] = IF i + 1 = 1 THEN seqs[i + 1] ELSE flat[i] \o seqs[i + 1]
        <5>1. (i + 1) - 1 = i  BY <4>1
        <5>2. QED  BY <3>2, <4>1, <5>1
      <4>3. g[i + 1] = g[i] \o seqs[i + 1]
        <5>1. (i + 1) - 1 = i  BY <4>1
        <5>2. QED  BY <1>6, <4>1, <5>1
      <4>4. CASE i = 0
        <5>1. <<>> \o seqs[i + 1] = seqs[i + 1]  BY <1>1, <4>1, ConcatEmptySeq DEF V
        <5>2. g[i] = <<>> /\ i + 1 = 1  BY <1>6, <4>4
        <5>3. flat[i + 1] = g[i + 1]  BY <4>2, <4>3, <5>1, <5>2
        <5>4. QED  BY <4>1, <5>3
      <4>5. CASE i # 0
        <5>1. flat[i] = g[i] /\ i + 1 # 1  BY <4>1, <4>5
        <5>2. flat[i + 1] = g[i + 1]  BY <4>2, <4>3, <4>4, <4>5, <5>1
        <5>3. QED  BY <4>1, <5>2
      <4>6. QED  BY <4>4, <4>5
    <3> HIDE DEF T
    <3>5. \A i \in 0..N : i \in T  BY <1>1, <3>3, <3>4, UpTo
    <3>6. flat[N] = g[N]
      <4>1. N \in T  BY <1>1, <3>5
      <4>2. QED  BY <1>1, <2>2, <4>1 DEF T
    <3>7. FlattenSeq(seqs) = flat[N]  BY <2>2 DEF FlattenSeq, flat, N
    <3>8. QED  BY <3>6, <3>7
  <2>3. QED  BY <2>1, <2>2
<1>8. QED  BY <1>6, <1>7 DEF N, V

\* The first so many of them, and where they end.
Flat(seqs, i) == FlattenSeq(SubSeq(seqs, 1, i))
Ends(seqs, i) == Len(Flat(seqs, i))

LEMMA Flats ==
  ASSUME NEW A, NEW seqs \in Seq(Seq(A))
  PROVE  /\ Flat(seqs, 0) = <<>> /\ Flat(seqs, Len(seqs)) = FlattenSeq(seqs)
         /\ \A i \in 0..Len(seqs) : Flat(seqs, i) \in Seq(A)
         /\ \A i \in 1..Len(seqs) : Flat(seqs, i) = Flat(seqs, i - 1) \o seqs[i]
<1>1. PICK g \in [0..Len(seqs) -> Seq(A)] :
        /\ g[0] = <<>> /\ g[Len(seqs)] = FlattenSeq(seqs)
        /\ \A i \in 1..Len(seqs) : g[i] = g[i - 1] \o seqs[i]
  BY Joined
<1>2. ASSUME NEW n \in 0..Len(seqs) PROVE Flat(seqs, n) = g[n]
  <2> DEFINE part == SubSeq(seqs, 1, n)
  <2>1. part \in Seq(Seq(A)) /\ Len(part) = n /\ \A i \in 1..n : part[i] = seqs[i]
    <3>1. \A i \in 1..n : seqs[i] \in Seq(A)  OBVIOUS
    <3>2. n \in Int /\ n >= 0 /\ 1 \in Int  OBVIOUS
    <3>3. part \in Seq(Seq(A))  BY <3>1, <3>2, SubSeqProperties
    <3>4. Len(part) = n  BY <3>1, <3>2, SubSeqProperties
    <3>5. \A i \in 1..n : part[i] = seqs[i]  BY <3>1, <3>2, SubSeqProperties
    <3>6. QED  BY <3>3, <3>4, <3>5
  <2> HIDE DEF part
  <2>2. PICK f \in [0..n -> Seq(A)] :
          /\ f[0] = <<>> /\ f[n] = FlattenSeq(part)
          /\ \A i \in 1..n : f[i] = f[i - 1] \o part[i]
    <3>1. part \in Seq(Seq(A))  BY <2>1
    <3>2. \E f \in [0..Len(part) -> Seq(A)] :
            /\ f[0] = <<>> /\ f[Len(part)] = FlattenSeq(part)
            /\ \A i \in 1..Len(part) : f[i] = f[i - 1] \o part[i]
      BY <3>1, Joined
    <3>3. Len(part) = n  BY <2>1
    <3>4. QED  BY <3>2, <3>3
  <2> DEFINE T == {i \in 0..n : f[i] = g[i]}
  <2>3. 0 \in T  BY <1>1, <2>2
  <2>4. ASSUME NEW i \in T, i < n PROVE i + 1 \in T
    <3>1. i + 1 \in 1..n /\ i + 1 \in 1..Len(seqs) /\ (i + 1) - 1 = i  BY <2>4
    <3>2. f[i + 1] = f[i] \o part[i + 1]  BY <2>2, <3>1
    <3>3. g[i + 1] = g[i] \o seqs[i + 1]  BY <1>1, <3>1
    <3>4. f[i + 1] = g[i + 1]  BY <2>1, <3>1, <3>2, <3>3
    <3>5. QED  BY <3>1, <3>4
  <2> HIDE DEF T
  <2>5. \A i \in 0..n : i \in T
    <3>1. n \in Nat  OBVIOUS
    <3>2. QED  BY <2>3, <2>4, <3>1, UpTo
  <2>6. f[n] = g[n]
    <3>1. n \in T  BY <2>5
    <3>2. QED  BY <3>1 DEF T
  <2>7. QED  BY <2>2, <2>6 DEF Flat, part
<1>3. Len(seqs) \in Nat  OBVIOUS
<1>4. \A i \in 1..Len(seqs) : i \in 0..Len(seqs) /\ i - 1 \in 0..Len(seqs)  BY <1>3
<1>5. 0 \in 0..Len(seqs) /\ Len(seqs) \in 0..Len(seqs)  BY <1>3
<1>6. Flat(seqs, 0) = <<>> /\ Flat(seqs, Len(seqs)) = FlattenSeq(seqs)  BY <1>1, <1>2, <1>5
<1>7. \A i \in 0..Len(seqs) : Flat(seqs, i) \in Seq(A)  BY <1>1, <1>2
<1>8. ASSUME NEW i \in 1..Len(seqs) PROVE Flat(seqs, i) = Flat(seqs, i - 1) \o seqs[i]
  BY <1>1, <1>2, <1>4
<1>9. QED  BY <1>6, <1>7, <1>8

\* Each begins where those before it end, and is found there in the whole.
LEMMA FlatInside ==
  ASSUME NEW A, NEW seqs \in Seq(Seq(A))
  PROVE  /\ Ends(seqs, 0) = 0 /\ Ends(seqs, Len(seqs)) = Len(FlattenSeq(seqs))
         /\ \A i \in 0..Len(seqs) : Ends(seqs, i) \in Nat
         /\ \A i \in 1..Len(seqs) : Ends(seqs, i) = Ends(seqs, i - 1) + Len(seqs[i])
         /\ \A j \in 0..Len(seqs) : \A i \in 0..j : Ends(seqs, i) <= Ends(seqs, j)
         /\ \A i \in 1..Len(seqs) : \A x \in 1..Len(seqs[i]) :
              /\ Ends(seqs, i - 1) + x \in 1..Len(FlattenSeq(seqs))
              /\ FlattenSeq(seqs)[Ends(seqs, i - 1) + x] = seqs[i][x]
<1> DEFINE N == Len(seqs)
           E(i) == Ends(seqs, i)
           F(i) == Flat(seqs, i)
<1>1. N \in Nat /\ \A i \in 1..N : seqs[i] \in Seq(A) /\ i \in 0..N /\ i - 1 \in 0..N  OBVIOUS
<1>2. /\ F(0) = <<>> /\ F(N) = FlattenSeq(seqs)
      /\ \A i \in 0..N : F(i) \in Seq(A)
      /\ \A i \in 1..N : F(i) = F(i - 1) \o seqs[i]
  BY Flats
<1>3. \A i \in 0..N : E(i) = Len(F(i)) /\ E(i) \in Nat  BY <1>2, LenProperties DEF Ends
<1>4. E(0) = 0 /\ E(N) = Len(FlattenSeq(seqs))  BY <1>1, <1>2, <1>3
<1> HIDE DEF E, F, N
<1>5. ASSUME NEW i \in 1..N
      PROVE  /\ E(i) = E(i - 1) + Len(seqs[i]) /\ Len(seqs[i]) \in Nat
             /\ \A x \in 1..E(i - 1) : F(i)[x] = F(i - 1)[x]
             /\ \A x \in 1..Len(seqs[i]) : F(i)[E(i - 1) + x] = seqs[i][x]
  <2>1. F(i - 1) \in Seq(A) /\ seqs[i] \in Seq(A) /\ F(i) = F(i - 1) \o seqs[i]  BY <1>1, <1>2
  <2>2. E(i - 1) = Len(F(i - 1)) /\ E(i) = Len(F(i)) /\ E(i - 1) \in Nat  BY <1>1, <1>3
  <2>3. Len(seqs[i]) \in Nat  BY <2>1, LenProperties
  <2> DEFINE a == F(i - 1)
             b == seqs[i]
  <2> HIDE DEF a, b
  <2>4. /\ Len(a \o b) = Len(a) + Len(b)
        /\ \A x \in 1..(Len(a) + Len(b)) : (a \o b)[x] = IF x <= Len(a) THEN a[x] ELSE b[x - Len(a)]
    BY <2>1, ConcatProperties DEF a, b
  <2>5. Len(a) \in Nat /\ Len(b) \in Nat  BY <2>2, <2>3 DEF a, b
  <2>6. \A x \in 1..Len(a) : (a \o b)[x] = a[x]  BY <2>4, <2>5
  <2>7. ASSUME NEW x \in 1..Len(b) PROVE (a \o b)[Len(a) + x] = b[x]
    <3>1. Len(a) + x \in 1..(Len(a) + Len(b)) /\ ~(Len(a) + x <= Len(a)) /\ (Len(a) + x) - Len(a) = x
      BY <2>5
    <3>2. QED  BY <2>4, <3>1
  <2>8. QED  BY <2>1, <2>2, <2>3, <2>4, <2>6, <2>7 DEF a, b
<1>6. ASSUME NEW i \in 0..N
      PROVE  \A j \in 0..N : i <= j => E(i) <= E(j) /\ \A x \in 1..E(i) : F(j)[x] = F(i)[x]
  <2> DEFINE T == {j \in 0..N : i <= j => E(i) <= E(j) /\ \A x \in 1..E(i) : F(j)[x] = F(i)[x]}
  <2>1. 0 \in T
    <3>1. CASE i = 0  BY <1>1, <1>3, <3>1
    <3>2. CASE i # 0  BY <1>1, <3>2
    <3>3. QED  BY <3>1, <3>2
  <2>2. ASSUME NEW j \in T, j < N PROVE j + 1 \in T
    <3>1. j + 1 \in 1..N /\ j + 1 \in 0..N /\ (j + 1) - 1 = j /\ j \in 0..N  BY <1>1, <2>2
    <3>2. CASE i = j + 1
      <4>1. E(i) <= E(j + 1)  BY <1>3, <3>2
      <4>2. QED  BY <3>1, <3>2, <4>1
    <3>3. CASE i # j + 1
      <4>1. CASE i <= j
        <5>1. E(i) <= E(j) /\ \A x \in 1..E(i) : F(j)[x] = F(i)[x]  BY <2>2, <4>1
        <5>2. /\ E(j + 1) = E(j) + Len(seqs[j + 1]) /\ Len(seqs[j + 1]) \in Nat
              /\ \A x \in 1..E(j) : F(j + 1)[x] = F(j)[x]
          BY <1>5, <3>1
        <5>3. E(i) \in Nat /\ E(j) \in Nat  BY <1>3, <3>1
        <5>4. E(i) <= E(j + 1)  BY <5>1, <5>2, <5>3
        <5>5. \A x \in 1..E(i) : F(j + 1)[x] = F(i)[x]  BY <5>1, <5>2, <5>3
        <5>6. QED  BY <3>1, <5>4, <5>5
      <4>2. CASE ~(i <= j)
        <5>1. ~(i <= j + 1)  BY <3>1, <3>3, <4>2
        <5>2. QED  BY <3>1, <5>1
      <4>3. QED  BY <4>1, <4>2
    <3>4. QED  BY <3>2, <3>3
  <2> HIDE DEF T
  <2>3. \A j \in 0..N : j \in T  BY <1>1, <2>1, <2>2, UpTo
  <2>4. QED  BY <2>3 DEF T
<1>7. ASSUME NEW i \in 1..N, NEW x \in 1..Len(seqs[i])
      PROVE  E(i - 1) + x \in 1..E(N) /\ F(N)[E(i - 1) + x] = seqs[i][x]
  <2>1. i \in 0..N /\ i - 1 \in 0..N /\ N \in 0..N /\ i <= N  BY <1>1
  <2>2. E(i) \in Nat /\ E(i - 1) \in Nat /\ E(N) \in Nat  BY <1>3, <2>1
  <2>3. E(i) <= E(N) /\ \A y \in 1..E(i) : F(N)[y] = F(i)[y]  BY <1>6, <2>1
  <2>4. E(i) = E(i - 1) + Len(seqs[i]) /\ Len(seqs[i]) \in Nat /\ F(i)[E(i - 1) + x] = seqs[i][x]
    BY <1>5
  <2>5. E(i - 1) + x \in 1..E(i) /\ E(i - 1) + x \in 1..E(N)
    <3> DEFINE a == E(i - 1)
               b == E(i)
               c == E(N)
               m == Len(seqs[i])
    <3>1. a \in Nat /\ b \in Nat /\ c \in Nat /\ m \in Nat /\ b = a + m /\ b <= c /\ x \in 1..m
      BY <2>2, <2>3, <2>4
    <3> HIDE DEF a, b, c, m
    <3>2. a + x \in 1..b /\ a + x \in 1..c  BY <3>1
    <3>3. QED  BY <3>2 DEF a, b, c
  <2>6. QED  BY <2>3, <2>4, <2>5
<1>8. \A i \in 1..N : E(i) = E(i - 1) + Len(seqs[i])  BY <1>5
<1>9. \A j \in 0..N : \A i \in 0..j : E(i) <= E(j)
  <2>1. \A j \in 0..N : \A i \in 0..j : i \in 0..N /\ i <= j  BY <1>1
  <2>2. QED  BY <1>6, <2>1
<1>10. F(N) = FlattenSeq(seqs) /\ E(N) = Len(FlattenSeq(seqs))  BY <1>2, <1>4
<1>11. QED  BY <1>3, <1>4, <1>7, <1>8, <1>9, <1>10 DEF E, F, N

-----------------------------------------------------------------------------
(* Bytes and lengths. *)

LEMMA Sizes ==
  /\ TypeSpan \in Nat /\ TypeSpan >= 1 /\ Radix \in Nat /\ Radix >= 8 /\ Radix = 8 * TypeSpan
  /\ LengthSize \in Nat /\ LengthSize >= 1 /\ Capacity \in Nat /\ Capacity >= 3
BY PictureAssumption DEF Radix, FuHeader

LEMMA Quotient ==
  ASSUME NEW n \in Nat, n >= 1, NEW a \in Nat
  PROVE  a \div n \in Nat /\ a % n \in 0..(n - 1) /\ ((a \div n) * n) + (a % n) = a
<1>1. a = n * (a \div n) + (a % n) /\ a % n \in 0..(n - 1) /\ a \div n \in Int  OBVIOUS
<1>2. a \div n >= 0  OBVIOUS
<1> DEFINE q == a \div n
           r == a % n
<1>3. q \in Nat /\ r \in 0..(n - 1) /\ a = n * q + r  BY <1>1, <1>2
<1> HIDE DEF q, r
<1>4. n * q = q * n  BY <1>3
<1>5. (q * n) + r = a  BY <1>3, <1>4
<1>6. QED  BY <1>3, <1>5 DEF q, r

\* A shift by one more byte is a division more.
LEMMA Shifts ==
  ASSUME NEW length \in Nat, NEW B \in Nat
  PROVE  /\ Shifted(length, 0) = length
         /\ \A b \in 0..B : Shifted(length, b) \in Nat
         /\ \A b \in 1..B : Shifted(length, b) = Shifted(length, b - 1) \div Radix
<1> DEFINE step == [p \in (1..B) \X Nat |-> p[2] \div Radix]
<1>1. \A v \in Nat : v \div Radix \in Nat  BY Sizes, Quotient
<1>2. step \in [(1..B) \X Nat -> Nat]  BY <1>1
<1>3. \A i \in 1..B, v \in Nat : step[<<i, v>>] = v \div Radix  OBVIOUS
<1> HIDE DEF step
<1>4. PICK g : Repeats(g, B, Nat, length, step)  BY <1>2, Repeated
<1>5. g \in [0..B -> Nat] /\ g[0] = length /\ \A i \in 1..B : g[i] = g[i - 1] \div Radix
  <2>1. \A i \in 1..B : i - 1 \in 0..B  OBVIOUS
  <2>2. QED  BY <1>3, <1>4, <2>1 DEF Repeats
<1>6. ASSUME NEW b \in 0..B PROVE Shifted(length, b) = g[b]
  <2> DEFINE h == [i \in 0..b |-> g[i]]
             rest == CHOOSE f : f = [i \in 0..b |-> IF i = 0 THEN length ELSE f[i - 1] \div Radix]
  <2>1. b \in Nat /\ \A i \in 1..b : i - 1 \in 0..b /\ i \in 1..B  OBVIOUS
  <2>2. h = [i \in 0..b |-> IF i = 0 THEN length ELSE h[i - 1] \div Radix]
    <3>1. ASSUME NEW i \in 0..b PROVE h[i] = IF i = 0 THEN length ELSE h[i - 1] \div Radix
      <4>1. CASE i = 0  BY <1>5, <4>1
      <4>2. CASE i # 0
        <5>1. i \in 1..b /\ h[i - 1] = g[i - 1] /\ h[i] = g[i]  BY <2>1, <4>2
        <5>2. g[i] = g[i - 1] \div Radix  BY <1>5, <2>1, <5>1
        <5>3. QED  BY <4>2, <5>1, <5>2
      <4>3. QED  BY <4>1, <4>2
    <3>2. QED  BY <3>1
  <2> HIDE DEF h
  <2>3. rest = [i \in 0..b |-> IF i = 0 THEN length ELSE rest[i - 1] \div Radix]  BY <2>2
  <2> HIDE DEF rest
  <2> DEFINE T == {i \in 0..b : rest[i] = g[i]}
  <2>4. 0 \in T  BY <1>5, <2>1, <2>3
  <2>5. ASSUME NEW i \in T, i < b PROVE i + 1 \in T
    <3>1. i + 1 \in 1..b /\ i + 1 \in 0..b /\ (i + 1) - 1 = i /\ i + 1 # 0 /\ i + 1 \in 1..B  BY <2>5
    <3>2. rest[i + 1] = rest[i] \div Radix  BY <2>3, <3>1
    <3>3. g[i + 1] = g[i] \div Radix  BY <1>5, <3>1
    <3>4. QED  BY <3>1, <3>2, <3>3
  <2> HIDE DEF T
  <2>6. \A i \in 0..b : i \in T  BY <2>1, <2>4, <2>5, UpTo
  <2>7. rest[b] = g[b]
    <3>1. b \in T  BY <2>6
    <3>2. QED  BY <3>1 DEF T
  <2>8. QED  BY <2>7 DEF Shifted, rest
<1>7. \A b \in 0..B : Shifted(length, b) \in Nat  BY <1>5, <1>6
<1>8. ASSUME NEW b \in 1..B PROVE Shifted(length, b) = Shifted(length, b - 1) \div Radix
  <2>1. b \in 0..B /\ b - 1 \in 0..B  OBVIOUS
  <2>2. QED  BY <1>5, <1>6, <2>1
<1>9. Shifted(length, 0) = length  BY <1>5, <1>6
<1>10. QED  BY <1>7, <1>8, <1>9

LEMMA PrefixTyped ==
  ASSUME NEW length \in Nat
  PROVE  /\ Prefix(length) \in Seq(Nat) /\ Len(Prefix(length)) = LengthSize
         /\ \A i \in 1..LengthSize : Prefix(length)[i] = Shifted(length, LengthSize - i) % Radix
<1>1. \A i \in 1..LengthSize : LengthSize - i \in 0..LengthSize  BY Sizes
<1>2. \A i \in 1..LengthSize : Shifted(length, LengthSize - i) \in Nat  BY <1>1, Sizes, Shifts
<1>3. \A i \in 1..LengthSize : Shifted(length, LengthSize - i) % Radix \in Nat
  BY <1>2, Sizes, Quotient
<1>4. Prefix(length) \in [1..LengthSize -> Nat]  BY <1>3 DEF Prefix
<1>5. QED  BY <1>4, Sizes DEF Prefix

\* Reading a prefix back gives the length it was made from, when it fits.
LEMMA PrefixReadsBack ==
  ASSUME NEW length \in Nat, Shifted(length, LengthSize) = 0, NEW data, NEW at \in Int,
         \A i \in 1..LengthSize : data[at + i - 1] = Prefix(length)[i]
  PROVE  LengthAt(data, at) = length
<1> DEFINE S(i) == Shifted(length, LengthSize - i)
           h == [i \in 0..LengthSize |-> S(i)]
           upTo == CHOOSE f : f = [i \in 0..LengthSize |->
                     IF i = 0 THEN 0 ELSE (f[i - 1] * Radix) + data[at + i - 1]]
<1>1. S(0) = 0 /\ S(LengthSize) = length /\ \A i \in 0..LengthSize : S(i) \in Nat
  <2>1. LengthSize - 0 = LengthSize /\ LengthSize - LengthSize = 0  BY Sizes
  <2>2. \A i \in 0..LengthSize : LengthSize - i \in 0..LengthSize  BY Sizes
  <2>3. QED  BY <2>1, <2>2, Sizes, Shifts
<1>2. ASSUME NEW i \in 1..LengthSize PROVE S(i) = (S(i - 1) * Radix) + data[at + i - 1]
  <2> DEFINE b == LengthSize - i
  <2>1. b + 1 \in 1..LengthSize /\ b \in 0..LengthSize /\ (b + 1) - 1 = b /\ LengthSize - (i - 1) = b + 1
    BY Sizes
  <2>2. Shifted(length, b + 1) = Shifted(length, b) \div Radix /\ Shifted(length, b) \in Nat
    BY <2>1, Sizes, Shifts
  <2>3. data[at + i - 1] = Shifted(length, b) % Radix  BY PrefixTyped
  <2> HIDE DEF b
  <2>4. ((Shifted(length, b) \div Radix) * Radix) + (Shifted(length, b) % Radix) = Shifted(length, b)
    <3>1. \A a \in Nat : ((a \div Radix) * Radix) + (a % Radix) = a
      <4>1. Radix \in Nat /\ Radix >= 1  BY Sizes
      <4>2. QED  BY <4>1, Quotient, Zenon
    <3>2. Shifted(length, b) \in Nat  BY <2>2
    <3> DEFINE a == Shifted(length, b)
    <3> HIDE DEF a
    <3>3. a \in Nat  BY <3>2 DEF a
    <3>4. ((a \div Radix) * Radix) + (a % Radix) = a  BY <3>1, <3>3
    <3>5. QED  BY <3>4 DEF a
  <2>5. QED  BY <2>1, <2>2, <2>3, <2>4 DEF b
<1> HIDE DEF S
<1>3. h = [i \in 0..LengthSize |-> IF i = 0 THEN 0 ELSE (h[i - 1] * Radix) + data[at + i - 1]]
  <2>1. ASSUME NEW i \in 0..LengthSize
        PROVE  h[i] = IF i = 0 THEN 0 ELSE (h[i - 1] * Radix) + data[at + i - 1]
    <3>1. CASE i = 0  BY <1>1, <3>1
    <3>2. CASE i # 0
      <4>1. i \in 1..LengthSize /\ i - 1 \in 0..LengthSize  BY <3>2, Sizes
      <4>2. h[i - 1] = S(i - 1) /\ h[i] = S(i)  BY <4>1
      <4>3. QED  BY <1>2, <3>2, <4>1, <4>2
    <3>3. QED  BY <3>1, <3>2
  <2>2. QED  BY <2>1
<1>4. \A i \in 0..LengthSize : h[i] = S(i)  OBVIOUS
<1> HIDE DEF h
<1>5. upTo = [i \in 0..LengthSize |-> IF i = 0 THEN 0 ELSE (upTo[i - 1] * Radix) + data[at + i - 1]]
  BY <1>3
<1>6. LengthAt(data, at) = upTo[LengthSize]  BY DEF LengthAt
<1> HIDE DEF upTo
<1> DEFINE T == {i \in 0..LengthSize : upTo[i] = S(i)}
<1>7. 0 \in T
  <2>1. 0 \in 0..LengthSize  BY Sizes
  <2>2. QED  BY <1>1, <1>5, <2>1
<1>8. ASSUME NEW i \in T, i < LengthSize PROVE i + 1 \in T
  <2>1. i + 1 \in 1..LengthSize /\ i + 1 \in 0..LengthSize /\ (i + 1) - 1 = i /\ i + 1 # 0
    BY <1>8, Sizes
  <2>2. upTo[i + 1] = (upTo[i] * Radix) + data[at + (i + 1) - 1]  BY <1>5, <2>1
  <2>3. S(i + 1) = (S(i) * Radix) + data[at + (i + 1) - 1]  BY <1>2, <2>1
  <2>4. upTo[i] = S(i)  OBVIOUS
  <2>5. upTo[i + 1] = S(i + 1)  BY <2>2, <2>3, <2>4
  <2>6. QED  BY <2>1, <2>5
<1> HIDE DEF T
<1>9. \A i \in 0..LengthSize : i \in T  BY <1>7, <1>8, Sizes, UpTo
<1>10. upTo[LengthSize] = S(LengthSize)
  <2>1. LengthSize \in T  BY <1>9, Sizes
  <2>2. QED  BY <2>1 DEF T
<1>11. QED  BY <1>1, <1>6, <1>10

-----------------------------------------------------------------------------
(* The walk over what was written. *)

Byte == 0..(Radix - 1)

LEMMA NalUnit ==
  ASSUME NEW nal \in NalUnits
  PROVE  /\ nal \in Seq(Byte) /\ nal \in Seq(Nat) /\ Len(nal) \in Nat /\ Len(nal) >= 1
         /\ \A i \in 1..Len(nal) : nal[i] \in Byte /\ nal[i] \in Nat
         /\ nal[Len(nal)] # 0 /\ TypeOf(nal[1]) # Types.fu /\ Shifted(Len(nal), LengthSize) = 0
         /\ \A i \in 1..(Len(nal) - 2) : ~(nal[i] = 0 /\ nal[i + 1] = 0 /\ nal[i + 2] < 3)
<1>1. nal \in Seq(Byte) /\ nal # <<>>  BY PictureAssumption DEF Byte
<1>2. Byte \subseteq Nat  BY Sizes DEF Byte
<1>3. nal \in Seq(Nat)  BY <1>1, <1>2, SeqMonotonic
<1>4. Len(nal) \in Nat /\ Len(nal) >= 1
  <2>1. Len(nal) \in Nat \ {0}  BY <1>1, EmptySeq
  <2>2. QED  BY <2>1
<1>5. \A i \in 1..Len(nal) : nal[i] \in Byte /\ nal[i] \in Nat  BY <1>1, <1>2, ElementOfSeq
<1>6. QED  BY <1>1, <1>3, <1>4, <1>5, PictureAssumption

AvccPiece(nal) == Prefix(Len(nal)) \o nal
AvccPieces(nals) == [i \in DOMAIN nals |-> AvccPiece(nals[i])]

LEMMA AvccPieceIs ==
  ASSUME NEW nal \in NalUnits
  PROVE  /\ AvccPiece(nal) \in Seq(Nat) /\ Len(AvccPiece(nal)) = LengthSize + Len(nal)
         /\ \A x \in 1..LengthSize : AvccPiece(nal)[x] = Prefix(Len(nal))[x]
         /\ \A x \in 1..Len(nal) : AvccPiece(nal)[LengthSize + x] = nal[x]
<1> DEFINE a == Prefix(Len(nal))
<1>1. a \in Seq(Nat) /\ Len(a) = LengthSize  BY NalUnit, PrefixTyped
<1>2. nal \in Seq(Nat) /\ Len(nal) \in Nat  BY NalUnit
<1> HIDE DEF a
<1>3. /\ a \o nal \in Seq(Nat) /\ Len(a \o nal) = Len(a) + Len(nal)
      /\ \A x \in 1..(Len(a) + Len(nal)) : (a \o nal)[x] = IF x <= Len(a) THEN a[x] ELSE nal[x - Len(a)]
  BY <1>1, <1>2, ConcatProperties
<1>4. \A x \in 1..LengthSize : (a \o nal)[x] = a[x]  BY <1>1, <1>2, <1>3, Sizes
<1>5. ASSUME NEW x \in 1..Len(nal) PROVE (a \o nal)[LengthSize + x] = nal[x]
  <2>1. /\ LengthSize + x \in 1..(LengthSize + Len(nal)) /\ ~(LengthSize + x <= LengthSize)
        /\ (LengthSize + x) - LengthSize = x
    BY <1>2, Sizes
  <2>2. QED  BY <1>1, <1>3, <2>1
<1>6. QED  BY <1>1, <1>3, <1>4, <1>5 DEF AvccPiece, a

\* Where the NAL units lie in AVCC data.
LEMMA AvccLies ==
  ASSUME NEW nals \in Seq(NalUnits)
  PROVE  LET data == ToAvcc(nals)
             E(i) == Ends(AvccPieces(nals), i)
         IN  /\ AvccPieces(nals) \in Seq(Seq(Nat)) /\ Len(AvccPieces(nals)) = Len(nals)
             /\ \A i \in 1..Len(nals) : AvccPieces(nals)[i] = AvccPiece(nals[i])
             /\ data = FlattenSeq(AvccPieces(nals))
             /\ data \in Seq(Nat) /\ E(0) = 0 /\ E(Len(nals)) = Len(data)
             /\ \A i \in 0..Len(nals) : E(i) \in Nat /\ i <= E(i) /\ E(i) <= Len(data)
             /\ \A i \in 1..Len(nals) :
                  /\ E(i) = E(i - 1) + LengthSize + Len(nals[i])
                  /\ \A x \in 1..LengthSize : data[E(i - 1) + x] = Prefix(Len(nals[i]))[x]
                  /\ \A x \in 1..Len(nals[i]) : data[E(i - 1) + LengthSize + x] = nals[i][x]
<1> DEFINE N == Len(nals)
           P == AvccPieces(nals)
           E(i) == Ends(P, i)
<1>1. N \in Nat /\ DOMAIN nals = 1..N /\ \A i \in 1..N : nals[i] \in NalUnits  OBVIOUS
<1>2. /\ P \in Seq(Seq(Nat)) /\ Len(P) = N
      /\ \A i \in 1..N : P[i] = AvccPiece(nals[i])
  <2>1. P = [i \in 1..N |-> AvccPiece(nals[i])]  BY <1>1 DEF AvccPieces
  <2>2. \A i \in 1..N : AvccPiece(nals[i]) \in Seq(Nat)  BY <1>1, AvccPieceIs
  <2> HIDE DEF P, N
  <2>3. P \in [1..N -> Seq(Nat)]  BY <2>1, <2>2
  <2>4. QED  BY <1>1, <2>1, <2>3
<1>3. ToAvcc(nals) = FlattenSeq(P)  BY DEF ToAvcc, AvccPieces, AvccPiece
<1> HIDE DEF P
<1>4. FlattenSeq(P) \in Seq(Nat)
  <2>1. Flat(P, Len(P)) = FlattenSeq(P) /\ \A i \in 0..Len(P) : Flat(P, i) \in Seq(Nat)  BY <1>2, Flats
  <2>2. Len(P) \in 0..Len(P)  BY <1>1, <1>2
  <2>3. QED  BY <2>1, <2>2
<1>5. /\ E(0) = 0 /\ E(N) = Len(FlattenSeq(P))
      /\ \A i \in 0..N : E(i) \in Nat
      /\ \A i \in 1..N : E(i) = E(i - 1) + Len(P[i])
      /\ \A i \in 0..N : E(i) <= E(N)
      /\ \A i \in 1..N : \A x \in 1..Len(P[i]) : FlattenSeq(P)[E(i - 1) + x] = P[i][x]
  <2> DEFINE M == Len(P)
  <2>1. /\ E(0) = 0 /\ E(M) = Len(FlattenSeq(P))
        /\ \A i \in 0..M : E(i) \in Nat
        /\ \A i \in 1..M : E(i) = E(i - 1) + Len(P[i])
        /\ \A j \in 0..M : \A i \in 0..j : E(i) <= E(j)
        /\ \A i \in 1..M : \A x \in 1..Len(P[i]) : FlattenSeq(P)[E(i - 1) + x] = P[i][x]
    BY <1>2, FlatInside
  <2>2. M = N  BY <1>2
  <2> HIDE DEF M, E, N
  <2>3. N \in 0..M  BY <1>1, <2>2
  <2>4. QED  BY <2>1, <2>2, <2>3
<1> HIDE DEF E
<1>6. ASSUME NEW i \in 1..N
      PROVE  /\ E(i) = E(i - 1) + LengthSize + Len(nals[i]) /\ Len(nals[i]) \in Nat /\ Len(nals[i]) >= 1
             /\ \A x \in 1..LengthSize : FlattenSeq(P)[E(i - 1) + x] = Prefix(Len(nals[i]))[x]
             /\ \A x \in 1..Len(nals[i]) : FlattenSeq(P)[E(i - 1) + LengthSize + x] = nals[i][x]
  <2>0. nals[i] \in NalUnits /\ i - 1 \in 0..N  BY <1>1
  <2> DEFINE nal == nals[i]
  <2>1. /\ Len(P[i]) = LengthSize + Len(nal)
        /\ \A x \in 1..LengthSize : P[i][x] = Prefix(Len(nal))[x]
        /\ \A x \in 1..Len(nal) : P[i][LengthSize + x] = nal[x]
    <3>1. P[i] = AvccPiece(nal)  BY <1>2
    <3>2. nal \in NalUnits  BY <2>0
    <3> HIDE DEF nal
    <3>3. /\ Len(AvccPiece(nal)) = LengthSize + Len(nal)
          /\ \A x \in 1..LengthSize : AvccPiece(nal)[x] = Prefix(Len(nal))[x]
          /\ \A x \in 1..Len(nal) : AvccPiece(nal)[LengthSize + x] = nal[x]
      BY <3>2, AvccPieceIs
    <3>4. QED  BY <3>1, <3>3
  <2>2. Len(nal) \in Nat /\ Len(nal) >= 1  BY <2>0, NalUnit
  <2>3. E(i) = E(i - 1) + Len(P[i]) /\ E(i - 1) \in Nat  BY <1>5, <2>0
  <2>4. \A x \in 1..Len(P[i]) : FlattenSeq(P)[E(i - 1) + x] = P[i][x]  BY <1>5
  <2> HIDE DEF nal
  <2>5. E(i) = E(i - 1) + LengthSize + Len(nal)  BY <2>1, <2>2, <2>3, Sizes
  <2>6. ASSUME NEW x \in 1..LengthSize PROVE FlattenSeq(P)[E(i - 1) + x] = Prefix(Len(nal))[x]
    <3>1. x \in 1..Len(P[i])  BY <2>1, <2>2, Sizes
    <3>2. QED  BY <2>1, <2>4, <3>1
  <2>7. ASSUME NEW x \in 1..Len(nal) PROVE FlattenSeq(P)[E(i - 1) + LengthSize + x] = nal[x]
    <3>1. LengthSize + x \in 1..Len(P[i]) /\ E(i - 1) + (LengthSize + x) = E(i - 1) + LengthSize + x
      BY <2>1, <2>2, <2>3, Sizes
    <3>2. FlattenSeq(P)[E(i - 1) + (LengthSize + x)] = P[i][LengthSize + x]  BY <2>4, <3>1
    <3>3. QED  BY <2>1, <3>1, <3>2
  <2>8. QED  BY <2>2, <2>5, <2>6, <2>7 DEF nal
<1> DEFINE T == {i \in 0..N : i <= E(i)}
<1>7. 0 \in T  BY <1>1, <1>5
<1>8. ASSUME NEW i \in T, i < N PROVE i + 1 \in T
  <2>1. i + 1 \in 1..N /\ (i + 1) - 1 = i /\ i \in 0..N  BY <1>1, <1>8
  <2>2. E(i + 1) = E(i) + LengthSize + Len(nals[i + 1]) /\ Len(nals[i + 1]) \in Nat  BY <1>6, <2>1
  <2>3. E(i) \in Nat /\ i <= E(i)  BY <1>5, <2>1
  <2>4. i + 1 <= E(i + 1)  BY <2>1, <2>2, <2>3, Sizes
  <2>5. QED  BY <2>1, <2>4
<1> HIDE DEF T
<1>9. \A i \in 0..N : i \in T  BY <1>1, <1>7, <1>8, UpTo
<1>10. \A i \in 0..N : i <= E(i)  BY <1>9 DEF T
<1>11. QED  BY <1>2, <1>3, <1>4, <1>5, <1>6, <1>10 DEF N, P, E

\* Where a NAL unit begins the walk finds it, and behind the last it finds none.
LEMMA WalkFinds ==
  ASSUME NEW nals \in Seq(NalUnits)
  PROVE  LET data == ToAvcc(nals)
             E(i) == Ends(AvccPieces(nals), i)
         IN  /\ \A i \in 1..Len(nals) :
                  /\ HasNal(data, E(i - 1) + 1)
                  /\ LengthAt(data, E(i - 1) + 1) = Len(nals[i])
                  /\ BodyAt(data, E(i - 1) + 1) = nals[i]
             /\ ~HasNal(data, E(Len(nals)) + 1)
<1> DEFINE N == Len(nals)
           E(i) == Ends(AvccPieces(nals), i)
           data == ToAvcc(nals)
<1>1. N \in Nat /\ \A i \in 1..N : nals[i] \in NalUnits /\ i - 1 \in 0..N /\ i \in 0..N  OBVIOUS
<1>2. /\ data \in Seq(Nat) /\ E(0) = 0 /\ E(N) = Len(data)
      /\ \A i \in 0..N : E(i) \in Nat /\ i <= E(i) /\ E(i) <= Len(data)
      /\ \A i \in 1..N :
           /\ E(i) = E(i - 1) + LengthSize + Len(nals[i])
           /\ \A x \in 1..LengthSize : data[E(i - 1) + x] = Prefix(Len(nals[i]))[x]
           /\ \A x \in 1..Len(nals[i]) : data[E(i - 1) + LengthSize + x] = nals[i][x]
  BY AvccLies
<1> HIDE DEF E, data, N
<1>3. Len(data) \in Nat  BY <1>2, LenProperties
<1>4. ASSUME NEW i \in 1..N
      PROVE  /\ HasNal(data, E(i - 1) + 1)
             /\ LengthAt(data, E(i - 1) + 1) = Len(nals[i])
             /\ BodyAt(data, E(i - 1) + 1) = nals[i]
  <2> DEFINE at == E(i - 1) + 1
             nal == nals[i]
  <2>1. E(i - 1) \in Nat /\ E(i) \in Nat /\ E(i) <= Len(data) /\ nal \in NalUnits  BY <1>1, <1>2
  <2>2. at \in Nat /\ E(i - 1) = at - 1  BY <2>1
  <2>3. Len(nal) \in Nat /\ Len(nal) >= 1 /\ nal \in Seq(Nat) /\ Shifted(Len(nal), LengthSize) = 0
    BY <2>1, NalUnit
  <2>4. E(i) = (at - 1) + LengthSize + Len(nal)  BY <1>2, <2>2
  <2>5. ASSUME NEW x \in 1..LengthSize PROVE data[at + x - 1] = Prefix(Len(nal))[x]
    <3>1. E(i - 1) + x = at + x - 1  BY <2>1, Sizes
    <3>2. data[E(i - 1) + x] = Prefix(Len(nal))[x]  BY <1>2
    <3>3. QED  BY <3>1, <3>2
  <2>6. ASSUME NEW x \in 1..Len(nal)
        PROVE  data[(at + LengthSize) + x - 1] = nal[x]
    <3>1. E(i - 1) + LengthSize + x = (at + LengthSize) + x - 1  BY <2>1, <2>3, Sizes
    <3>2. data[E(i - 1) + LengthSize + x] = nal[x]  BY <1>2
    <3>3. QED  BY <3>1, <3>2
  <2> HIDE DEF at, nal
  <2>7. LengthAt(data, at) = Len(nal)
    <3>1. at \in Int  BY <2>2
    <3>2. QED  BY <2>3, <2>5, <3>1, PrefixReadsBack
  <2>8. HasNal(data, at)
    <3>1. at + LengthSize - 1 <= Len(data)  BY <1>3, <2>1, <2>2, <2>3, <2>4, Sizes
    <3>2. at + LengthSize + Len(nal) - 1 <= Len(data)  BY <1>3, <2>1, <2>2, <2>3, <2>4, Sizes
    <3>3. Len(nal) # 0  BY <2>3
    <3>4. QED  BY <2>7, <3>1, <3>2, <3>3 DEF HasNal
  <2>9. BodyAt(data, at) = nal
    <3> DEFINE m == at + LengthSize
               n == at + LengthSize + Len(nal) - 1
    <3>1. m \in Int /\ n \in Int /\ n - m + 1 = Len(nal) /\ m <= n  BY <2>2, <2>3, Sizes
    <3>2. BodyAt(data, at) = SubSeq(data, m, n)  BY <2>7 DEF BodyAt
    <3>3. \A x \in 1..Len(nal) : data[m + x - 1] = nal[x]  BY <2>6
    <3> HIDE DEF m, n
    <3>4. \A j \in m..n : data[j] \in Nat
      <4>1. ASSUME NEW j \in m..n PROVE data[j] \in Nat
        <5>1. j - m + 1 \in 1..Len(nal) /\ m + (j - m + 1) - 1 = j  BY <3>1, <2>3
        <5>2. data[j] = nal[j - m + 1]  BY <3>3, <5>1
        <5>3. QED  BY <2>3, <5>1, <5>2
      <4>2. QED  BY <4>1
    <3>5. /\ SubSeq(data, m, n) \in Seq(Nat) /\ Len(SubSeq(data, m, n)) = IF m <= n THEN n - m + 1 ELSE 0
          /\ \A x \in 1..(n - m + 1) : SubSeq(data, m, n)[x] = data[m + x - 1]
      BY <3>1, <3>4, SubSeqProperties
    <3>6. Len(SubSeq(data, m, n)) = Len(nal)  BY <3>1, <3>5
    <3>7. \A x \in 1..Len(nal) : SubSeq(data, m, n)[x] = nal[x]  BY <3>1, <3>3, <3>5
    <3>8. SubSeq(data, m, n) = nal
      <4> DEFINE b == SubSeq(data, m, n)
      <4>1. b \in Seq(Nat) /\ Len(b) = Len(nal) /\ \A x \in 1..Len(b) : b[x] = nal[x]
        BY <3>5, <3>6, <3>7
      <4> HIDE DEF b
      <4>2. b = nal  BY <2>3, <4>1, SeqEqual
      <4>3. QED  BY <4>2 DEF b
    <3>9. QED  BY <3>2, <3>8
  <2>10. QED  BY <2>7, <2>8, <2>9 DEF at, nal
<1>5. ~HasNal(data, E(N) + 1)
  <2>1. ~((E(N) + 1) + LengthSize - 1 <= Len(data))  BY <1>2, <1>3, Sizes
  <2>2. QED  BY <2>1 DEF HasNal
<1>6. QED  BY <1>4, <1>5 DEF N, data, E

\* What was written as AVCC is walked to its end and gives the same NAL units.
LEMMA WalkReadsBack ==
  ASSUME NEW nals \in Seq(NalUnits)
  PROVE  Walk(ToAvcc(nals)) = [at |-> Len(ToAvcc(nals)) + 1, nals |-> nals]
<1> DEFINE N == Len(nals)
           E(i) == Ends(AvccPieces(nals), i)
           data == ToAvcc(nals)
           L == Len(data)
           Seen(m) == [at |-> E(m) + 1, nals |-> SubSeq(nals, 1, m)]
           Turn(v) == IF ~HasNal(data, v.at) THEN v
                      ELSE [at   |-> v.at + LengthSize + LengthAt(data, v.at),
                            nals |-> Append(v.nals, BodyAt(data, v.at))]
           h == [k \in 0..L |-> Seen(IF k <= N THEN k ELSE N)]
<1>1. N \in Nat /\ \A i \in 1..N : nals[i] \in NalUnits /\ i - 1 \in 0..N /\ i \in 0..N  OBVIOUS
<1>2. /\ data \in Seq(Nat) /\ E(0) = 0 /\ E(N) = Len(data)
      /\ \A i \in 0..N : E(i) \in Nat /\ i <= E(i) /\ E(i) <= Len(data)
      /\ \A i \in 1..N : E(i) = E(i - 1) + LengthSize + Len(nals[i])
  BY AvccLies
<1>3. /\ \A i \in 1..N : /\ HasNal(data, E(i - 1) + 1)
                         /\ LengthAt(data, E(i - 1) + 1) = Len(nals[i])
                         /\ BodyAt(data, E(i - 1) + 1) = nals[i]
      /\ ~HasNal(data, E(N) + 1)
  BY WalkFinds
<1>4. Walk(data) = LET turn[k \in 0..L] == IF k = 0 THEN [at |-> 1, nals |-> <<>>]
                                           ELSE Turn(turn[k - 1])
                   IN  turn[L]
  BY DEF Walk
<1> HIDE DEF E, data, N
<1>5. L \in Nat /\ N <= L  BY <1>1, <1>2, LenProperties
<1>6. ASSUME NEW i \in 1..N PROVE Seen(i) = Turn(Seen(i - 1))
  <2>1. Turn(Seen(i - 1)) = [at |-> E(i - 1) + 1 + LengthSize + Len(nals[i]),
                             nals |-> Append(SubSeq(nals, 1, i - 1), nals[i])]
    BY <1>3
  <2>2. E(i - 1) + 1 + LengthSize + Len(nals[i]) = E(i) + 1
    <3>1. E(i - 1) \in Nat /\ E(i) = E(i - 1) + LengthSize + Len(nals[i]) /\ Len(nals[i]) \in Nat
      BY <1>1, <1>2, NalUnit
    <3>2. QED  BY <3>1, Sizes
  <2>3. Append(SubSeq(nals, 1, i - 1), nals[i]) = SubSeq(nals, 1, i)
    <3>1. i \in 1..Len(nals) /\ 1 \in 1..Len(nals) /\ i \in 1..Len(nals)  BY <1>1 DEF N
    <3>2. SubSeq(nals, 1, i) = SubSeq(nals, 1, i - 1) \o <<nals[i]>>  BY <3>1, SubSeqRecursiveSecond
    <3>3. SubSeq(nals, 1, i - 1) \in Seq(NalUnits)
      <4>1. \A j \in 1..(i - 1) : nals[j] \in NalUnits  BY <1>1
      <4>2. QED  BY <1>1, <4>1, SubSeqProperties
    <3>4. QED  BY <1>1, <3>2, <3>3, AppendIsConcat
  <2>4. QED  BY <2>1, <2>2, <2>3
<1>7. Seen(N) = Turn(Seen(N))  BY <1>3
<1>8. Seen(0) = [at |-> 1, nals |-> <<>>]
  <2>1. SubSeq(nals, 1, 0) = <<>>  BY SubSeqEmpty
  <2>2. QED  BY <1>2, <2>1
<1> HIDE DEF Seen, Turn, L
<1>9. ASSUME NEW k \in 0..L
      PROVE  h[k] = IF k = 0 THEN [at |-> 1, nals |-> <<>>] ELSE Turn(h[k - 1])
  <2>1. CASE k = 0  BY <1>1, <1>5, <1>8, <2>1
  <2>2. CASE k # 0 /\ k <= N
    <3>1. k \in 1..N /\ k - 1 \in 0..L /\ k - 1 <= N  BY <1>1, <1>5, <2>2
    <3>2. h[k] = Seen(k) /\ h[k - 1] = Seen(k - 1)  BY <2>2, <3>1
    <3>3. QED  BY <1>6, <2>2, <3>1, <3>2
  <2>3. CASE k # 0 /\ ~(k <= N)
    <3>1. k - 1 \in 0..L /\ (k - 1 <= N => k - 1 = N)  BY <1>1, <1>5, <2>3
    <3>2. h[k] = Seen(N) /\ h[k - 1] = Seen(N)  BY <2>3, <3>1
    <3>3. QED  BY <1>7, <2>3, <3>2
  <2>4. QED  BY <2>1, <2>2, <2>3
<1>10. h = [k \in 0..L |-> IF k = 0 THEN [at |-> 1, nals |-> <<>>] ELSE Turn(h[k - 1])]
  BY <1>9
<1>11. h[L] = Seen(N)
  <2>1. L \in 0..L /\ (L <= N => L = N)  BY <1>1, <1>5
  <2>2. QED  BY <2>1
<1> HIDE DEF h
<1> DEFINE turn == CHOOSE f : f = [k \in 0..L |-> IF k = 0 THEN [at |-> 1, nals |-> <<>>]
                                                ELSE Turn(f[k - 1])]
<1>12. turn = [k \in 0..L |-> IF k = 0 THEN [at |-> 1, nals |-> <<>>] ELSE Turn(turn[k - 1])]
  BY <1>10
<1> HIDE DEF turn
<1> DEFINE T == {k \in 0..L : turn[k] = h[k]}
<1>13. 0 \in T
  <2>1. 0 \in 0..L  BY <1>5
  <2>2. QED  BY <1>10, <1>12, <2>1
<1>14. ASSUME NEW k \in T, k < L PROVE k + 1 \in T
  <2>1. k + 1 \in 0..L /\ k + 1 # 0 /\ (k + 1) - 1 = k  BY <1>5, <1>14
  <2>2. turn[k + 1] = Turn(turn[k])  BY <1>12, <2>1
  <2>3. h[k + 1] = Turn(h[k])  BY <1>10, <2>1
  <2>4. turn[k] = h[k]  OBVIOUS
  <2>5. turn[k + 1] = h[k + 1]  BY <2>2, <2>3, <2>4
  <2>6. QED  BY <2>1, <2>5
<1> HIDE DEF T
<1>15. \A k \in 0..L : k \in T  BY <1>5, <1>13, <1>14, UpTo
<1>16. turn[L] = Seen(N)
  <2>1. L \in T  BY <1>5, <1>15
  <2>2. QED  BY <1>11, <2>1 DEF T
<1>17. Walk(data) = Seen(N)  BY <1>4, <1>16 DEF turn
<1>18. Seen(N) = [at |-> L + 1, nals |-> nals]
  <2>1. SubSeq(nals, 1, N) = nals  BY SubSeqFull DEF N
  <2>2. QED  BY <1>2, <2>1 DEF Seen, L
<1>19. QED  BY <1>17, <1>18 DEF data, L

LEMMA AvccReadsBack ==
  ASSUME NEW nals \in Seq(NalUnits)
  PROVE  /\ AvccNalUnits(ToAvcc(nals)) = nals
         /\ nals # <<>> => WellFormed(ToAvcc(nals))
<1> DEFINE data == ToAvcc(nals)
<1>1. Walk(data) = [at |-> Len(data) + 1, nals |-> nals]  BY WalkReadsBack
<1> HIDE DEF data
<1>2. Walk(data).at = Len(data) + 1 /\ Walk(data).nals = nals  BY <1>1
<1>3. QED  BY <1>2 DEF data, AvccNalUnits, WellFormed

-----------------------------------------------------------------------------
(* The lie of an Annex B stream. *)

\* The one of the i-th start code, and the last byte of its NAL unit.  What lies
\* between a NAL unit and the next one is zero, two bytes at the least.
Landmarks(bytes, nals, head, tail) ==
    /\ head \in [0..(Len(nals) + 1) -> Nat] /\ tail \in [0..Len(nals) -> Nat]
    /\ head[0] = 0 /\ tail[0] = 0
    /\ head[Len(nals) + 1] = Len(bytes) + 1 /\ tail[Len(nals)] <= Len(bytes)
    /\ \A i \in 1..Len(nals) :
         /\ head[i] >= tail[i - 1] + 3 /\ tail[i] = head[i] + Len(nals[i])
         /\ bytes[head[i]] = 1
         /\ \A x \in 1..Len(nals[i]) : bytes[head[i] + x] = nals[i][x]
    /\ \A i \in 0..Len(nals) : \A p \in Nat : tail[i] < p /\ p < head[i + 1] => bytes[p] = 0

LEMMA ZerosAre ==
  ASSUME NEW n \in Nat
  PROVE  /\ Zeros(n) \in Seq(Nat) /\ Len(Zeros(n)) = n
         /\ \A i \in 1..n : Zeros(n)[i] = 0
<1>1. Zeros(n) \in [1..n -> Nat]  BY DEF Zeros
<1>2. QED  BY <1>1 DEF Zeros

AnnexBPiece(nal, code, padding) == Zeros(code - 1) \o <<1>> \o nal \o Zeros(padding)

PieceLies(piece, nal, code, padding) ==
    /\ piece \in Seq(Nat) /\ Len(piece) = code + Len(nal) + padding
    /\ \A x \in 1..(code - 1) : piece[x] = 0
    /\ piece[code] = 1
    /\ \A x \in 1..Len(nal) : piece[code + x] = nal[x]
    /\ \A x \in 1..padding : piece[code + Len(nal) + x] = 0

LEMMA AnnexBPieceIs ==
  ASSUME NEW nal \in NalUnits, NEW code \in {3, 4}, NEW padding \in Nat
  PROVE  PieceLies(AnnexBPiece(nal, code, padding), nal, code, padding)
<1> DEFINE a == Zeros(code - 1)
           z == Zeros(padding)
           b == a \o <<1>>
           c == b \o nal
           d == c \o z
<1>1. code \in Nat /\ code >= 3 /\ code - 1 \in Nat  OBVIOUS
<1>2. a \in Seq(Nat) /\ Len(a) = code - 1 /\ \A x \in 1..(code - 1) : a[x] = 0  BY <1>1, ZerosAre
<1>3. z \in Seq(Nat) /\ Len(z) = padding /\ \A x \in 1..padding : z[x] = 0  BY ZerosAre
<1>4. nal \in Seq(Nat) /\ Len(nal) \in Nat  BY NalUnit
<1>5. <<1>> \in Seq(Nat) /\ Len(<<1>>) = 1 /\ <<1>>[1] = 1  OBVIOUS
<1> DEFINE o == <<1>>
           L == Len(nal)
<1>6. o \in Seq(Nat) /\ Len(o) = 1 /\ o[1] = 1 /\ L \in Nat  BY <1>4, <1>5
<1> HIDE DEF a, z, o
<1>7. /\ b \in Seq(Nat) /\ Len(b) = Len(a) + Len(o)
      /\ \A x \in 1..(Len(a) + Len(o)) : b[x] = IF x <= Len(a) THEN a[x] ELSE o[x - Len(a)]
  <2>1. b = a \o o  BY DEF o
  <2>2. /\ a \o o \in Seq(Nat) /\ Len(a \o o) = Len(a) + Len(o)
        /\ \A x \in 1..(Len(a) + Len(o)) : (a \o o)[x] = IF x <= Len(a) THEN a[x] ELSE o[x - Len(a)]
    BY <1>2, <1>6, ConcatProperties
  <2>3. QED  BY <2>1, <2>2
<1>8. Len(b) = code /\ b[code] = 1 /\ \A x \in 1..(code - 1) : b[x] = 0
  <2>1. Len(b) = code  BY <1>1, <1>2, <1>6, <1>7
  <2>2. code \in 1..(Len(a) + Len(o)) /\ ~(code <= Len(a)) /\ code - Len(a) = 1  BY <1>1, <1>2, <1>6
  <2>3. b[code] = 1  BY <1>6, <1>7, <2>2
  <2>4. \A x \in 1..(code - 1) : x \in 1..(Len(a) + Len(o)) /\ x <= Len(a)  BY <1>1, <1>2, <1>6
  <2>5. QED  BY <1>2, <1>7, <2>1, <2>3, <2>4
<1>9. b \in Seq(Nat)  BY <1>7
<1> HIDE DEF b
<1>10. /\ c \in Seq(Nat) /\ Len(c) = Len(b) + L
       /\ \A x \in 1..(Len(b) + L) : c[x] = IF x <= Len(b) THEN b[x] ELSE nal[x - Len(b)]
  BY <1>4, <1>9, ConcatProperties
<1> HIDE DEF c, L
<1>11. Len(c) = code + L /\ \A x \in 1..code : c[x] = b[x]  BY <1>1, <1>6, <1>8, <1>10
<1>12. ASSUME NEW x \in 1..L PROVE c[code + x] = nal[x]
  <2>1. code + x \in 1..(Len(b) + L) /\ ~(code + x <= Len(b)) /\ (code + x) - Len(b) = x
    BY <1>1, <1>6, <1>8
  <2>2. QED  BY <1>10, <2>1
<1>13. /\ d \in Seq(Nat) /\ Len(d) = Len(c) + Len(z)
       /\ \A x \in 1..(Len(c) + Len(z)) : d[x] = IF x <= Len(c) THEN c[x] ELSE z[x - Len(c)]
  BY <1>3, <1>10, ConcatProperties
<1> HIDE DEF d
<1>14. Len(d) = code + L + padding  BY <1>3, <1>11, <1>13
<1>15. \A x \in 1..(code + L) : d[x] = c[x]  BY <1>1, <1>3, <1>6, <1>11, <1>13
<1>16. \A x \in 1..(code - 1) : d[x] = 0
  <2>1. \A x \in 1..(code - 1) : x \in 1..(code + L) /\ x \in 1..code  BY <1>1, <1>6
  <2>2. QED  BY <1>8, <1>11, <1>15, <2>1
<1>17. d[code] = 1
  <2>1. code \in 1..(code + L) /\ code \in 1..code  BY <1>1, <1>6
  <2>2. QED  BY <1>8, <1>11, <1>15, <2>1
<1>18. ASSUME NEW x \in 1..L PROVE d[code + x] = nal[x]
  <2>1. code + x \in 1..(code + L)  BY <1>1, <1>6
  <2>2. QED  BY <1>12, <1>15, <2>1
<1>19. ASSUME NEW x \in 1..padding PROVE d[code + L + x] = 0
  <2>1. /\ code + L + x \in 1..(Len(c) + Len(z)) /\ ~(code + L + x <= Len(c))
        /\ (code + L + x) - Len(c) = x
    BY <1>1, <1>3, <1>6, <1>11
  <2>2. QED  BY <1>3, <1>13, <2>1
<1>20. AnnexBPiece(nal, code, padding) = d  BY DEF AnnexBPiece, a, b, c, d, z
<1>21. QED  BY <1>13, <1>14, <1>16, <1>17, <1>18, <1>19, <1>20 DEF L, PieceLies

LEMMA LandmarksExist ==
  ASSUME NEW nals \in Seq(NalUnits), NEW codes \in [DOMAIN nals -> {3, 4}], NEW padding \in Nat
  PROVE  /\ Written(nals, codes, padding) \in Seq(Nat)
         /\ \E head, tail : Landmarks(Written(nals, codes, padding), nals, head, tail)
<1> DEFINE N == Len(nals)
           Q == [i \in DOMAIN nals |-> AnnexBPiece(nals[i], codes[i], padding)]
           E(i) == Ends(Q, i)
           bytes == FlattenSeq(Q)
           L == Len(bytes)
           head == [i \in 0..(N + 1) |-> IF i = 0 THEN 0 ELSE IF i = N + 1 THEN L + 1
                                        ELSE E(i - 1) + codes[i]]
           tail == [i \in 0..N |-> IF i = 0 THEN 0 ELSE E(i - 1) + codes[i] + Len(nals[i])]
<1>1. /\ N \in Nat /\ DOMAIN nals = 1..N
      /\ \A i \in 1..N : nals[i] \in NalUnits /\ codes[i] \in {3, 4} /\ i - 1 \in 0..N /\ i \in 0..N
  OBVIOUS
<1>2. Written(nals, codes, padding) = bytes  BY DEF Written, AnnexBPiece
<1>3. \A i \in 1..N : /\ Len(nals[i]) \in Nat /\ Len(nals[i]) >= 1
                       /\ codes[i] \in Nat /\ codes[i] >= 3
  <2>1. ASSUME NEW i \in 1..N
        PROVE  Len(nals[i]) \in Nat /\ Len(nals[i]) >= 1 /\ codes[i] \in Nat /\ codes[i] >= 3
    <3>1. nals[i] \in NalUnits /\ codes[i] \in {3, 4}  BY <1>1
    <3>2. Len(nals[i]) \in Nat /\ Len(nals[i]) >= 1  BY <3>1, NalUnit
    <3>3. \A c \in {3, 4} : c \in Nat /\ c >= 3  OBVIOUS
    <3>4. QED  BY <3>1, <3>2, <3>3
  <2>2. QED  BY <2>1
<1>4. \A i \in 1..N : Q[i] = AnnexBPiece(nals[i], codes[i], padding)  BY <1>1
<1>5. Q \in Seq(Seq(Nat)) /\ Len(Q) = N
  <2>1. \A i \in 1..N : AnnexBPiece(nals[i], codes[i], padding) \in Seq(Nat)
    BY <1>1, AnnexBPieceIs DEF PieceLies
  <2>2. Q \in [1..N -> Seq(Nat)]  BY <1>1, <2>1
  <2> HIDE DEF Q, N
  <2>3. QED  BY <1>1, <2>2
<1> HIDE DEF Q
<1>6. bytes \in Seq(Nat)
  <2>1. Flat(Q, Len(Q)) = FlattenSeq(Q) /\ \A i \in 0..Len(Q) : Flat(Q, i) \in Seq(Nat)  BY <1>5, Flats
  <2>2. Len(Q) \in 0..Len(Q)  BY <1>1, <1>5
  <2>3. QED  BY <2>1, <2>2
<1>7. /\ E(0) = 0 /\ E(N) = L
      /\ \A i \in 0..N : E(i) \in Nat
      /\ \A i \in 1..N : E(i) = E(i - 1) + Len(Q[i])
      /\ \A i \in 0..N : E(i) <= E(N)
      /\ \A i \in 1..N : \A x \in 1..Len(Q[i]) : bytes[E(i - 1) + x] = Q[i][x]
  <2> DEFINE M == Len(Q)
  <2>1. /\ E(0) = 0 /\ E(M) = Len(FlattenSeq(Q))
        /\ \A i \in 0..M : E(i) \in Nat
        /\ \A i \in 1..M : E(i) = E(i - 1) + Len(Q[i])
        /\ \A j \in 0..M : \A i \in 0..j : E(i) <= E(j)
        /\ \A i \in 1..M : \A x \in 1..Len(Q[i]) : FlattenSeq(Q)[E(i - 1) + x] = Q[i][x]
    BY <1>5, FlatInside
  <2>2. M = N  BY <1>5
  <2> HIDE DEF M, E, N
  <2>3. N \in 0..M  BY <1>1, <2>2
  <2>4. QED  BY <2>1, <2>2, <2>3
<1> HIDE DEF E, bytes
<1>8. ASSUME NEW i \in 1..N
      PROVE  /\ E(i) = E(i - 1) + codes[i] + Len(nals[i]) + padding
             /\ \A x \in 1..(codes[i] - 1) : bytes[E(i - 1) + x] = 0
             /\ bytes[E(i - 1) + codes[i]] = 1
             /\ \A x \in 1..Len(nals[i]) : bytes[E(i - 1) + (codes[i] + x)] = nals[i][x]
             /\ \A x \in 1..padding : bytes[E(i - 1) + (codes[i] + Len(nals[i]) + x)] = 0
  <2> DEFINE q == Q[i]
             c == codes[i]
             m == Len(nals[i])
  <2>1. /\ Len(q) = c + m + padding
        /\ \A x \in 1..(c - 1) : q[x] = 0
        /\ q[c] = 1
        /\ \A x \in 1..m : q[c + x] = nals[i][x]
        /\ \A x \in 1..padding : q[c + m + x] = 0
    <3>1. nals[i] \in NalUnits /\ codes[i] \in {3, 4} /\ padding \in Nat  BY <1>1
    <3>2. Q[i] = AnnexBPiece(nals[i], codes[i], padding)  BY <1>4
    <3>3. PieceLies(AnnexBPiece(nals[i], codes[i], padding), nals[i], codes[i], padding)
      BY <3>1, AnnexBPieceIs
    <3>4. PieceLies(q, nals[i], c, padding)  BY <3>2, <3>3
    <3>5. QED  BY <3>4 DEF PieceLies
  <2>2. c \in Nat /\ c >= 3 /\ m \in Nat /\ m >= 1 /\ E(i - 1) \in Nat  BY <1>1, <1>3, <1>7
  <2>3. E(i) = E(i - 1) + Len(q) /\ \A x \in 1..Len(q) : bytes[E(i - 1) + x] = q[x]  BY <1>7
  <2> HIDE DEF q, c, m
  <2>4. E(i) = E(i - 1) + c + m + padding  BY <2>1, <2>2, <2>3
  <2>5. \A x \in 1..(c - 1) : x \in 1..Len(q)  BY <2>1, <2>2
  <2>6. \A x \in 1..(c - 1) : bytes[E(i - 1) + x] = 0  BY <2>1, <2>3, <2>5
  <2>7. c \in 1..Len(q)  BY <2>1, <2>2
  <2>8. \A x \in 1..m : c + x \in 1..Len(q)  BY <2>1, <2>2
  <2>9. \A x \in 1..padding : c + m + x \in 1..Len(q)  BY <2>1, <2>2
  <2>10. \A x \in 1..m : bytes[E(i - 1) + (c + x)] = nals[i][x]  BY <2>1, <2>3, <2>8
  <2>11. \A x \in 1..padding : bytes[E(i - 1) + (c + m + x)] = 0  BY <2>1, <2>3, <2>9
  <2>12. bytes[E(i - 1) + c] = 1  BY <2>1, <2>3, <2>7
  <2>13. QED  BY <2>4, <2>6, <2>10, <2>11, <2>12 DEF c, m
<1>9. L \in Nat  BY <1>6, LenProperties
<1> HIDE DEF N, L
<1>10. /\ head[0] = 0 /\ tail[0] = 0 /\ head[N + 1] = L + 1
       /\ \A i \in 1..N : head[i] = E(i - 1) + codes[i] /\ tail[i] = E(i - 1) + codes[i] + Len(nals[i])
  <2>1. 0 \in 0..(N + 1) /\ 0 \in 0..N /\ N + 1 \in 0..(N + 1) /\ N + 1 # 0  BY <1>1
  <2>2. \A i \in 1..N : i \in 0..(N + 1) /\ i \in 0..N /\ i # 0 /\ i # N + 1  BY <1>1
  <2>3. QED  BY <2>1, <2>2
<1>11. head \in [0..(N + 1) -> Nat] /\ tail \in [0..N -> Nat]
  <2>1. \A i \in 0..(N + 1) : i # 0 /\ i # N + 1 => i \in 1..N  BY <1>1
  <2>2. \A i \in 0..N : i # 0 => i \in 1..N  BY <1>1
  <2>3. \A i \in 1..N : E(i - 1) + codes[i] \in Nat /\ E(i - 1) + codes[i] + Len(nals[i]) \in Nat
    <3>1. ASSUME NEW i \in 1..N
          PROVE  E(i - 1) + codes[i] \in Nat /\ E(i - 1) + codes[i] + Len(nals[i]) \in Nat
      <4>1. E(i - 1) \in Nat /\ codes[i] \in Nat /\ Len(nals[i]) \in Nat  BY <1>1, <1>3, <1>7
      <4>2. QED  BY <4>1
    <3>2. QED  BY <3>1
  <2>4. \A i \in 0..(N + 1) :
          (IF i = 0 THEN 0 ELSE IF i = N + 1 THEN L + 1 ELSE E(i - 1) + codes[i]) \in Nat
    BY <1>9, <2>1, <2>3
  <2>5. \A i \in 0..N : (IF i = 0 THEN 0 ELSE E(i - 1) + codes[i] + Len(nals[i])) \in Nat
    BY <2>2, <2>3
  <2>6. QED  BY <2>4, <2>5
<1> HIDE DEF head, tail
<1>12. \A i \in 1..N : tail[i] + padding = E(i) /\ tail[i] \in Nat /\ tail[i] <= E(i)
  <2>1. ASSUME NEW i \in 1..N PROVE tail[i] + padding = E(i) /\ tail[i] \in Nat /\ tail[i] <= E(i)
    <3>1. E(i - 1) \in Nat /\ codes[i] \in Nat /\ Len(nals[i]) \in Nat  BY <1>1, <1>3, <1>7
    <3>2. E(i) = E(i - 1) + codes[i] + Len(nals[i]) + padding  BY <1>8
    <3>3. tail[i] = E(i - 1) + codes[i] + Len(nals[i])  BY <1>10
    <3>4. QED  BY <3>1, <3>2, <3>3
  <2>2. QED  BY <2>1
<1>13. \A i \in 0..N : tail[i] <= E(i) /\ tail[i] \in Nat
  <2>1. \A i \in 0..N : i = 0 \/ i \in 1..N  BY <1>1
  <2>2. QED  BY <1>7, <1>10, <1>12, <2>1
<1>14. tail[N] <= L
  <2>1. N \in 0..N  BY <1>1
  <2>2. QED  BY <1>7, <1>13, <2>1
<1>15. ASSUME NEW i \in 1..N
       PROVE  /\ head[i] >= tail[i - 1] + 3 /\ tail[i] = head[i] + Len(nals[i])
              /\ bytes[head[i]] = 1
              /\ \A x \in 1..Len(nals[i]) : bytes[head[i] + x] = nals[i][x]
  <2>1. E(i - 1) \in Nat /\ codes[i] \in Nat /\ codes[i] >= 3 /\ Len(nals[i]) \in Nat  BY <1>1, <1>3, <1>7
  <2>2. head[i] = E(i - 1) + codes[i] /\ tail[i] = E(i - 1) + codes[i] + Len(nals[i])  BY <1>10
  <2>3. tail[i - 1] <= E(i - 1) /\ tail[i - 1] \in Nat  BY <1>1, <1>13
  <2>4. head[i] >= tail[i - 1] + 3  BY <2>1, <2>2, <2>3
  <2>5. tail[i] = head[i] + Len(nals[i])  BY <2>2
  <2>6. bytes[head[i]] = 1  BY <1>8, <2>2
  <2>7. ASSUME NEW x \in 1..Len(nals[i]) PROVE bytes[head[i] + x] = nals[i][x]
    <3>1. head[i] + x = E(i - 1) + (codes[i] + x)  BY <2>1, <2>2
    <3>2. bytes[E(i - 1) + (codes[i] + x)] = nals[i][x]  BY <1>8
    <3>3. QED  BY <3>1, <3>2
  <2>8. QED  BY <2>4, <2>5, <2>6, <2>7
<1>16. ASSUME NEW i \in 0..N, NEW p \in Nat, tail[i] < p, p < head[i + 1] PROVE bytes[p] = 0
  <2>1. E(i) \in Nat /\ tail[i] \in Nat  BY <1>7, <1>13
  <2>2. CASE p <= E(i)
    <3>1. i # 0
      <4>1. i = 0 => tail[i] = 0 /\ E(i) = 0  BY <1>7, <1>10
      <4>2. QED  BY <1>16, <2>2, <4>1
    <3>2. i \in 1..N  BY <1>1, <3>1
    <3>3. E(i - 1) \in Nat /\ codes[i] \in Nat /\ Len(nals[i]) \in Nat  BY <1>1, <1>3, <1>7, <3>2
    <3>4. tail[i] = E(i - 1) + codes[i] + Len(nals[i]) /\ tail[i] + padding = E(i)  BY <1>10, <1>12, <3>2
    <3> DEFINE x == p - tail[i]
    <3>5. x \in 1..padding  BY <1>16, <2>1, <2>2, <3>4
    <3>9. x \in Int /\ tail[i] + x = p  BY <2>1
    <3> HIDE DEF x
    <3>6. E(i - 1) + (codes[i] + Len(nals[i]) + x) = p  BY <3>9, <3>3, <3>4
    <3>7. bytes[E(i - 1) + (codes[i] + Len(nals[i]) + x)] = 0  BY <1>8, <3>2, <3>5
    <3>8. QED  BY <3>6, <3>7
  <2>3. CASE ~(p <= E(i))
    <3>1. i # N
      <4>1. i = N => head[i + 1] = L + 1 /\ E(i) = L  BY <1>7, <1>10
      <4>2. i = N => p < L + 1 /\ ~(p <= L)  BY <1>16, <2>3, <4>1
      <4>3. QED  BY <1>9, <4>2
    <3>2. i + 1 \in 1..N /\ (i + 1) - 1 = i  BY <1>1, <3>1
    <3>3. head[i + 1] = E(i) + codes[i + 1] /\ codes[i + 1] \in Nat  BY <1>3, <1>10, <3>2
    <3> DEFINE x == p - E(i)
    <3>4. x \in 1..(codes[i + 1] - 1)  BY <1>16, <2>1, <2>3, <3>3
    <3>5. E(i) + x = p  BY <2>1
    <3> HIDE DEF x
    <3>6. bytes[E(i) + x] = 0  BY <1>8, <3>2, <3>4
    <3>7. QED  BY <3>5, <3>6
  <2>4. QED  BY <2>2, <2>3
<1>17. Landmarks(bytes, nals, head, tail)
  BY <1>10, <1>11, <1>14, <1>15, <1>16 DEF Landmarks, N, L
<1>18. QED  BY <1>2, <1>6, <1>17

-----------------------------------------------------------------------------
(* What the splitting finds. *)

Lies(head, tail) ==
    written \in Seq(NalUnits) /\ annexB \in Seq(Nat) /\ Landmarks(annexB, written, head, tail)

\* Where the i-th start code begins, with its leading zero byte if it has one.
Place(head, tail, i) == IF head[i] >= tail[i - 1] + 4 THEN head[i] - 3 ELSE head[i] - 2

LEMMA Lie ==
  ASSUME NEW head, NEW tail, Lies(head, tail)
  PROVE  /\ Len(written) \in Nat /\ Len(annexB) \in Nat
         /\ \A i \in 0..(Len(written) + 1) : head[i] \in Nat
         /\ \A i \in 0..Len(written) : tail[i] \in Nat /\ head[i] <= tail[i] /\ tail[i] < head[i + 1]
         /\ \A i \in 1..Len(written) :
              /\ written[i] \in NalUnits /\ Len(written[i]) \in Nat /\ Len(written[i]) >= 1
              /\ head[i] >= tail[i - 1] + 3 /\ tail[i] = head[i] + Len(written[i])
              /\ annexB[head[i]] = 1 /\ annexB[tail[i]] # 0
              /\ \A x \in 1..Len(written[i]) : annexB[head[i] + x] = written[i][x]
         /\ \A i \in 0..Len(written) : \A p \in Nat : tail[i] < p /\ p < head[i + 1] => annexB[p] = 0
<1> DEFINE N == Len(written)
<1>1. /\ N \in Nat /\ Len(annexB) \in Nat
      /\ \A i \in 1..N : written[i] \in NalUnits /\ i \in 0..N /\ i - 1 \in 0..N /\ i \in 0..(N + 1)
  BY DEF Lies
<1>2. \A i \in 1..N : Len(written[i]) \in Nat /\ Len(written[i]) >= 1  BY <1>1, NalUnit
<1>3. /\ head \in [0..(N + 1) -> Nat] /\ tail \in [0..N -> Nat]
      /\ head[0] = 0 /\ tail[0] = 0
      /\ head[N + 1] = Len(annexB) + 1 /\ tail[N] <= Len(annexB)
  BY DEF Lies, Landmarks
<1>4. /\ \A i \in 1..N :
            /\ head[i] >= tail[i - 1] + 3 /\ tail[i] = head[i] + Len(written[i])
            /\ annexB[head[i]] = 1
            /\ \A x \in 1..Len(written[i]) : annexB[head[i] + x] = written[i][x]
      /\ \A i \in 0..N : \A p \in Nat : tail[i] < p /\ p < head[i + 1] => annexB[p] = 0
  BY DEF Lies, Landmarks
<1> HIDE DEF N
<1>5. \A i \in 0..N : tail[i] \in Nat /\ i \in 0..(N + 1) /\ i + 1 \in 0..(N + 1)  BY <1>1, <1>3
<1>6. \A i \in 0..(N + 1) : head[i] \in Nat  BY <1>3
<1>7. ASSUME NEW i \in 0..N PROVE head[i] <= tail[i]
  <2>1. CASE i = 0  BY <1>3, <2>1
  <2>2. CASE i # 0
    <3>1. i \in 1..N  BY <1>1, <2>2
    <3>2. tail[i] = head[i] + Len(written[i]) /\ Len(written[i]) \in Nat /\ head[i] \in Nat
      BY <1>2, <1>4, <1>5, <1>6, <3>1
    <3>3. QED  BY <3>2
  <2>3. QED  BY <2>1, <2>2
<1>8. ASSUME NEW i \in 0..N PROVE tail[i] < head[i + 1]
  <2>1. CASE i = N
    <3>1. tail[i] <= Len(annexB) /\ head[i + 1] = Len(annexB) + 1 /\ tail[i] \in Nat  BY <1>3, <1>5, <2>1
    <3>2. QED  BY <1>1, <3>1
  <2>2. CASE i # N
    <3>1. i + 1 \in 1..N /\ (i + 1) - 1 = i  BY <1>1, <2>2
    <3>2. head[i + 1] >= tail[i] + 3 /\ tail[i] \in Nat /\ head[i + 1] \in Nat
      BY <1>4, <1>5, <1>6, <3>1
    <3>3. QED  BY <3>2
  <2>3. QED  BY <2>1, <2>2
<1>9. ASSUME NEW i \in 1..N PROVE annexB[tail[i]] # 0
  <2>1. written[i] \in NalUnits  BY <1>1
  <2>2. written[i][Len(written[i])] # 0 /\ Len(written[i]) \in 1..Len(written[i])
    BY <1>2, <2>1, NalUnit
  <2>3. QED  BY <1>4, <2>2
<1>10. QED  BY <1>1, <1>2, <1>4, <1>5, <1>6, <1>7, <1>8, <1>9 DEF N

\* Landmarks rise.
LEMMA Rising ==
  ASSUME NEW head, NEW tail, Lies(head, tail)
  PROVE  \A k \in 0..(Len(written) + 1) : \A i \in 0..Len(written) :
           /\ i < k => tail[i] < head[k]
           /\ i <= k => head[i] <= head[k]
<1> DEFINE N == Len(written)
           T == {k \in 0..(N + 1) : \A i \in 0..N : i < k => tail[i] < head[k]}
<1>1. /\ N \in Nat /\ \A i \in 0..(N + 1) : head[i] \in Nat
      /\ \A i \in 0..N : tail[i] \in Nat /\ head[i] <= tail[i] /\ tail[i] < head[i + 1]
  BY Lie
<1> HIDE DEF N
<1>2. 0 \in T  BY <1>1
<1>3. ASSUME NEW k \in T, k < N + 1 PROVE k + 1 \in T
  <2>1. k \in 0..N /\ k + 1 \in 0..(N + 1) /\ k \in 0..(N + 1)  BY <1>1, <1>3
  <2>2. tail[k] \in Nat /\ head[k] <= tail[k] /\ tail[k] < head[k + 1] /\ head[k] \in Nat /\ head[k + 1] \in Nat
    BY <1>1, <2>1
  <2>3. ASSUME NEW i \in 0..N, i < k + 1 PROVE tail[i] < head[k + 1]
    <3>1. CASE i = k  BY <2>2, <3>1
    <3>2. CASE i # k
      <4>1. i < k  BY <2>1, <2>3, <3>2
      <4>2. tail[i] < head[k] /\ tail[i] \in Nat  BY <1>1, <4>1
      <4>3. QED  BY <2>2, <4>2
    <3>3. QED  BY <3>1, <3>2
  <2>4. QED  BY <2>1, <2>3
<1> HIDE DEF T
<1>4. \A k \in 0..(N + 1) : k \in T
  <2>1. N + 1 \in Nat  BY <1>1
  <2>2. QED  BY <1>2, <1>3, <2>1, UpTo
<1>5. ASSUME NEW k \in 0..(N + 1), NEW i \in 0..N
      PROVE  (i < k => tail[i] < head[k]) /\ (i <= k => head[i] <= head[k])
  <2>1. i < k => tail[i] < head[k]  BY <1>4 DEF T
  <2>2. CASE i = k
    <3>1. head[k] \in Nat  BY <1>1
    <3>2. QED  BY <1>1, <2>1, <2>2, <3>1
  <2>3. CASE i # k
    <3>1. i <= k => i < k  BY <1>1, <2>3
    <3>2. i \in 0..(N + 1) /\ head[i] \in Nat /\ tail[i] \in Nat /\ head[i] <= tail[i] /\ head[k] \in Nat
      BY <1>1
    <3>3. QED  BY <2>1, <3>1, <3>2
  <2>4. QED  BY <2>2, <2>3
<1>6. QED  BY <1>5 DEF N

\* A one behind two zeros is the end of a start code: the bytes of a NAL unit
\* hold none.
LEMMA OneBehindZeros ==
  ASSUME NEW head, NEW tail, Lies(head, tail), NEW p \in 3..Len(annexB),
         annexB[p] = 1, annexB[p - 1] = 0, annexB[p - 2] = 0
  PROVE  \E i \in 1..Len(written) : p = head[i]
<1> DEFINE N == Len(written)
<1>1. /\ N \in Nat /\ Len(annexB) \in Nat /\ \A i \in 0..(N + 1) : head[i] \in Nat
      /\ \A i \in 0..N : tail[i] \in Nat
      /\ \A i \in 1..N :
           /\ written[i] \in NalUnits /\ Len(written[i]) \in Nat
           /\ tail[i] = head[i] + Len(written[i]) /\ annexB[head[i]] = 1
           /\ \A x \in 1..Len(written[i]) : annexB[head[i] + x] = written[i][x]
      /\ \A i \in 0..N : \A q \in Nat : tail[i] < q /\ q < head[i + 1] => annexB[q] = 0
  BY Lie
<1>2. head[0] = 0 /\ tail[0] = 0 /\ head[N + 1] = Len(annexB) + 1  BY DEF Lies, Landmarks
<1> HIDE DEF N
<1> DEFINE later == {j \in 0..(N + 1) : p < head[j]}
<1>3. N + 1 \in later  BY <1>1, <1>2
<1>4. PICK j \in later : \A m \in later : j <= m
  <2>1. \A m \in later : m \in Nat  BY <1>1
  <2> HIDE DEF later
  <2>2. later \in SUBSET Nat /\ later # {}  BY <1>3, <2>1
  <2>3. QED  BY <2>2, LeastNatural
<1> DEFINE i == j - 1
<1>5. j \in 0..(N + 1) /\ p < head[j] /\ p \in Nat /\ p >= 3  BY <1>1
<1>6. j # 0  BY <1>2, <1>5
<1>7. i \in 0..N /\ i + 1 = j /\ i < j  BY <1>1, <1>5, <1>6
<1>8. i \notin later
  <2>1. ~(j <= i)  BY <1>5
  <2>2. QED  BY <1>4, <2>1
<1>9. i \in 0..(N + 1) /\ ~(p < head[i])
  <2>1. i \in 0..(N + 1)  BY <1>1, <1>7
  <2>2. QED  BY <1>8, <2>1
<1> HIDE DEF i, later
<1>10. head[i] \in Nat /\ tail[i] \in Nat /\ head[i] <= p  BY <1>1, <1>5, <1>7, <1>9
<1>11. p <= tail[i]
  <2>1. tail[i] < p /\ p < head[i + 1] => annexB[p] = 0  BY <1>1, <1>5, <1>7
  <2>2. p < head[i + 1]  BY <1>5, <1>7
  <2>3. QED  BY <1>5, <1>10, <2>1, <2>2
<1>12. i \in 1..N
  <2>1. i # 0  BY <1>2, <1>5, <1>11
  <2>2. QED  BY <1>1, <1>7, <2>1
<1> DEFINE x == p - head[i]
           nal == written[i]
<1>13. /\ nal \in NalUnits /\ Len(nal) \in Nat /\ tail[i] = head[i] + Len(nal)
       /\ \A y \in 1..Len(nal) : annexB[head[i] + y] = nal[y]
  BY <1>1, <1>12
<1>14. annexB[head[i]] = 1  BY <1>1, <1>12
<1>15. x \in 0..Len(nal) /\ p = head[i] + x  BY <1>5, <1>10, <1>11, <1>13
<1> HIDE DEF x, nal
<1>16. CASE x = 0
  <2>1. p = head[i]  BY <1>10, <1>15, <1>16
  <2>2. QED  BY <1>12, <2>1 DEF N
<1>17. CASE x = 1
  <2>1. p - 1 = head[i]  BY <1>10, <1>15, <1>17
  <2>2. QED  BY <1>14, <2>1
<1>18. CASE x = 2
  <2>1. p - 2 = head[i]  BY <1>10, <1>15, <1>18
  <2>2. QED  BY <1>14, <2>1
<1>19. CASE x > 2
  <2> DEFINE y == x - 2
  <2>1. y \in 1..(Len(nal) - 2) /\ y \in 1..Len(nal) /\ y + 1 \in 1..Len(nal) /\ y + 2 \in 1..Len(nal)
    <3> DEFINE n == Len(nal)
    <3>1. n \in Nat /\ x \in 0..n  BY <1>13, <1>15
    <3> HIDE DEF n
    <3>2. y \in 1..(n - 2) /\ y \in 1..n /\ y + 1 \in 1..n /\ y + 2 \in 1..n  BY <1>19, <3>1
    <3>3. QED  BY <3>2 DEF n
  <2>2. head[i] + y = p - 2 /\ head[i] + (y + 1) = p - 1 /\ head[i] + (y + 2) = p
    <3> DEFINE h == head[i]
    <3>1. h \in Nat /\ y \in Int /\ p = h + (y + 2)  BY <1>10, <1>13, <1>15
    <3> HIDE DEF h, y
    <3>2. h + y = p - 2 /\ h + (y + 1) = p - 1 /\ h + (y + 2) = p  BY <3>1
    <3>3. QED  BY <3>2 DEF h
  <2> HIDE DEF y
  <2>3. nal[y] = 0 /\ nal[y + 1] = 0 /\ nal[y + 2] = 1  BY <1>13, <2>1, <2>2
  <2>4. ~(nal[y] = 0 /\ nal[y + 1] = 0 /\ nal[y + 2] < 3)  BY <1>13, <2>1, NalUnit
  <2>5. QED  BY <2>3, <2>4
<1>20. x = 0 \/ x = 1 \/ x = 2 \/ x > 2  BY <1>13, <1>15
<1>21. QED  BY <1>16, <1>17, <1>18, <1>19, <1>20 DEF N

LEMMA Least ==
  ASSUME NEW S \in SUBSET Int, NEW m \in S, \A y \in S : m <= y
  PROVE  Min(S) = m
<1> DEFINE c == CHOOSE x \in S : \A y \in S : x =< y
<1>1. c \in S /\ \A y \in S : c <= y  OBVIOUS
<1> HIDE DEF c
<1>2. c \in Int /\ m \in Int /\ c <= m /\ m <= c  BY <1>1
<1>3. c = m  BY <1>2
<1>4. QED  BY <1>3 DEF Min, c

LEMMA Greatest ==
  ASSUME NEW S \in SUBSET Int, NEW m \in S, \A y \in S : y <= m
  PROVE  Max(S) = m
<1> DEFINE c == CHOOSE x \in S : \A y \in S : x >= y
<1>1. c \in S /\ \A y \in S : c >= y  OBVIOUS
<1> HIDE DEF c
<1>2. c \in Int /\ m \in Int /\ c <= m /\ m <= c  BY <1>1
<1>3. c = m  BY <1>2
<1>4. QED  BY <1>3 DEF Max, c

\* A start code is where it was put.
LEMMA PlaceIsCode ==
  ASSUME NEW head, NEW tail, Lies(head, tail), NEW i \in 1..Len(written)
  PROVE  LET at == Place(head, tail, i)
         IN  /\ at \in 1..(Len(annexB) - 2) /\ IsStartCode(at)
             /\ at + CodeLength(at) = head[i] + 1
             /\ tail[i - 1] < at /\ at < head[i]
<1> DEFINE N == Len(written)
           t == tail[i - 1]
           h == head[i]
           at == Place(head, tail, i)
<1>1. N \in Nat /\ Len(annexB) \in Nat /\ i \in 0..N /\ i - 1 \in 0..N /\ i \in 0..(N + 1) /\ (i - 1) + 1 = i
  BY Lie
<1>2. /\ t \in Nat /\ h \in Nat /\ h >= t + 3 /\ annexB[h] = 1
      /\ \A p \in Nat : t < p /\ p < h => annexB[p] = 0
  <2>1. \A p \in Nat : tail[i - 1] < p /\ p < head[(i - 1) + 1] => annexB[p] = 0  BY <1>1, Lie
  <2>2. QED  BY <1>1, <2>1, Lie
<1>3. h + 1 <= Len(annexB)
  <2>1. tail[i] = h + Len(written[i]) /\ Len(written[i]) \in Nat /\ Len(written[i]) >= 1 /\ tail[i] \in Nat
    BY <1>1, Lie
  <2>2. tail[i] < head[N + 1]
    <3>1. N + 1 \in 0..(N + 1) /\ i < N + 1  BY <1>1
    <3>2. QED  BY <1>1, <3>1, Rising
  <2>3. head[N + 1] = Len(annexB) + 1  BY DEF Lies, Landmarks
  <2> HIDE DEF h, N
  <2>4. QED  BY <1>1, <1>2, <2>1, <2>2, <2>3
<1>4. at = IF h >= t + 4 THEN h - 3 ELSE h - 2  BY DEF Place
<1> HIDE DEF t, h, at
<1>5. CASE h >= t + 4
  <2>1. at = h - 3  BY <1>4, <1>5
  <2>2. /\ at \in Nat /\ at + 1 \in Nat /\ at + 2 \in Nat /\ at > t /\ at + 2 < h /\ at + 3 = h
        /\ at + 3 <= Len(annexB) /\ at \in 1..(Len(annexB) - 2) /\ at < h /\ at + 1 > t /\ at + 2 > t
        /\ at + 1 < h
    BY <1>1, <1>2, <1>3, <1>5, <2>1
  <2>3. annexB[at] = 0 /\ annexB[at + 1] = 0 /\ annexB[at + 2] = 0 /\ annexB[at + 3] = 1
    BY <1>2, <2>2
  <2>4. IsStartCode(at)  BY <2>2, <2>3 DEF IsStartCode
  <2>5. CodeLength(at) = 4  BY <2>3 DEF CodeLength
  <2>6. at + CodeLength(at) = h + 1  BY <1>2, <2>1, <2>5
  <2>7. QED  BY <2>2, <2>4, <2>6 DEF at, h, t
<1>6. CASE ~(h >= t + 4)
  <2>1. at = h - 2  BY <1>4, <1>6
  <2>2. /\ at \in Nat /\ at + 1 \in Nat /\ at > t /\ at + 1 < h /\ at + 2 = h
        /\ at \in 1..(Len(annexB) - 2) /\ at < h /\ at + 1 > t
    BY <1>1, <1>2, <1>3, <1>6, <2>1
  <2>3. annexB[at] = 0 /\ annexB[at + 1] = 0 /\ annexB[at + 2] = 1  BY <1>2, <2>2
  <2>4. IsStartCode(at)  BY <2>2, <2>3 DEF IsStartCode
  <2>5. CodeLength(at) = 3  BY <2>3 DEF CodeLength
  <2>6. at + CodeLength(at) = h + 1  BY <1>2, <2>1, <2>5
  <2>7. QED  BY <2>2, <2>4, <2>6 DEF at, h, t
<1>7. QED  BY <1>5, <1>6

\* And there is no other.
LEMMA CodeIsPlaced ==
  ASSUME NEW head, NEW tail, Lies(head, tail), NEW at \in 1..(Len(annexB) - 2), IsStartCode(at)
  PROVE  \E i \in 1..Len(written) : Place(head, tail, i) <= at /\ at < head[i]
<1>1. /\ Len(written) \in Nat /\ Len(annexB) \in Nat
      /\ \A i \in 1..Len(written) : /\ i - 1 \in 0..Len(written) /\ i \in 0..(Len(written) + 1)
  BY Lie
<1>2. /\ \A i \in 0..(Len(written) + 1) : head[i] \in Nat
      /\ \A i \in 0..Len(written) : tail[i] \in Nat
      /\ \A i \in 1..Len(written) : head[i] >= tail[i - 1] + 3 /\ annexB[tail[i]] # 0
  BY Lie
<1>3. annexB[at] = 0 /\ annexB[at + 1] = 0  BY DEF IsStartCode
<1>4. CASE annexB[at + 2] = 1
  <2>1. at + 2 \in 3..Len(annexB) /\ (at + 2) - 1 = at + 1 /\ (at + 2) - 2 = at  BY <1>1
  <2>2. PICK i \in 1..Len(written) : at + 2 = head[i]  BY <1>3, <1>4, <2>1, OneBehindZeros
  <2>3. head[i] \in Nat /\ head[i] - 2 = at
    <3>1. head[i] \in Nat  BY <1>1, <1>2
    <3>2. QED  BY <2>2, <3>1
  <2>4. Place(head, tail, i) = head[i] - 3 \/ Place(head, tail, i) = head[i] - 2  BY DEF Place
  <2>5. Place(head, tail, i) <= at /\ at < head[i]  BY <2>3, <2>4
  <2>6. QED  BY <2>5
<1>5. CASE at + 3 <= Len(annexB) /\ annexB[at + 2] = 0 /\ annexB[at + 3] = 1
  <2>1. at + 3 \in 3..Len(annexB) /\ (at + 3) - 1 = at + 2 /\ (at + 3) - 2 = at + 1  BY <1>1, <1>5
  <2>2. PICK i \in 1..Len(written) : at + 3 = head[i]  BY <1>3, <1>5, <2>1, OneBehindZeros
  <2>3. head[i] \in Nat /\ head[i] - 3 = at /\ tail[i - 1] \in Nat /\ head[i] >= tail[i - 1] + 3
    <3>1. head[i] \in Nat /\ tail[i - 1] \in Nat /\ head[i] >= tail[i - 1] + 3  BY <1>1, <1>2
    <3>2. QED  BY <2>2, <3>1
  <2>4. at # tail[i - 1]
    <3>1. CASE i - 1 = 0
      <4>1. tail[i - 1] = 0  BY <3>1 DEF Lies, Landmarks
      <4>2. QED  BY <4>1
    <3>2. CASE i - 1 # 0
      <4>1. i - 1 \in 1..Len(written)  BY <1>1, <3>2
      <4>2. annexB[tail[i - 1]] # 0  BY <1>2, <4>1
      <4>3. QED  BY <1>3, <4>2
    <3>3. QED  BY <3>1, <3>2
  <2>5. head[i] >= tail[i - 1] + 4 /\ at < head[i]
    <3> DEFINE h == head[i]
               u == tail[i - 1]
    <3>1. h \in Nat /\ h - 3 = at /\ u \in Nat /\ h >= u + 3 /\ at # u  BY <2>3, <2>4
    <3> HIDE DEF h, u
    <3>2. h >= u + 4 /\ at < h  BY <3>1
    <3>3. QED  BY <3>2 DEF h, u
  <2>6. Place(head, tail, i) = at  BY <2>3, <2>5 DEF Place
  <2>7. Place(head, tail, i) <= at  BY <2>6
  <2>8. QED  BY <2>5, <2>7
<1>6. QED  BY <1>4, <1>5 DEF IsStartCode

\* From behind one start code on the next is the first to be found.
LEMMA NextCode ==
  ASSUME NEW head, NEW tail, Lies(head, tail), NEW k \in 0..Len(written), NEW s \in Nat, s > head[k]
  PROVE  /\ k = Len(written) => CodesFrom(s) = {}
         /\ k < Len(written) /\ s <= Place(head, tail, k + 1) =>
              CodesFrom(s) # {} /\ Min(CodesFrom(s)) = Place(head, tail, k + 1)
<1>1. /\ Len(written) \in Nat /\ Len(annexB) \in Nat
      /\ \A i \in 1..Len(written) : /\ i - 1 \in 0..Len(written) /\ i \in 0..(Len(written) + 1)
                                      /\ i \in 0..Len(written)
      /\ k \in 0..(Len(written) + 1)
  BY Lie
<1>2. /\ \A i \in 0..(Len(written) + 1) : head[i] \in Nat
      /\ \A i \in 0..Len(written) : tail[i] \in Nat /\ head[i] <= tail[i]
  BY Lie
<1>3. ASSUME NEW at \in CodesFrom(s)
      PROVE  k < Len(written) /\ Place(head, tail, k + 1) <= at
  <2>1. at \in s..(Len(annexB) - 2) /\ IsStartCode(at)  BY DEF CodesFrom
  <2>2. at \in 1..(Len(annexB) - 2) /\ at > head[k]  BY <1>1, <1>2, <2>1
  <2>3. PICK i \in 1..Len(written) : Place(head, tail, i) <= at /\ at < head[i]
    BY <2>1, <2>2, CodeIsPlaced
  <2>4. ~(i <= k)
    <3>1. i <= k => head[i] <= head[k]  BY <1>1, Rising
    <3>2. head[i] \in Nat /\ head[k] \in Nat  BY <1>1, <1>2
    <3>3. QED  BY <2>2, <2>3, <3>1, <3>2
  <2>5. k < Len(written) /\ k + 1 <= i  BY <1>1, <2>4
  <2>6. CASE i = k + 1  BY <2>3, <2>5, <2>6
  <2>7. CASE i # k + 1
    <3>1. k + 1 \in 1..Len(written) /\ k + 1 \in 0..Len(written) /\ k + 1 <= i - 1 /\ i - 1 \in 0..(Len(written) + 1)
      BY <1>1, <2>5, <2>7
    <3>2. head[k + 1] <= head[i - 1]  BY <3>1, Rising
    <3>3. head[i - 1] <= tail[i - 1] /\ tail[i - 1] \in Nat /\ head[i - 1] \in Nat /\ head[k + 1] \in Nat
      BY <1>1, <1>2, <3>1
    <3>4. tail[i - 1] < Place(head, tail, i) /\ Place(head, tail, i) \in Int  BY PlaceIsCode
    <3>5. Place(head, tail, k + 1) < head[k + 1] /\ Place(head, tail, k + 1) \in Int
      BY <3>1, PlaceIsCode
    <3> DEFINE a == Place(head, tail, k + 1)
               b == Place(head, tail, i)
    <3> HIDE DEF a, b
    <3>6. a < head[k + 1] /\ a \in Int /\ tail[i - 1] < b /\ b \in Int /\ b <= at
      BY <2>3, <3>4, <3>5 DEF a, b
    <3>7. a <= at
      <4> DEFINE h == head[k + 1]
                 i1 == head[i - 1]
                 u == tail[i - 1]
      <4>1. /\ a \in Int /\ b \in Int /\ h \in Nat /\ i1 \in Nat /\ u \in Nat /\ at \in Int
            /\ a < h /\ h <= i1 /\ i1 <= u /\ u < b /\ b <= at
        BY <2>2, <3>2, <3>3, <3>6
      <4> HIDE DEF h, i1, u
      <4>2. QED  BY <4>1
    <3>8. QED  BY <2>5, <3>7 DEF a
  <2>8. QED  BY <2>6, <2>7
<1>4. ASSUME k = Len(written) PROVE CodesFrom(s) = {}  BY <1>1, <1>3, <1>4
<1>5. ASSUME k < Len(written), s <= Place(head, tail, k + 1)
      PROVE  CodesFrom(s) # {} /\ Min(CodesFrom(s)) = Place(head, tail, k + 1)
  <2> DEFINE a == Place(head, tail, k + 1)
  <2>1. k + 1 \in 1..Len(written)  BY <1>1, <1>5
  <2>2. a \in 1..(Len(annexB) - 2) /\ IsStartCode(a)  BY <2>1, PlaceIsCode
  <2>3. \A y \in CodesFrom(s) : a <= y  BY <1>3
  <2>4. s <= a  BY <1>5
  <2> HIDE DEF a
  <2>5. a \in CodesFrom(s)
    <3>1. a \in s..(Len(annexB) - 2)  BY <1>1, <2>2, <2>4
    <3>2. QED  BY <2>2, <3>1 DEF CodesFrom
  <2>6. CodesFrom(s) \in SUBSET Int  BY DEF CodesFrom
  <2> DEFINE S == CodesFrom(s)
  <2> HIDE DEF S
  <2>7. a \in S /\ S \in SUBSET Int /\ \A y \in S : a <= y  BY <2>3, <2>5, <2>6 DEF S
  <2>8. Min(S) = a  BY <2>7, Least
  <2>9. QED  BY <2>7, <2>8 DEF S, a
<1>6. QED  BY <1>4, <1>5

\* Zero bytes behind a NAL unit are trimmed away, and nothing else is.
LEMMA TrimmedIs ==
  ASSUME NEW nal \in NalUnits, NEW sub \in Seq(Nat), Len(sub) >= Len(nal),
         \A x \in 1..Len(nal) : sub[x] = nal[x],
         \A x \in (Len(nal) + 1)..Len(sub) : sub[x] = 0
  PROVE  Trimmed(sub) = nal
<1> DEFINE m == Len(nal)
           S == {0} \cup {i \in DOMAIN sub : sub[i] # 0}
<1>1. m \in Nat /\ m >= 1 /\ nal \in Seq(Nat) /\ nal[m] # 0  BY NalUnit
<1>2. Len(sub) \in Nat /\ DOMAIN sub = 1..Len(sub)  BY LenProperties
<1>3. Max(S) = m
  <2>1. S \in SUBSET Int  BY <1>2
  <2>2. m \in S
    <3>1. m \in 1..Len(nal) /\ m \in DOMAIN sub  BY <1>1, <1>2
    <3>2. sub[m] # 0  BY <1>1, <3>1
    <3>3. QED  BY <3>1, <3>2
  <2>3. ASSUME NEW y \in S PROVE y <= m
    <3>1. y = 0 \/ (y \in 1..Len(sub) /\ sub[y] # 0)  BY <1>2
    <3>2. ~(y \in (Len(nal) + 1)..Len(sub)) \/ sub[y] = 0  OBVIOUS
    <3>3. QED  BY <1>1, <1>2, <3>1, <3>2
  <2> HIDE DEF S, m
  <2>4. QED  BY <2>1, <2>2, <2>3, Greatest
<1>4. Trimmed(sub) = SubSeq(sub, 1, m)  BY <1>3 DEF Trimmed
<1>5. SubSeq(sub, 1, m) = nal
  <2>1. \A i \in 1..m : sub[i] \in Nat  BY <1>1, NalUnit
  <2> HIDE DEF m
  <2>2. 1 \in Int /\ m \in Int /\ 1 <= m /\ (m - 1) + 1 = m  BY <1>1
  <2>3. /\ SubSeq(sub, 1, m) \in Seq(Nat) /\ Len(SubSeq(sub, 1, m)) = IF 1 <= m THEN m - 1 + 1 ELSE 0
        /\ \A i \in 1..(m - 1 + 1) : SubSeq(sub, 1, m)[i] = sub[1 + i - 1]
    BY <2>1, <2>2, SubSeqProperties
  <2> DEFINE b == SubSeq(sub, 1, m)
  <2>4. b \in Seq(Nat) /\ Len(b) = m  BY <2>2, <2>3
  <2>5. \A i \in 1..m : b[i] = sub[i]
    <3>1. ASSUME NEW i \in 1..m PROVE b[i] = sub[i]
      <4>1. i \in 1..(m - 1 + 1) /\ 1 + i - 1 = i  BY <1>1
      <4>2. QED  BY <2>3, <4>1
    <3>2. QED  BY <3>1
  <2> HIDE DEF b
  <2>6. Len(b) = Len(nal) /\ \A i \in 1..Len(b) : b[i] = nal[i]  BY <2>4, <2>5 DEF m
  <2>7. b = nal  BY <1>1, <2>4, <2>6, SeqEqual
  <2>8. QED  BY <2>7 DEF b
<1>6. QED  BY <1>4, <1>5

\* A turn of the splitting finds the next NAL unit as it was written.
LEMMA NextNalIs ==
  ASSUME NEW head, NEW tail, Lies(head, tail), NEW k \in 0..Len(written), k < Len(written),
         reached \in Nat, reached > head[k], reached <= Place(head, tail, k + 1)
  PROVE  /\ NextNal.nal = written[k + 1]
         /\ NextNal.end \in Nat /\ NextNal.end > head[k + 1]
         /\ k + 1 < Len(written) => NextNal.end <= Place(head, tail, k + 2)
<1> DEFINE N == Len(written)
           h == head[k + 1]
           t == tail[k + 1]
           a == Place(head, tail, k + 1)
           start == Min(CodesFrom(reached)) + CodeLength(Min(CodesFrom(reached)))
           end == Min({Len(annexB) + 1} \cup CodesFrom(start))
           nal == written[k + 1]
           sub == SubSeq(annexB, start, end - 1)
<1>1. /\ N \in Nat /\ Len(annexB) \in Nat /\ k + 1 \in 1..N /\ k + 1 \in 0..N /\ k + 1 \in 0..(N + 1)
      /\ k + 2 \in 0..(N + 1) /\ (k + 1) + 1 = k + 2 /\ (k + 2) - 1 = k + 1 /\ (k + 1) - 1 = k
  BY Lie
<1>2. /\ h \in Nat /\ t \in Nat /\ t = h + Len(nal) /\ Len(nal) \in Nat /\ Len(nal) >= 1 /\ nal \in NalUnits
      /\ t < head[k + 2] /\ head[k + 2] \in Nat
      /\ \A x \in 1..Len(nal) : annexB[h + x] = nal[x]
      /\ \A p \in Nat : t < p /\ p < head[k + 2] => annexB[p] = 0
  <2>1. t \in Nat /\ t < head[(k + 1) + 1] /\ \A p \in Nat : t < p /\ p < head[(k + 1) + 1] => annexB[p] = 0
    <3> DEFINE m == k + 1
    <3>1. m \in 0..Len(written)  BY <1>1
    <3> HIDE DEF m
    <3>2. tail[m] \in Nat /\ tail[m] < head[m + 1]
          /\ \A p \in Nat : tail[m] < p /\ p < head[m + 1] => annexB[p] = 0
      BY <3>1, Lie
    <3>3. QED  BY <3>2 DEF m
  <2>2. /\ t = h + Len(nal) /\ Len(nal) \in Nat /\ Len(nal) >= 1 /\ nal \in NalUnits
        /\ \A x \in 1..Len(nal) : annexB[h + x] = nal[x]
    BY <1>1, Lie
  <2>3. h \in Nat /\ head[k + 2] \in Nat  BY <1>1, Lie
  <2>4. QED  BY <1>1, <2>1, <2>2, <2>3
<1>3. start = h + 1
  <2>1. Min(CodesFrom(reached)) = a  BY NextCode
  <2>2. a + CodeLength(a) = h + 1  BY <1>1, PlaceIsCode
  <2>3. QED  BY <2>1, <2>2
<1>4. start \in Nat /\ start > h  BY <1>2, <1>3
<1>5. /\ end \in Nat /\ t < end /\ end <= head[k + 2] /\ end <= Len(annexB) + 1
      /\ k + 1 < N => end <= Place(head, tail, k + 2)
  <2> HIDE DEF start
  <2>1. CASE k + 1 = N
    <3>1. CodesFrom(start) = {}  BY <1>1, <1>4, <2>1, NextCode
    <3>2. head[k + 2] = Len(annexB) + 1
      <4>1. head[N + 1] = Len(annexB) + 1  BY DEF Lies, Landmarks
      <4>2. QED  BY <1>1, <2>1, <4>1
    <3>3. end = Len(annexB) + 1
      <4> DEFINE S == {Len(annexB) + 1} \cup CodesFrom(start)
                 m == Len(annexB) + 1
      <4>1. S \in SUBSET Int /\ m \in S /\ \A y \in S : m <= y  BY <1>1, <3>1
      <4> HIDE DEF S, m
      <4>2. Min(S) = m  BY <4>1, Least
      <4>3. QED  BY <4>2 DEF S, m
    <3> HIDE DEF end
    <3>4. QED  BY <1>1, <1>2, <2>1, <3>2, <3>3
  <2>2. CASE k + 1 # N
    <3> DEFINE b == Place(head, tail, k + 2)
    <3>1. k + 1 < N /\ k + 2 \in 1..N  BY <1>1, <2>2
    <3>2. b \in 1..(Len(annexB) - 2) /\ t < b /\ b < head[k + 2]
      <4>1. b \in 1..(Len(annexB) - 2) /\ tail[(k + 2) - 1] < b /\ b < head[k + 2]  BY <3>1, PlaceIsCode
      <4>2. QED  BY <1>1, <4>1
    <3>3. start <= b
      <4> HIDE DEF b, h, t
      <4>1. QED  BY <1>1, <1>2, <1>3, <3>2
    <3>4. CodesFrom(start) # {} /\ Min(CodesFrom(start)) = b
      <4>1. start <= Place(head, tail, (k + 1) + 1)  BY <1>1, <3>3
      <4>2. CodesFrom(start) # {} /\ Min(CodesFrom(start)) = Place(head, tail, (k + 1) + 1)
        BY <1>1, <1>4, <3>1, <4>1, NextCode
      <4>3. QED  BY <1>1, <4>2
    <3> HIDE DEF b
    <3>5. CodesFrom(start) \in SUBSET Int /\ b \in CodesFrom(start) /\ \A y \in CodesFrom(start) : b <= y
      <4> DEFINE C == CodesFrom(start)
      <4>1. C \in SUBSET Nat
        <5>1. \A y \in start..(Len(annexB) - 2) : y \in Nat  BY <1>1, <1>4
        <5>2. QED  BY <5>1 DEF CodesFrom
      <4> HIDE DEF C
      <4>2. PICK m \in C : \A y \in C : m <= y  BY <3>4, <4>1, LeastNatural DEF C
      <4>3. \A y \in Nat : y \in Int  OBVIOUS
      <4>4. C \in SUBSET Int  BY <4>1, <4>3
      <4>5. Min(C) = m  BY <4>2, <4>4, Least
      <4>6. m = b  BY <3>4, <4>5 DEF C
      <4>7. QED  BY <4>2, <4>4, <4>6 DEF C
    <3>6. end = b
      <4> DEFINE S == {Len(annexB) + 1} \cup CodesFrom(start)
      <4>1. b <= Len(annexB) + 1  BY <1>1, <3>2
      <4>2. S \in SUBSET Int /\ b \in S /\ \A y \in S : b <= y  BY <1>1, <3>5, <4>1
      <4> HIDE DEF S
      <4>3. Min(S) = b  BY <4>2, Least
      <4>4. QED  BY <4>3 DEF S
    <3> HIDE DEF end
    <3> DEFINE g == head[k + 2]
               L == Len(annexB)
    <3>7. b <= b /\ b <= g /\ b <= L + 1 /\ b \in Nat
      <4>1. b \in 1..(L - 2) /\ b < g /\ g \in Nat /\ L \in Nat  BY <1>1, <1>2, <3>1, <3>2
      <4> HIDE DEF g, L
      <4>2. QED  BY <4>1
    <3>8. QED  BY <3>2, <3>6, <3>7 DEF b
  <2>3. QED  BY <2>1, <2>2
<1> DEFINE hn == head[k + 2]
           L == Len(annexB)
           c == Len(nal)
<1>11. /\ h \in Nat /\ t \in Nat /\ c \in Nat /\ c >= 1 /\ t = h + c /\ L \in Nat /\ hn \in Nat
       /\ start = h + 1 /\ end \in Nat /\ t < end /\ end <= hn /\ end <= L + 1
  BY <1>1, <1>2, <1>3, <1>5
<1> HIDE DEF start, end, h, t, hn, L, c
<1>6. sub \in Seq(Nat) /\ Len(sub) = end - start /\ \A x \in 1..(end - start) : sub[x] = annexB[h + x]
  <2>1. start \in Int /\ end - 1 \in Int /\ start <= end - 1 /\ (end - 1) - start + 1 = end - start
    BY <1>11
  <2>2. \A i \in start..(end - 1) : annexB[i] \in Nat
    <3>1. \A i \in start..(end - 1) : i \in 1..L  BY <1>11
    <3>2. annexB \in Seq(Nat)  BY DEF Lies
    <3>3. QED  BY <3>1, <3>2, ElementOfSeq DEF L
  <2> DEFINE m == end - 1
  <2>3. m \in Int /\ start <= m /\ m - start + 1 = end - start  BY <2>1
  <2>4. \A i \in start..m : annexB[i] \in Nat  BY <2>2
  <2>5. sub = SubSeq(annexB, start, m)  OBVIOUS
  <2> HIDE DEF m, sub
  <2>6. /\ sub \in Seq(Nat) /\ Len(sub) = IF start <= m THEN m - start + 1 ELSE 0
        /\ \A x \in 1..(m - start + 1) : sub[x] = annexB[start + x - 1]
    BY <2>1, <2>3, <2>4, <2>5, SubSeqProperties
  <2>7. \A x \in 1..(end - start) : start + x - 1 = h + x  BY <1>11
  <2>8. QED  BY <2>3, <2>6, <2>7
<1> HIDE DEF sub
<1>7. Trimmed(sub) = nal
  <2>1. end - start >= c /\ end - start \in Nat  BY <1>11
  <2>2. \A x \in 1..c : x \in 1..(end - start)  BY <1>11, <2>1
  <2>3. \A x \in 1..c : sub[x] = nal[x]  BY <1>2, <1>6, <2>2 DEF h, c
  <2>4. ASSUME NEW x \in (c + 1)..Len(sub) PROVE sub[x] = 0
    <3>1. x \in (c + 1)..(end - start) /\ x \in 1..(end - start)  BY <1>6, <1>11, <2>1
    <3>2. h + x \in Nat /\ t < h + x /\ h + x < hn  BY <1>11, <3>1
    <3>3. annexB[h + x] = 0  BY <1>2, <3>2 DEF t, hn, h
    <3>4. QED  BY <1>6, <3>1, <3>3
  <2>5. sub \in Seq(Nat) /\ Len(sub) >= c /\ nal \in NalUnits  BY <1>2, <1>6, <2>1
  <2> HIDE DEF nal
  <2>6. QED  BY <2>3, <2>4, <2>5, TrimmedIs DEF c
<1>8. NextNal = [nal |-> Trimmed(sub), end |-> end]  BY DEF NextNal, start, end, sub
<1>9. end > h  BY <1>11
<1>10. QED  BY <1>5, <1>7, <1>8, <1>9 DEF h

-----------------------------------------------------------------------------
(* The pictures of a fixture. *)

\* Those kept so far, after each of a sequence.
Keeps(s, S, g) ==
    \A i \in 1..Len(s) : g[i] = IF s[i] \in S THEN Append(g[i - 1], s[i]) ELSE g[i - 1]

LEMMA Kept ==
  ASSUME NEW A, NEW s \in Seq(A), NEW S
  PROVE  \E g \in [0..Len(s) -> Seq(A)] :
           g[0] = <<>> /\ g[Len(s)] = Only(s, S) /\ Keeps(s, S, g)
<1> DEFINE N == Len(s)
           V == Seq(A)
           Turn(i, v) == IF s[i] \in S THEN Append(v, s[i]) ELSE v
           step == [p \in (1..N) \X V |-> Turn(p[1], p[2])]
<1>1. N \in Nat /\ \A i \in 1..N : s[i] \in A  OBVIOUS
<1>2. <<>> \in V  OBVIOUS
<1>3. step \in [(1..N) \X V -> V]
  <2>1. \A i \in 1..N, v \in V : Turn(i, v) \in V  BY <1>1, AppendProperties
  <2> HIDE DEF Turn
  <2>2. QED  BY <2>1
<1>4. \A i \in 1..N, v \in V : step[<<i, v>>] = Turn(i, v)  OBVIOUS
<1> HIDE DEF N, V, step, Turn
<1>5. PICK g : Repeats(g, N, V, <<>>, step)  BY <1>1, <1>2, <1>3, Repeated
<1>6. g \in [0..N -> V] /\ g[0] = <<>> /\ \A i \in 1..N : g[i] = Turn(i, g[i - 1])
  <2>1. \A i \in 1..N : i - 1 \in 0..N  BY <1>1
  <2>2. QED  BY <1>4, <1>5, <2>1 DEF Repeats
<1> DEFINE kept == CHOOSE f : f = [i \in 0..N |-> IF i = 0 THEN <<>> ELSE
                                  IF s[i] \in S THEN Append(f[i - 1], s[i]) ELSE f[i - 1]]
<1>7. g = [i \in 0..N |-> IF i = 0 THEN <<>> ELSE
             IF s[i] \in S THEN Append(g[i - 1], s[i]) ELSE g[i - 1]]
  <2>1. ASSUME NEW i \in 0..N
        PROVE  g[i] = IF i = 0 THEN <<>> ELSE
                      IF s[i] \in S THEN Append(g[i - 1], s[i]) ELSE g[i - 1]
    <3>1. CASE i = 0  BY <1>6, <3>1
    <3>2. CASE i # 0
      <4>1. i \in 1..N  BY <1>1, <3>2
      <4>2. QED  BY <1>6, <3>2, <4>1 DEF Turn
    <3>3. QED  BY <3>1, <3>2
  <2>2. QED  BY <1>6, <2>1
<1>8. kept = [i \in 0..N |-> IF i = 0 THEN <<>> ELSE
                IF s[i] \in S THEN Append(kept[i - 1], s[i]) ELSE kept[i - 1]]
  BY <1>7
<1>9. Only(s, S) = kept[N]  BY DEF Only, N
<1> HIDE DEF kept
<1> DEFINE T == {i \in 0..N : kept[i] = g[i]}
<1>10. 0 \in T
  <2>1. 0 \in 0..N  BY <1>1
  <2>2. QED  BY <1>6, <1>8, <2>1
<1>11. ASSUME NEW i \in T, i < N PROVE i + 1 \in T
  <2>1. i + 1 \in 0..N /\ i + 1 \in 1..N /\ i + 1 # 0 /\ (i + 1) - 1 = i  BY <1>1, <1>11
  <2>2. kept[i + 1] = IF s[i + 1] \in S THEN Append(kept[i], s[i + 1]) ELSE kept[i]  BY <1>8, <2>1
  <2>3. g[i + 1] = IF s[i + 1] \in S THEN Append(g[i], s[i + 1]) ELSE g[i]  BY <1>6, <2>1 DEF Turn
  <2>4. kept[i] = g[i]  OBVIOUS
  <2>5. kept[i + 1] = g[i + 1]  BY <2>2, <2>3, <2>4
  <2>6. QED  BY <2>1, <2>5
<1> HIDE DEF T
<1>12. \A i \in 0..N : i \in T  BY <1>1, <1>10, <1>11, UpTo
<1>13. g[N] = Only(s, S)
  <2>1. N \in T  BY <1>1, <1>12
  <2>2. QED  BY <1>9, <2>1 DEF T
<1>14. Keeps(s, S, g)  BY <1>6 DEF Keeps, N, Turn
<1>15. QED  BY <1>6, <1>13, <1>14 DEF N, V

LEMMA OnlyOfNone ==
  ASSUME NEW S PROVE Only(<<>>, S) = <<>>
<1>1. <<>> \in Seq({}) /\ Len(<<>>) = 0  OBVIOUS
<1>2. \E g \in [0..Len(<<>>) -> Seq({})] :
        g[0] = <<>> /\ g[Len(<<>>)] = Only(<<>>, S) /\ Keeps(<<>>, S, g)
  BY <1>1, Kept
<1>3. QED  BY <1>1, <1>2

LEMMA OnlyOfMore ==
  ASSUME NEW A, NEW s \in Seq(A), NEW e \in A, NEW S
  PROVE  /\ Only(s, S) \in Seq(A)
         /\ Only(Append(s, e), S) = IF e \in S THEN Append(Only(s, S), e) ELSE Only(s, S)
<1> DEFINE N == Len(s)
           t == Append(s, e)
<1>1. /\ N \in Nat /\ t \in Seq(A) /\ Len(t) = N + 1 /\ t[N + 1] = e
      /\ \A i \in 1..N : t[i] = s[i]
  BY AppendProperties
<1>2. PICK g \in [0..N -> Seq(A)] : g[0] = <<>> /\ g[N] = Only(s, S) /\ Keeps(s, S, g)
  BY Kept
<1>3. PICK h \in [0..(N + 1) -> Seq(A)] :
        h[0] = <<>> /\ h[N + 1] = Only(t, S) /\ Keeps(t, S, h)
  <2> HIDE DEF t, N
  <2>1. \E h \in [0..Len(t) -> Seq(A)] : h[0] = <<>> /\ h[Len(t)] = Only(t, S) /\ Keeps(t, S, h)
    BY <1>1, Kept
  <2>2. QED  BY <1>1, <2>1
<1>4. \A i \in 1..N : g[i] = IF s[i] \in S THEN Append(g[i - 1], s[i]) ELSE g[i - 1]
  BY <1>2 DEF Keeps
<1>5. \A i \in 1..(N + 1) : h[i] = IF t[i] \in S THEN Append(h[i - 1], t[i]) ELSE h[i - 1]
  BY <1>1, <1>3 DEF Keeps
<1> HIDE DEF N, t
<1> DEFINE T == {i \in 0..N : h[i] = g[i]}
<1>6. 0 \in T  BY <1>1, <1>2, <1>3
<1>7. ASSUME NEW i \in T, i < N PROVE i + 1 \in T
  <2>1. i + 1 \in 0..N /\ i + 1 \in 1..N /\ i + 1 \in 1..(N + 1) /\ (i + 1) - 1 = i  BY <1>1, <1>7
  <2>2. h[i + 1] = IF t[i + 1] \in S THEN Append(h[i], t[i + 1]) ELSE h[i]  BY <1>5, <2>1
  <2>3. g[i + 1] = IF s[i + 1] \in S THEN Append(g[i], s[i + 1]) ELSE g[i]  BY <1>4, <2>1
  <2>4. h[i] = g[i] /\ t[i + 1] = s[i + 1]  BY <1>1, <2>1
  <2>5. h[i + 1] = g[i + 1]  BY <2>2, <2>3, <2>4
  <2>6. QED  BY <2>1, <2>5
<1> HIDE DEF T
<1>8. \A i \in 0..N : i \in T  BY <1>1, <1>6, <1>7, UpTo
<1>9. h[N] = g[N] /\ g[N] \in Seq(A)
  <2>1. N \in T /\ N \in 0..N  BY <1>1, <1>8
  <2>2. QED  BY <1>2, <2>1 DEF T
<1>10. h[N + 1] = IF e \in S THEN Append(h[N], e) ELSE h[N]
  <2>1. N + 1 \in 1..(N + 1) /\ (N + 1) - 1 = N  BY <1>1
  <2>2. QED  BY <1>1, <1>5, <2>1
<1>11. QED  BY <1>2, <1>3, <1>9, <1>10 DEF t

Picture == [nals : Seq(NalUnits), vcl : BOOLEAN, idr : BOOLEAN]
Fixture == [sets : Seq(NalUnits), pictures : Seq(Picture), current : Picture]

IsIdr(nal) == TypeOf(nal[1]) = Types.idr

\* One slice and no parameter set, and begun with a slice of a first picture or not.
Holds(p, slice) ==
    Coded(p.nals) = <<slice>> /\ SetsOf(p.nals) = <<>> /\ (p.idr <=> IsIdr(slice))

\* What a fixture holds after so many NAL units: a picture for every slice but
\* the one in hand, and that one if it has a slice.
Gathering(f, nals) ==
    /\ f \in Fixture /\ f.sets = SetsOf(nals)
    /\ Len(Coded(nals)) = Len(f.pictures) + (IF f.current.vcl THEN 1 ELSE 0)
    /\ \A k \in 1..Len(f.pictures) : Holds(f.pictures[k], Coded(nals)[k])
    /\ f.current.vcl => Holds(f.current, Coded(nals)[Len(Coded(nals))])
    /\ ~f.current.vcl => /\ Coded(f.current.nals) = <<>> /\ SetsOf(f.current.nals) = <<>>
                         /\ ~f.current.idr

LEMMA CodedOf ==
  ASSUME NEW nals \in Seq(NalUnits), NEW nal \in NalUnits
  PROVE  /\ Coded(<<>>) = <<>> /\ SetsOf(<<>>) = <<>>
         /\ Coded(nals) \in Seq(NalUnits) /\ SetsOf(nals) \in Seq(NalUnits)
         /\ Coded(Append(nals, nal)) = IF IsVcl(nal) THEN Append(Coded(nals), nal) ELSE Coded(nals)
         /\ SetsOf(Append(nals, nal)) = IF IsSet(nal) THEN Append(SetsOf(nals), nal) ELSE SetsOf(nals)
<1> DEFINE V == {x \in NalUnits : IsVcl(x)}
           S == {x \in NalUnits : IsSet(x)}
<1>1. (nal \in V <=> IsVcl(nal)) /\ (nal \in S <=> IsSet(nal))  OBVIOUS
<1>2. \A x : Coded(x) = Only(x, V) /\ SetsOf(x) = Only(x, S)  BY DEF Coded, SetsOf
<1> HIDE DEF V, S
<1>3. /\ Only(<<>>, V) = <<>> /\ Only(<<>>, S) = <<>>  BY OnlyOfNone
<1>4. /\ Only(nals, V) \in Seq(NalUnits)
      /\ Only(Append(nals, nal), V) = IF nal \in V THEN Append(Only(nals, V), nal) ELSE Only(nals, V)
  BY OnlyOfMore
<1>5. /\ Only(nals, S) \in Seq(NalUnits)
      /\ Only(Append(nals, nal), S) = IF nal \in S THEN Append(Only(nals, S), nal) ELSE Only(nals, S)
  BY OnlyOfMore
<1>6. QED  BY <1>1, <1>2, <1>3, <1>4, <1>5

\* A NAL unit is of one kind.
LEMMA Kinds ==
  ASSUME NEW nal
  PROVE  /\ ~(IsVcl(nal) /\ IsSet(nal)) /\ ~(IsVcl(nal) /\ IsDelimiter(nal))
         /\ ~(IsSet(nal) /\ IsDelimiter(nal)) /\ (IsIdr(nal) => IsVcl(nal))
<1>1. /\ Types.slice # Types.sps /\ Types.slice # Types.pps /\ Types.slice # Types.aud
      /\ Types.idr # Types.sps /\ Types.idr # Types.pps /\ Types.idr # Types.aud
      /\ Types.sps # Types.aud /\ Types.pps # Types.aud
  BY PictureAssumption
<1>2. QED  BY <1>1 DEF IsVcl, IsSet, IsDelimiter, IsIdr

\* Flushing ends the picture in hand, if it is one.
LEMMA FlushKeeps ==
  ASSUME NEW nals \in Seq(NalUnits), NEW f, Gathering(f, nals)
  PROVE  Gathering(Flushed(f), nals) /\ Flushed(f).current = NoPicture
<1> DEFINE g == Flushed(f)
           c == f.current
           C == Coded(nals)
<1>1. f \in Fixture /\ c \in Picture /\ f.pictures \in Seq(Picture)  BY DEF Gathering, Fixture
<1>2. C \in Seq(NalUnits) /\ Coded(<<>>) = <<>> /\ SetsOf(<<>>) = <<>>
  <2>1. CASE NalUnits = {}
    <3>1. nals = <<>>  BY <2>1
    <3>2. Coded(<<>>) = <<>> /\ SetsOf(<<>>) = <<>>  BY OnlyOfNone DEF Coded, SetsOf
    <3>3. QED  BY <3>1, <3>2
  <2>2. CASE NalUnits # {}
    <3>1. PICK nal \in NalUnits : TRUE  BY <2>2
    <3>2. QED  BY CodedOf
  <2>3. QED  BY <2>1, <2>2
<1>3. NoPicture \in Picture /\ NoPicture.nals = <<>> /\ ~NoPicture.vcl /\ ~NoPicture.idr
  BY DEF NoPicture, Picture
<1>4. /\ g.sets = f.sets /\ g.current = NoPicture
      /\ g.pictures = IF c.vcl THEN Append(f.pictures, c) ELSE f.pictures
      /\ g \in Fixture
  <2>1. Append(f.pictures, c) \in Seq(Picture)  BY <1>1, AppendProperties
  <2> DEFINE more == IF c.vcl THEN Append(f.pictures, c) ELSE f.pictures
  <2>2. more \in Seq(Picture)  BY <1>1, <2>1
  <2>3. g = [f EXCEPT !.pictures = more, !.current = NoPicture]  BY DEF Flushed
  <2> HIDE DEF more, g
  <2>4. g.sets = f.sets /\ g.current = NoPicture /\ g.pictures = more /\ g \in Fixture
    BY <1>1, <1>3, <2>2, <2>3 DEF Fixture
  <2>5. QED  BY <2>4 DEF more
<1>5. /\ f.sets = SetsOf(nals)
      /\ Len(C) = Len(f.pictures) + (IF c.vcl THEN 1 ELSE 0)
      /\ \A k \in 1..Len(f.pictures) : Holds(f.pictures[k], C[k])
      /\ c.vcl => Holds(c, C[Len(C)])
  BY DEF Gathering
<1> HIDE DEF g, c, C
<1>6. /\ Len(C) = Len(g.pictures)
      /\ \A k \in 1..Len(g.pictures) : Holds(g.pictures[k], C[k])
  <2>1. CASE c.vcl
    <3> DEFINE q == f.pictures
    <3>1. q \in Seq(Picture) /\ Len(q) \in Nat  BY <1>1, LenProperties
    <3>2. /\ Len(Append(q, c)) = Len(q) + 1 /\ Append(q, c)[Len(q) + 1] = c
          /\ \A k \in 1..Len(q) : Append(q, c)[k] = q[k]
      BY <1>1, AppendProperties
    <3>3. g.pictures = Append(q, c) /\ Len(C) = Len(q) + 1  BY <1>4, <1>5, <2>1
    <3>4. \A k \in 1..(Len(q) + 1) : k \in 1..Len(q) \/ k = Len(q) + 1  BY <3>1
    <3>5. Holds(c, C[Len(q) + 1])  BY <1>5, <2>1, <3>3
    <3>6. \A k \in 1..Len(q) : Holds(q[k], C[k])  BY <1>5
    <3> HIDE DEF q
    <3>7. \A k \in 1..(Len(q) + 1) : Holds(Append(q, c)[k], C[k])  BY <3>2, <3>4, <3>5, <3>6
    <3>8. QED  BY <3>2, <3>3, <3>7
  <2>2. CASE ~c.vcl
    <3>1. Len(f.pictures) \in Nat  BY <1>1, LenProperties
    <3>2. QED  BY <1>4, <1>5, <2>2, <3>1
  <2>3. QED  BY <2>1, <2>2
<1>7. Len(g.pictures) \in Nat  BY <1>4, LenProperties DEF Fixture
<1>8. Gathering(g, nals)
  <2>1. Len(C) = Len(g.pictures) + (IF g.current.vcl THEN 1 ELSE 0)  BY <1>3, <1>4, <1>6, <1>7
  <2>2. ~g.current.vcl /\ Coded(g.current.nals) = <<>> /\ SetsOf(g.current.nals) = <<>> /\ ~g.current.idr
    BY <1>2, <1>3, <1>4
  <2>3. QED  BY <1>4, <1>5, <1>6, <2>1, <2>2 DEF Gathering, C
<1>9. QED  BY <1>4, <1>8 DEF g

\* A NAL unit is sorted in where it belongs.
LEMMA SortKeeps ==
  ASSUME NEW nals \in Seq(NalUnits), NEW nal \in NalUnits, NEW f, Gathering(f, nals),
         IsVcl(nal) => ~f.current.vcl
  PROVE  Gathering(Sorted(f, nal), Append(nals, nal))
<1> DEFINE g == Sorted(f, nal)
           c == f.current
           C == Coded(nals)
           D == Coded(Append(nals, nal))
<1>1. f \in Fixture /\ c \in Picture /\ c.nals \in Seq(NalUnits) /\ c.vcl \in BOOLEAN /\ c.idr \in BOOLEAN
  BY DEF Gathering, Fixture, Picture
<1>2. /\ C \in Seq(NalUnits) /\ D = IF IsVcl(nal) THEN Append(C, nal) ELSE C
      /\ SetsOf(nals) \in Seq(NalUnits)
      /\ SetsOf(Append(nals, nal)) = IF IsSet(nal) THEN Append(SetsOf(nals), nal) ELSE SetsOf(nals)
  BY CodedOf
<1>3. /\ Coded(Append(c.nals, nal)) = IF IsVcl(nal) THEN Append(Coded(c.nals), nal) ELSE Coded(c.nals)
      /\ SetsOf(Append(c.nals, nal)) = IF IsSet(nal) THEN Append(SetsOf(c.nals), nal) ELSE SetsOf(c.nals)
  BY <1>1, CodedOf
<1>4. /\ ~(IsVcl(nal) /\ IsSet(nal)) /\ ~(IsVcl(nal) /\ IsDelimiter(nal))
      /\ ~(IsSet(nal) /\ IsDelimiter(nal)) /\ (IsIdr(nal) => IsVcl(nal))
  BY Kinds
<1>5. /\ f.sets = SetsOf(nals)
      /\ Len(C) = Len(f.pictures) + (IF c.vcl THEN 1 ELSE 0)
      /\ \A k \in 1..Len(f.pictures) : Holds(f.pictures[k], C[k])
      /\ c.vcl => Holds(c, C[Len(C)])
      /\ ~c.vcl => Coded(c.nals) = <<>> /\ SetsOf(c.nals) = <<>> /\ ~c.idr
  BY DEF Gathering
<1>6. Append(nals, nal) \in Seq(NalUnits)  BY AppendProperties
<1>7. CASE IsSet(nal)
  <2>1. g = [f EXCEPT !.sets = Append(f.sets, nal)]  BY <1>4, <1>7 DEF Sorted
  <2>2. Append(f.sets, nal) \in Seq(NalUnits)  BY <1>1, AppendProperties DEF Fixture
  <2> HIDE DEF g, c, C, D
  <2>3. /\ g \in Fixture /\ g.sets = Append(f.sets, nal) /\ g.pictures = f.pictures /\ g.current = f.current
    BY <1>1, <2>1, <2>2 DEF Fixture
  <2>4. ~IsVcl(nal) /\ D = C /\ SetsOf(Append(nals, nal)) = Append(SetsOf(nals), nal)
    BY <1>2, <1>4, <1>7
  <2>5. QED  BY <1>5, <2>3, <2>4 DEF Gathering, g, c, C, D
<1>8. CASE IsDelimiter(nal)
  <2>1. ~IsSet(nal) /\ ~IsVcl(nal) /\ g = f  BY <1>4, <1>8 DEF Sorted
  <2>2. D = C /\ SetsOf(Append(nals, nal)) = SetsOf(nals)  BY <1>2, <2>1
  <2> HIDE DEF g, c
  <2>3. QED  BY <1>1, <1>5, <2>1, <2>2 DEF Gathering, g, c
<1>9. CASE ~IsSet(nal) /\ ~IsDelimiter(nal)
  <2> DEFINE d == [nals |-> Append(c.nals, nal), vcl |-> c.vcl \/ IsVcl(nal), idr |-> c.idr \/ IsIdr(nal)]
  <2>1. g = [f EXCEPT !.current = d]  BY <1>9 DEF Sorted, IsIdr
  <2>2. d \in Picture
    <3>1. Append(c.nals, nal) \in Seq(NalUnits)  BY <1>1, AppendProperties
    <3>2. (c.vcl \/ IsVcl(nal)) \in BOOLEAN /\ (c.idr \/ IsIdr(nal)) \in BOOLEAN  OBVIOUS
    <3>3. QED  BY <3>1, <3>2 DEF Picture
  <2>3. /\ d.nals = Append(c.nals, nal) /\ (d.vcl <=> c.vcl \/ IsVcl(nal)) /\ (d.idr <=> c.idr \/ IsIdr(nal))
    OBVIOUS
  <2>4. SetsOf(Append(nals, nal)) = SetsOf(nals) /\ SetsOf(d.nals) = SetsOf(c.nals)  BY <1>2, <1>3, <1>9, <2>3
  <2>5. Coded(d.nals) = IF IsVcl(nal) THEN Append(Coded(c.nals), nal) ELSE Coded(c.nals)  BY <1>3, <2>3
  <2> HIDE DEF g, d
  <2>6. g \in Fixture /\ g.sets = f.sets /\ g.pictures = f.pictures /\ g.current = d
    BY <1>1, <2>1, <2>2 DEF Fixture
  <2>7. Len(f.pictures) \in Nat  BY <1>1, LenProperties DEF Fixture
  <2>8. SetsOf(c.nals) = <<>>
    <3>1. c.vcl => SetsOf(c.nals) = <<>>  BY <1>5 DEF Holds
    <3>2. QED  BY <1>1, <1>5, <3>1
  <2>9. CASE IsVcl(nal)
    <3>1. ~c.vcl /\ Coded(c.nals) = <<>> /\ ~c.idr /\ Len(C) = Len(f.pictures)
      <4>1. ~c.vcl  BY <2>9
      <4> HIDE DEF c, C
      <4>2. Coded(c.nals) = <<>> /\ ~c.idr  BY <1>5, <4>1
      <4>3. Len(C) = Len(f.pictures) + 0  BY <1>5, <4>1
      <4>4. QED  BY <2>7, <4>1, <4>2, <4>3
    <3> HIDE DEF C, D, c
    <3>2. d.vcl /\ (d.idr <=> IsIdr(nal))  BY <2>3, <2>9, <3>1
    <3>3. /\ Len(D) = Len(C) + 1 /\ D[Len(C) + 1] = nal
          /\ \A k \in 1..Len(C) : D[k] = C[k]
      BY <1>2, <2>9, AppendProperties
    <3>4. Coded(d.nals) = <<nal>>
      <4>1. Append(<<>>, nal) = <<nal>>  OBVIOUS
      <4>2. QED  BY <2>5, <2>9, <3>1, <4>1
    <3>5. Holds(d, D[Len(D)])  BY <2>4, <2>8, <3>2, <3>3, <3>4 DEF Holds
    <3>6. \A k \in 1..Len(f.pictures) : Holds(f.pictures[k], D[k])  BY <1>5, <3>1, <3>3
    <3>7. Len(D) = Len(f.pictures) + 1  BY <3>1, <3>3
    <3>8. QED  BY <1>5, <2>4, <2>6, <3>2, <3>5, <3>6, <3>7 DEF Gathering, D, g
  <2>10. CASE ~IsVcl(nal)
    <3>1. ~IsIdr(nal)  BY <1>4, <2>10
    <3> HIDE DEF C, D, c
    <3>2. (d.vcl <=> c.vcl) /\ (d.idr <=> c.idr) /\ Coded(d.nals) = Coded(c.nals) /\ D = C
      BY <1>2, <2>3, <2>5, <2>10, <3>1
    <3>3. SetsOf(d.nals) = SetsOf(c.nals)  BY <2>4
    <3>4. c.vcl => Holds(d, C[Len(C)])  BY <1>5, <3>2, <3>3 DEF Holds
    <3>5. ~c.vcl => Coded(d.nals) = <<>> /\ SetsOf(d.nals) = <<>> /\ ~d.idr  BY <1>5, <3>2, <3>3
    <3>6. Len(D) = Len(f.pictures) + (IF d.vcl THEN 1 ELSE 0)  BY <1>5, <3>2
    <3>7. QED  BY <1>5, <2>4, <2>6, <3>2, <3>4, <3>5, <3>6 DEF Gathering, D, g
  <2>11. QED  BY <2>9, <2>10
<1>10. QED  BY <1>7, <1>8, <1>9

\* A turn of the loop keeps the fixture whole.
LEMMA GatherKeeps ==
  ASSUME NEW nals \in Seq(NalUnits), NEW nal \in NalUnits, NEW f, Gathering(f, nals)
  PROVE  Gathering(Gathered(f, nal), Append(nals, nal))
<1>1. CASE StartsPicture(nal, f.current)
  <2>1. Gathering(Flushed(f), nals) /\ Flushed(f).current = NoPicture  BY FlushKeeps
  <2>2. ~Flushed(f).current.vcl  BY <2>1 DEF NoPicture
  <2>3. Gathered(f, nal) = Sorted(Flushed(f), nal)  BY <1>1 DEF Gathered
  <2> DEFINE g == Flushed(f)
  <2> HIDE DEF g
  <2>4. Gathering(g, nals) /\ ~g.current.vcl  BY <2>1, <2>2 DEF g
  <2>5. Gathering(Sorted(g, nal), Append(nals, nal))  BY <2>4, SortKeeps
  <2>6. QED  BY <2>3, <2>5 DEF g
<1>2. CASE ~StartsPicture(nal, f.current)
  <2>1. IsVcl(nal) => ~f.current.vcl  BY <1>2 DEF StartsPicture
  <2>2. Gathered(f, nal) = Sorted(f, nal)  BY <1>2 DEF Gathered
  <2>3. QED  BY <2>1, <2>2, SortKeeps
<1>3. QED  BY <1>1, <1>2

-----------------------------------------------------------------------------
(* The payloads of a NAL unit. *)

LEMMA HeaderByte ==
  ASSUME NEW r \in Nat, NEW t \in 0..(TypeSpan - 1)
  PROVE  TypeOf((r * TypeSpan) + t) = t /\ RefOf((r * TypeSpan) + t) = r /\ (r * TypeSpan) + t \in Nat
<1>1. TypeSpan \in Nat /\ TypeSpan >= 1  BY Sizes
<1> DEFINE n == TypeSpan
<1>2. n \in Nat /\ n >= 1 /\ t \in 0..(n - 1)  BY <1>1
<1> HIDE DEF n
<1>3. ((r * n) + t) % n = t /\ ((r * n) + t) \div n = r  BY <1>2
<1>4. (r * n) + t \in Nat  BY <1>2
<1>5. QED  BY <1>3, <1>4 DEF TypeOf, RefOf, n

LEMMA HeaderShared ==
  ASSUME NEW byte \in Nat
  PROVE  /\ RefOf(byte) \in Nat /\ TypeOf(byte) \in 0..(TypeSpan - 1)
         /\ (RefOf(byte) * TypeSpan) + TypeOf(byte) = byte
<1>1. TypeSpan \in Nat /\ TypeSpan >= 1  BY Sizes
<1>2. /\ byte \div TypeSpan \in Nat /\ byte % TypeSpan \in 0..(TypeSpan - 1)
      /\ ((byte \div TypeSpan) * TypeSpan) + (byte % TypeSpan) = byte
  BY <1>1, Quotient, Zenon
<1>3. QED  BY <1>2 DEF RefOf, TypeOf

Chunk == Capacity - FuHeader

\* Into how many fragments a NAL unit is cut, and how much of it has gone after
\* so many of them, the header counted.
Count(nal) == (Len(nal) - 1 + Chunk - 1) \div Chunk
Gone(nal, k) == IF k = Count(nal) THEN Len(nal) ELSE 1 + (k * Chunk)

LEMMA Chunks ==
  ASSUME NEW nal \in NalUnits, Len(nal) > Capacity
  PROVE  /\ Chunk \in Nat /\ Count(nal) \in Nat /\ Count(nal) >= 2 /\ Gone(nal, 0) = 1
         /\ \A k \in 0..Count(nal) : Gone(nal, k) \in 1..Len(nal)
         /\ \A k \in 1..Count(nal) :
              /\ Gone(nal, k - 1) = 1 + ((k - 1) * Chunk) /\ Gone(nal, k - 1) < Gone(nal, k)
              /\ Min({1 + (k * Chunk), Len(nal)}) = Gone(nal, k)
<1> DEFINE c == Chunk
           n == Count(nal)
           L == Len(nal) - 1
           a == L + c - 1
<1>1. c \in Nat /\ c >= 1 /\ c + 2 = Capacity
  BY Sizes DEF Chunk, FuHeader
<1>2. L \in Nat /\ L >= Capacity /\ Len(nal) = L + 1 /\ Capacity \in Nat
  <2>1. Len(nal) \in Nat  BY NalUnit
  <2>2. QED  BY <2>1, Sizes
<1>3. n = a \div c  BY DEF Count
<1> HIDE DEF c, n, L
<1>4. a \in Nat /\ a = L + c - 1  BY <1>1, <1>2
<1> HIDE DEF a
<1>5. n \in Nat /\ a % c \in 0..(c - 1) /\ (n * c) + (a % c) = a
  <2>1. /\ a \div c \in Nat /\ a % c \in 0..(c - 1) /\ ((a \div c) * c) + (a % c) = a
    BY <1>1, <1>4, Quotient, Zenon
  <2>2. QED  BY <1>3, <2>1
<1> DEFINE nc == n * c
           r == a % c
<1>6. nc \in Nat /\ r \in Nat /\ r < c /\ nc + r = a
  <2>1. nc \in Nat  BY <1>1, <1>5
  <2>2. QED  BY <1>1, <1>5, <2>1
<1>7. (n - 1) * c = nc - c  BY <1>1, <1>5
<1> HIDE DEF nc, r
<1>8. L <= nc /\ nc - c < L  BY <1>1, <1>2, <1>4, <1>6
<1>9. n >= 2
  <2>1. nc > c  BY <1>1, <1>2, <1>6, <1>8
  <2>2. n = 0 => nc = 0  BY <1>1 DEF nc
  <2>3. n = 1 => nc = c  BY <1>1 DEF nc
  <2>4. n # 0 /\ n # 1
    <3>1. n # 0  BY <1>1, <2>1, <2>2
    <3>2. n # 1  BY <1>1, <2>1, <2>3
    <3>3. QED  BY <3>1, <3>2
  <2>5. QED  BY <1>5, <2>4
<1>10. ASSUME NEW k \in 0..n, k # n
       PROVE  k * c \in Nat /\ k * c < L /\ k * c >= 0
  <2>1. k \in Nat /\ n - 1 \in Nat /\ k <= n - 1  BY <1>5, <1>10
  <2>2. k * c <= (n - 1) * c
    <3> DEFINE d == (n - 1) - k
    <3>1. d \in Nat /\ n - 1 = k + d  BY <1>5, <2>1
    <3> HIDE DEF d
    <3>2. (k + d) * c = (k * c) + (d * c) /\ d * c \in Nat /\ k * c \in Nat  BY <1>1, <2>1, <3>1
    <3> DEFINE x == k * c
               y == d * c
    <3>3. x \in Nat /\ y \in Nat /\ (n - 1) * c = x + y  BY <3>1, <3>2
    <3> HIDE DEF x, y
    <3>4. x <= x + y  BY <3>3
    <3>5. QED  BY <3>3, <3>4 DEF x
  <2>3. k * c \in Nat  BY <1>1, <2>1
  <2> DEFINE x == k * c
  <2> HIDE DEF x
  <2>4. x \in Nat /\ x <= nc - c  BY <1>7, <2>2, <2>3 DEF x
  <2>5. x < L /\ x >= 0  BY <1>1, <1>2, <1>6, <1>8, <2>4
  <2>6. QED  BY <2>4, <2>5 DEF x
<1>11. \A k \in 0..n : Gone(nal, k) = IF k = n THEN L + 1 ELSE 1 + (k * c)
  BY <1>2 DEF Gone, n, c
<1>12. Gone(nal, 0) = 1
  <2>1. 0 \in 0..n /\ 0 # n /\ 0 * c = 0  BY <1>1, <1>5, <1>9
  <2>2. QED  BY <1>11, <2>1
<1>13. ASSUME NEW k \in 0..n PROVE Gone(nal, k) \in 1..(L + 1)
  <2>1. CASE k = n  BY <1>2, <1>11, <2>1
  <2>2. CASE k # n
    <3> DEFINE x == k * c
    <3>1. x \in Nat /\ x < L  BY <1>10, <2>2
    <3>2. Gone(nal, k) = 1 + x  BY <1>11, <2>2
    <3> HIDE DEF x
    <3>3. QED  BY <1>2, <3>1, <3>2
  <2>3. QED  BY <2>1, <2>2
<1>14. ASSUME NEW k \in 1..n
       PROVE  /\ Gone(nal, k - 1) = 1 + ((k - 1) * c) /\ Gone(nal, k - 1) < Gone(nal, k)
              /\ Min({1 + (k * c), L + 1}) = Gone(nal, k)
  <2>1. k - 1 \in 0..n /\ k - 1 # n /\ k \in 0..n /\ k \in Nat /\ k - 1 \in Nat  BY <1>5
  <2>2. Gone(nal, k - 1) = 1 + ((k - 1) * c)  BY <1>11, <2>1
  <2> DEFINE x == (k - 1) * c
             y == k * c
  <2>3. y = x + c  BY <1>1, <2>1
  <2>4. x \in Nat /\ x < L  BY <1>10, <2>1
  <2>5. Gone(nal, k) = IF k = n THEN L + 1 ELSE 1 + y  BY <1>11, <2>1
  <2>6. k = n => L <= y  BY <1>8 DEF nc
  <2>7. k # n => y < L  BY <1>10, <2>1
  <2>8. Gone(nal, k - 1) = 1 + x  BY <2>2
  <2> HIDE DEF x, y
  <2>9. y \in Nat  BY <1>1, <2>3, <2>4
  <2>10. Gone(nal, k - 1) < Gone(nal, k)
    <3>1. CASE k = n  BY <1>2, <2>4, <2>5, <2>8, <3>1
    <3>2. CASE k # n  BY <1>1, <2>3, <2>4, <2>5, <2>8, <3>2
    <3>3. QED  BY <3>1, <3>2
  <2>11. Min({1 + y, L + 1}) = Gone(nal, k)
    <3> DEFINE S == {1 + y, L + 1}
               m == Gone(nal, k)
    <3>1. S \in SUBSET Int  BY <1>2, <2>9
    <3>2. m \in S /\ \A z \in S : m <= z
      <4>1. CASE k = n  BY <1>2, <2>5, <2>6, <2>9, <4>1
      <4>2. CASE k # n  BY <1>2, <2>5, <2>7, <2>9, <4>2
      <4>3. QED  BY <4>1, <4>2
    <3> HIDE DEF S, m
    <3>3. Min(S) = m  BY <3>1, <3>2, Least
    <3>4. QED  BY <3>3 DEF S, m
  <2>12. QED  BY <2>2, <2>10, <2>11 DEF y
<1>15. Chunk \in Nat /\ Count(nal) \in Nat /\ Count(nal) >= 2  BY <1>1, <1>5, <1>9 DEF c, n
<1>16. QED  BY <1>2, <1>12, <1>13, <1>14, <1>15 DEF c, n

\* What a fragment shows of the NAL unit: its header, in two parts, and a part of it.
Shows(b, nal, first, last, chunk) ==
    /\ b \in Seq(Nat) /\ Len(b) >= 2
    /\ TypeOf(b[1]) = Types.fu /\ RefOf(b[1]) = RefOf(nal[1]) /\ TypeOf(b[2]) = TypeOf(nal[1])
    /\ (IsFirst(b[2]) <=> first) /\ (IsLast(b[2]) <=> last)
    /\ SubSeq(b, 3, Len(b)) = chunk

LEMMA FragmentShows ==
  ASSUME NEW nal \in NalUnits, NEW chunk \in Seq(Nat), NEW first \in BOOLEAN, NEW last \in BOOLEAN,
         ~(first /\ last)
  PROVE  Shows(Fragment(nal, chunk, first, last), nal, first, last, chunk)
<1> DEFINE m == (IF first THEN FirstMark ELSE 0) + (IF last THEN LastMark ELSE 0)
           r == RefOf(nal[1])
           t == TypeOf(nal[1])
           one == (r * TypeSpan) + Types.fu
           two == (m * TypeSpan) + t
           b == <<one, two>> \o chunk
<1>1. m \in Nat /\ (m \in {4, 5, 6, 7} <=> first) /\ (m \in {2, 3, 6, 7} <=> last)
  BY DEF FirstMark, LastMark
<1>2. r \in Nat /\ t \in 0..(TypeSpan - 1)
  <2>1. nal[1] \in Nat  BY NalUnit
  <2>2. QED  BY <2>1, HeaderShared
<1>3. Types.fu \in 0..(TypeSpan - 1)  BY PictureAssumption
<1>4. Fragment(nal, chunk, first, last) = b  BY DEF Fragment
<1> HIDE DEF m, r, t
<1>5. TypeOf(one) = Types.fu /\ RefOf(one) = r /\ one \in Nat  BY <1>2, <1>3, HeaderByte
<1>6. TypeOf(two) = t /\ RefOf(two) = m /\ two \in Nat  BY <1>1, <1>2, HeaderByte
<1>7. (IsFirst(two) <=> first) /\ (IsLast(two) <=> last)  BY <1>1, <1>6 DEF IsFirst, IsLast
<1> HIDE DEF one, two
<1>8. b \in Seq(Nat) /\ Len(b) = 2 + Len(chunk) /\ b[1] = one /\ b[2] = two
  <2> DEFINE hd == <<one, two>>
  <2>1. hd \in Seq(Nat) /\ Len(hd) = 2 /\ hd[1] = one /\ hd[2] = two  BY <1>5, <1>6
  <2>2. Len(chunk) \in Nat  BY LenProperties
  <2> HIDE DEF hd
  <2>3. /\ hd \o chunk \in Seq(Nat) /\ Len(hd \o chunk) = Len(hd) + Len(chunk)
        /\ \A x \in 1..(Len(hd) + Len(chunk)) :
             (hd \o chunk)[x] = IF x <= Len(hd) THEN hd[x] ELSE chunk[x - Len(hd)]
    BY <2>1, ConcatProperties
  <2>4. 1 \in 1..(2 + Len(chunk)) /\ 2 \in 1..(2 + Len(chunk))  BY <2>2
  <2>5. QED  BY <2>1, <2>3, <2>4 DEF hd
<1>9. SubSeq(b, 3, Len(b)) = chunk
  <2> DEFINE n == Len(chunk)
             s == SubSeq(b, 3, 2 + n)
  <2>1. n \in Nat  BY LenProperties
  <2>2. \A x \in 1..n : b[2 + x] = chunk[x]
    <3> DEFINE hd == <<one, two>>
    <3>1. hd \in Seq(Nat) /\ Len(hd) = 2  BY <1>5, <1>6
    <3> HIDE DEF hd
    <3>2. \A x \in 1..(Len(hd) + Len(chunk)) :
             (hd \o chunk)[x] = IF x <= Len(hd) THEN hd[x] ELSE chunk[x - Len(hd)]
      BY <3>1, ConcatProperties
    <3> HIDE DEF n
    <3>3. ASSUME NEW x \in 1..n PROVE 2 + x \in 1..(2 + n) /\ ~(2 + x <= 2) /\ (2 + x) - 2 = x
      BY <2>1
    <3>4. \A x \in 1..n : (hd \o chunk)[2 + x] = chunk[x]  BY <3>1, <3>2, <3>3 DEF n
    <3>5. QED  BY <3>4 DEF hd, n
  <2>3. b \in Seq(Nat) /\ Len(b) = 2 + n  BY <1>8
  <2> HIDE DEF b
  <2>4. \A x \in 3..(2 + n) : b[x] \in Nat
    <3>1. \A x \in 3..(2 + n) : x \in 1..Len(b)  BY <2>1, <2>3
    <3>2. QED  BY <2>3, <3>1, ElementOfSeq
  <2>5. /\ s \in Seq(Nat)
        /\ Len(s) = n
        /\ \A x \in 1..n : s[x] = b[2 + x]
    <3> HIDE DEF n
    <3>1. 3 \in Int /\ 2 + n \in Int /\ 3 <= (2 + n) + 1 /\ (2 + n) - 3 + 1 = n  BY <2>1
    <3> DEFINE z == 2 + n
    <3>2. /\ SubSeq(b, 3, z) \in Seq(Nat)
          /\ Len(SubSeq(b, 3, z)) = IF 3 <= z THEN z - 3 + 1 ELSE 0
          /\ \A x \in 1..(z - 3 + 1) : SubSeq(b, 3, z)[x] = b[3 + x - 1]
      <4>1. z \in Int /\ 3 \in Int /\ \A x \in 3..z : b[x] \in Nat  BY <2>4, <3>1
      <4> HIDE DEF z
      <4>2. QED  BY <4>1, SubSeqProperties
    <3>3. (IF 3 <= z THEN z - 3 + 1 ELSE 0) = n /\ z - 3 + 1 = n  BY <2>1
    <3>4. \A x \in 1..n : 3 + x - 1 = 2 + x  BY <2>1
    <3>5. QED  BY <3>2, <3>3, <3>4
  <2> HIDE DEF s, n
  <2>6. s = chunk
    <3>1. Len(s) = Len(chunk) /\ \A x \in 1..Len(s) : s[x] = chunk[x]  BY <2>2, <2>5 DEF n
    <3>2. QED  BY <2>5, <3>1, SeqEqual
  <2>7. QED  BY <2>3, <2>6 DEF s
<1>10. Len(chunk) \in Nat  BY LenProperties
<1>11. Len(b) >= 2  BY <1>8, <1>10
<1> HIDE DEF b
<1>12. Shows(b, nal, first, last, chunk)  BY <1>5, <1>6, <1>7, <1>8, <1>9, <1>11 DEF Shows, r, t
<1>13. QED  BY <1>4, <1>12

\* How a NAL unit is cut.
LEMMA CutIs ==
  ASSUME NEW nal \in NalUnits
  PROVE  /\ Cut(nal) \in Seq(Seq(Nat)) /\ Len(Cut(nal)) \in Nat /\ Len(Cut(nal)) >= 1
         /\ Len(nal) <= Capacity => Cut(nal) = <<nal>> /\ Len(Cut(nal)) = 1
         /\ Len(nal) > Capacity =>
              /\ Len(Cut(nal)) = Count(nal)
              /\ \A k \in 1..Count(nal) :
                   Shows(Cut(nal)[k], nal, k = 1, k = Count(nal),
                         SubSeq(nal, Gone(nal, k - 1) + 1, Gone(nal, k)))
<1>1. nal \in Seq(Nat) /\ Len(nal) \in Nat /\ Capacity \in Nat  BY NalUnit, Sizes
<1>2. CASE Len(nal) <= Capacity
  <2>1. Cut(nal) = <<nal>>  BY <1>2 DEF Cut
  <2>2. <<nal>> \in Seq(Seq(Nat)) /\ Len(<<nal>>) = 1  BY <1>1
  <2>3. QED  BY <1>1, <1>2, <2>1, <2>2
<1>3. CASE Len(nal) > Capacity
  <2> DEFINE n == Count(nal)
             piece(k) == SubSeq(nal, 2 + (k - 1) * Chunk, Min({1 + k * Chunk, Len(nal)}))
             f == [k \in 1..n |-> Fragment(nal, piece(k), k = 1, k = n)]
  <2>1. ~(Len(nal) <= Capacity)  BY <1>1, <1>3
  <2>2. Cut(nal) = f  BY <2>1 DEF Cut, Count, Chunk
  <2>3. /\ Chunk \in Nat /\ n \in Nat /\ n >= 2
        /\ \A k \in 0..n : Gone(nal, k) \in 1..Len(nal)
        /\ \A k \in 1..n :
              /\ Gone(nal, k - 1) = 1 + ((k - 1) * Chunk)
              /\ Min({1 + (k * Chunk), Len(nal)}) = Gone(nal, k)
    BY <1>3, Chunks
  <2> HIDE DEF n
  <2>4. ASSUME NEW k \in 1..n
        PROVE  /\ piece(k) = SubSeq(nal, Gone(nal, k - 1) + 1, Gone(nal, k)) /\ piece(k) \in Seq(Nat)
               /\ ~(k = 1 /\ k = n)
    <3>1. Gone(nal, k - 1) = 1 + ((k - 1) * Chunk) /\ Min({1 + (k * Chunk), Len(nal)}) = Gone(nal, k)
      BY <2>3
    <3>2. (k - 1) * Chunk \in Int  BY <2>3
    <3>3. 2 + (k - 1) * Chunk = Gone(nal, k - 1) + 1  BY <3>1, <3>2
    <3>4. piece(k) = SubSeq(nal, Gone(nal, k - 1) + 1, Gone(nal, k))  BY <3>1, <3>3
    <3>5. k \in 0..n /\ k - 1 \in 0..n /\ ~(k = 1 /\ k = n)  BY <2>3
    <3> DEFINE u == Gone(nal, k - 1) + 1
               v == Gone(nal, k)
    <3>6. u \in Nat /\ u >= 1 /\ v \in Nat /\ v <= Len(nal)
      <4>1. Gone(nal, k - 1) \in 1..Len(nal) /\ Gone(nal, k) \in 1..Len(nal)  BY <2>3, <3>5
      <4>2. QED  BY <4>1
    <3> HIDE DEF u, v
    <3>7. \A x \in u..v : nal[x] \in Nat
      <4>1. \A x \in u..v : x \in 1..Len(nal)  BY <1>1, <3>6
      <4>2. QED  BY <1>1, <4>1, ElementOfSeq
    <3>8. SubSeq(nal, u, v) \in Seq(Nat)  BY <3>6, <3>7, SubSeqProperties
    <3>9. QED  BY <3>4, <3>5, <3>8 DEF u, v
  <2>5. ASSUME NEW k \in 1..n
        PROVE  Shows(f[k], nal, k = 1, k = n, SubSeq(nal, Gone(nal, k - 1) + 1, Gone(nal, k)))
    <3>1. piece(k) = SubSeq(nal, Gone(nal, k - 1) + 1, Gone(nal, k)) /\ piece(k) \in Seq(Nat)
          /\ ~(k = 1 /\ k = n)
      BY <2>4
    <3>2. f[k] = Fragment(nal, piece(k), k = 1, k = n)  OBVIOUS
    <3> DEFINE q == piece(k)
               first == (k = 1)
               last == (k = n)
    <3>3. q \in Seq(Nat) /\ first \in BOOLEAN /\ last \in BOOLEAN /\ ~(first /\ last)  BY <3>1
    <3> HIDE DEF q, first, last
    <3>4. Shows(Fragment(nal, q, first, last), nal, first, last, q)  BY <3>3, FragmentShows
    <3>5. QED  BY <3>1, <3>2, <3>4 DEF q, first, last
  <2>6. \A k \in 1..n : f[k] \in Seq(Nat)  BY <2>5 DEF Shows
  <2>7. f \in Seq(Seq(Nat)) /\ Len(f) = n
    <3> DEFINE g == [k \in 1..n |-> f[k]]
    <3>1. f = g  OBVIOUS
    <3>2. f \in [1..n -> Seq(Nat)]  BY <2>6
    <3> HIDE DEF f
    <3>3. f \in Seq(Seq(Nat)) /\ Len(f) = n
      <4>1. f \in Seq(Seq(Nat))  BY <2>3, <3>2
      <4>2. DOMAIN f = 1..n  BY <3>2
      <4>3. Len(f) = n  BY <2>3, <4>1, <4>2, LenProperties
      <4>4. QED  BY <4>1, <4>3
    <3>4. QED  BY <3>3
  <2> HIDE DEF f
  <2>8. QED  BY <2>1, <2>2, <2>3, <2>5, <2>7 DEF n
<1>4. QED  BY <1>1, <1>2, <1>3

-----------------------------------------------------------------------------
(* The assembler. *)

Rebuilt == [data : Seq(Nat), open : Nat, idr : BOOLEAN, damaged : BOOLEAN]

\* AVCC data up to a NAL unit, and whether one to begin with is among them.
Upto(nals, i) == Flat(AvccPieces(nals), i)
Begun(nals, i) == \E u \in 1..i : IsIdr(nals[u])

\* The first so many NAL units are in the buffer and none is open in it.
Between(r, nals, i) ==
    /\ r \in Rebuilt /\ ~r.damaged /\ r.open = Closed
    /\ r.data = Upto(nals, i) /\ (r.idr <=> Begun(nals, i))

\* One is open, and so many fragments of it have been taken in.
Within(r, nals, i, j) ==
    /\ r \in Rebuilt /\ ~r.damaged /\ r.open = Len(Upto(nals, i - 1)) + 1
    /\ r.data = Upto(nals, i - 1) \o (Zeros(LengthSize) \o SubSeq(nals[i], 1, Gone(nals[i], j)))
    /\ (r.idr <=> Begun(nals, i))

LEMMA UptoIs ==
  ASSUME NEW nals \in Seq(NalUnits)
  PROVE  /\ Upto(nals, 0) = <<>> /\ Upto(nals, Len(nals)) = ToAvcc(nals)
         /\ \A i \in 0..Len(nals) : Upto(nals, i) \in Seq(Nat)
         /\ \A i \in 1..Len(nals) : Upto(nals, i) = Upto(nals, i - 1) \o AvccPiece(nals[i])
<1> DEFINE P == AvccPieces(nals)
<1>1. /\ P \in Seq(Seq(Nat)) /\ Len(P) = Len(nals)
      /\ \A i \in 1..Len(nals) : P[i] = AvccPiece(nals[i])
      /\ ToAvcc(nals) = FlattenSeq(P)
  BY AvccLies
<1> HIDE DEF P
<1>2. /\ Flat(P, 0) = <<>> /\ Flat(P, Len(P)) = FlattenSeq(P)
      /\ \A i \in 0..Len(P) : Flat(P, i) \in Seq(Nat)
      /\ \A i \in 1..Len(P) : Flat(P, i) = Flat(P, i - 1) \o P[i]
  BY <1>1, Flats
<1>3. \A i : Upto(nals, i) = Flat(P, i)  BY DEF Upto, P
<1>4. QED  BY <1>1, <1>2, <1>3

\* One more of them begins with a slice of a first picture, or those before do.
LEMMA BegunWith ==
  ASSUME NEW nals, NEW i \in Nat, i >= 1
  PROVE  Begun(nals, i) <=> Begun(nals, i - 1) \/ IsIdr(nals[i])
<1>1. \A u : u \in 1..i <=> u \in 1..(i - 1) \/ u = i  OBVIOUS
<1>2. QED  BY <1>1 DEF Begun

LEMMA Associates ==
  ASSUME NEW s \in Seq(Nat), NEW t \in Seq(Nat), NEW u \in Seq(Nat)
  PROVE  (s \o t) \o u = s \o (t \o u)
<1> DEFINE p == s \o t
           q == t \o u
           a == Len(s)
           b == Len(t)
           c == Len(u)
<1>1. a \in Nat /\ b \in Nat /\ c \in Nat  BY LenProperties
<1>2. /\ p \in Seq(Nat) /\ Len(p) = a + b
      /\ \A x \in 1..(a + b) : p[x] = IF x <= a THEN s[x] ELSE t[x - a]
  BY ConcatProperties
<1>3. /\ q \in Seq(Nat) /\ Len(q) = b + c
      /\ \A x \in 1..(b + c) : q[x] = IF x <= b THEN t[x] ELSE u[x - b]
  BY ConcatProperties
<1> HIDE DEF p, q
<1>4. /\ p \o u \in Seq(Nat) /\ Len(p \o u) = Len(p) + c
      /\ \A x \in 1..(Len(p) + c) : (p \o u)[x] = IF x <= Len(p) THEN p[x] ELSE u[x - Len(p)]
  <2>1. p \in Seq(Nat)  BY <1>2
  <2>2. QED  BY <2>1, ConcatProperties
<1>5. /\ s \o q \in Seq(Nat) /\ Len(s \o q) = a + Len(q)
      /\ \A x \in 1..(a + Len(q)) : (s \o q)[x] = IF x <= a THEN s[x] ELSE q[x - a]
  <2>1. q \in Seq(Nat)  BY <1>3
  <2>2. QED  BY <2>1, ConcatProperties
<1> DEFINE f == p \o u
           g == s \o q
           n == (a + b) + c
<1>6. /\ f \in Seq(Nat) /\ Len(f) = n
      /\ \A x \in 1..n : f[x] = IF x <= a + b THEN p[x] ELSE u[x - (a + b)]
  BY <1>2, <1>4
<1>7. /\ g \in Seq(Nat) /\ Len(g) = n
      /\ \A x \in 1..n : g[x] = IF x <= a THEN s[x] ELSE q[x - a]
  <2>1. a + Len(q) = n  BY <1>1, <1>3
  <2>2. QED  BY <1>5, <2>1
<1> HIDE DEF f, g, a, b, c
<1>8. ASSUME NEW x \in 1..n PROVE f[x] = g[x]
  <2>1. CASE x <= a
    <3>1. x <= a + b /\ x \in 1..(a + b)  BY <1>1, <2>1
    <3>2. QED  BY <1>2, <1>6, <1>7, <2>1, <3>1
  <2>2. CASE x > a /\ x <= a + b
    <3>1. x \in 1..(a + b) /\ ~(x <= a) /\ x - a \in 1..(b + c) /\ x - a <= b  BY <1>1, <2>2
    <3>2. f[x] = t[x - a]  BY <1>2, <1>6, <2>2, <3>1
    <3>3. g[x] = t[x - a]  BY <1>3, <1>7, <3>1
    <3>4. QED  BY <3>2, <3>3
  <2>3. CASE x > a + b
    <3>1. ~(x <= a + b) /\ ~(x <= a) /\ x - a \in 1..(b + c) /\ ~(x - a <= b) /\ x - (a + b) = (x - a) - b
      BY <1>1, <2>3
    <3>2. f[x] = u[(x - a) - b]  BY <1>6, <3>1
    <3>3. g[x] = u[(x - a) - b]  BY <1>3, <1>7, <3>1
    <3>4. QED  BY <3>2, <3>3
  <2>4. x <= a \/ (x > a /\ x <= a + b) \/ x > a + b  BY <1>1
  <2>5. QED  BY <2>1, <2>2, <2>3, <2>4
<1> HIDE DEF n
<1>9. f = g  BY <1>6, <1>7, <1>8, SeqEqual
<1>10. QED  BY <1>9 DEF f, g, p, q

\* A NAL unit that is a payload.
LEMMA WholeTakes ==
  ASSUME NEW nals \in Seq(NalUnits), NEW i \in 1..Len(nals), NEW r, Between(r, nals, i - 1)
  PROVE  Between(Whole(r, nals[i]), nals, i)
<1> DEFINE nal == nals[i]
           p == Prefix(Len(nal))
           d == Upto(nals, i - 1)
           w == Whole(r, nal)
<1>1. i \in Nat /\ i >= 1 /\ i - 1 \in 0..Len(nals) /\ nal \in NalUnits  OBVIOUS
<1>2. nal \in Seq(Nat) /\ p \in Seq(Nat) /\ d \in Seq(Nat)  BY <1>1, NalUnit, PrefixTyped, UptoIs
<1>3. Upto(nals, i) = d \o (p \o nal)  BY UptoIs DEF AvccPiece
<1>4. r \in Rebuilt /\ ~r.damaged /\ r.open = Closed /\ r.data = d /\ (r.idr <=> Begun(nals, i - 1))
  BY DEF Between
<1>5. w = [r EXCEPT !.data = (d \o p) \o nal, !.idr = r.idr \/ IsIdr(nal)]
  BY <1>4 DEF Whole, Abandoned, IsIdr
<1>6. Begun(nals, i) <=> Begun(nals, i - 1) \/ IsIdr(nal)  BY <1>1, BegunWith
<1> HIDE DEF nal, p, d, w
<1>7. (d \o p) \o nal = d \o (p \o nal) /\ (d \o p) \o nal \in Seq(Nat)
  <2>1. (d \o p) \o nal = d \o (p \o nal)  BY <1>2, Associates
  <2>2. d \o p \in Seq(Nat)  BY <1>2, ConcatProperties
  <2>3. (d \o p) \o nal \in Seq(Nat)  BY <1>2, <2>2, ConcatProperties
  <2>4. QED  BY <2>1, <2>3
<1> DEFINE e == (d \o p) \o nal
           f == r.idr \/ IsIdr(nal)
<1>8. e \in Seq(Nat) /\ f \in BOOLEAN /\ w = [r EXCEPT !.data = e, !.idr = f]  BY <1>5, <1>7
<1>9. e = Upto(nals, i) /\ (f <=> Begun(nals, i))  BY <1>3, <1>4, <1>6, <1>7
<1> HIDE DEF e, f
<1>10. w \in Rebuilt /\ w.damaged = r.damaged /\ w.open = r.open /\ w.data = e /\ w.idr = f
  BY <1>4, <1>8 DEF Rebuilt
<1>11. Between(w, nals, i)  BY <1>4, <1>9, <1>10 DEF Between
<1>12. QED  BY <1>11 DEF w, nal

\* The first fragment of one.
LEMMA OpeningTakes ==
  ASSUME NEW nals \in Seq(NalUnits), NEW i \in 1..Len(nals), NEW r, Between(r, nals, i - 1),
         Len(nals[i]) > Capacity, NEW last, NEW b,
         Shows(b, nals[i], TRUE, last, SubSeq(nals[i], Gone(nals[i], 0) + 1, Gone(nals[i], 1)))
  PROVE  Within(Opening(r, b), nals, i, 1)
<1> DEFINE nal == nals[i]
           z == Zeros(LengthSize)
           d == Upto(nals, i - 1)
           w == Opening(r, b)
           g == Gone(nal, 1)
           h == nal[1]
           part == SubSeq(nal, 2, g)
<1>1. i \in Nat /\ i >= 1 /\ i - 1 \in 0..Len(nals) /\ nal \in NalUnits  OBVIOUS
<1>2. nal \in Seq(Nat) /\ z \in Seq(Nat) /\ d \in Seq(Nat) /\ Len(nal) \in Nat /\ Len(nal) >= 1 /\ h \in Nat
  <2>1. nal \in Seq(Nat) /\ Len(nal) \in Nat /\ Len(nal) >= 1 /\ h \in Nat  BY <1>1, NalUnit
  <2>2. z \in Seq(Nat) /\ d \in Seq(Nat)  BY <1>1, UptoIs, ZerosAre, Sizes
  <2>3. QED  BY <2>1, <2>2
<1>3. r \in Rebuilt /\ ~r.damaged /\ r.open = Closed /\ r.data = d /\ (r.idr <=> Begun(nals, i - 1))
  BY DEF Between
<1>4. g \in 1..Len(nal) /\ Gone(nal, 0) = 1
  <2>1. Count(nal) \in Nat /\ Count(nal) >= 2 /\ \A k \in 0..Count(nal) : Gone(nal, k) \in 1..Len(nal)
    BY <1>1, Chunks
  <2>2. 1 \in 0..Count(nal)  BY <2>1
  <2>3. QED  BY <1>1, <2>1, <2>2, Chunks
<1>5. /\ (RefOf(b[1]) * TypeSpan) + TypeOf(b[2]) = h /\ TypeOf(b[2]) = TypeOf(h)
      /\ SubSeq(b, 3, Len(b)) = part
  <2>1. RefOf(b[1]) = RefOf(h) /\ TypeOf(b[2]) = TypeOf(h)  BY DEF Shows
  <2>2. SubSeq(b, 3, Len(b)) = part
    <3>1. SubSeq(b, 3, Len(b)) = SubSeq(nal, Gone(nal, 0) + 1, g)  BY DEF Shows
    <3>2. Gone(nal, 0) + 1 = 2  BY <1>4
    <3>3. QED  BY <3>1, <3>2
  <2>3. (RefOf(h) * TypeSpan) + TypeOf(h) = h  BY <1>2, HeaderShared
  <2>4. QED  BY <2>1, <2>2, <2>3
<1>6. w = [r EXCEPT !.open = Len(d) + 1, !.data = ((d \o z) \o <<h>>) \o part, !.idr = r.idr \/ IsIdr(nal)]
  <2>1. Abandoned(r) = r  BY <1>3 DEF Abandoned
  <2>2. r.data = d  BY <1>3
  <2>3. w = [r EXCEPT !.open = Len(r.data) + 1,
                      !.data = ((r.data \o z) \o <<h>>) \o part, !.idr = r.idr \/ IsIdr(nal)]
    BY <1>5, <2>1 DEF Opening, IsIdr
  <2>4. QED  BY <2>2, <2>3
<1>7. Begun(nals, i) <=> Begun(nals, i - 1) \/ IsIdr(nal)  BY <1>1, BegunWith
<1> HIDE DEF nal, z, d, w, g, h
<1>8. <<h>> \o part = SubSeq(nal, 1, g) /\ part \in Seq(Nat) /\ <<h>> \in Seq(Nat)
  <2>1. 1 \in 1..Len(nal) /\ g \in 1..Len(nal)  BY <1>2, <1>4
  <2>2. SubSeq(nal, 1, g) = <<nal[1]>> \o SubSeq(nal, 1 + 1, g)  BY <1>2, <2>1, SubSeqRecursiveFirst
  <2>3. part \in Seq(Nat)
    <3>1. \A x \in 2..g : x \in 1..Len(nal)  BY <1>2, <1>4
    <3>2. \A x \in 2..g : nal[x] \in Nat  BY <1>2, <3>1, ElementOfSeq
    <3>3. 2 \in Int /\ g \in Int  BY <1>4
    <3>4. QED  BY <3>2, <3>3, SubSeqProperties
  <2>4. 1 + 1 = 2  OBVIOUS
  <2>5. <<h>> \o part = SubSeq(nal, 1, g)  BY <2>2, <2>4 DEF h
  <2>6. <<h>> \in Seq(Nat)  BY <1>2
  <2>7. QED  BY <2>3, <2>5, <2>6
<1> HIDE DEF part
<1>9. ((d \o z) \o <<h>>) \o part = d \o (z \o (<<h>> \o part)) /\ ((d \o z) \o <<h>>) \o part \in Seq(Nat)
  <2> DEFINE dz == d \o z
             hp == <<h>> \o part
             o == <<h>>
  <2>1. dz \in Seq(Nat) /\ o \in Seq(Nat) /\ hp \in Seq(Nat) /\ part \in Seq(Nat)
    <3>1. dz \in Seq(Nat)  BY <1>2, ConcatProperties
    <3>2. hp \in Seq(Nat)  BY <1>8, ConcatProperties
    <3>3. QED  BY <1>8, <3>1, <3>2
  <2>2. dz \o hp = d \o (z \o hp)
    <3> HIDE DEF hp
    <3>1. d \in Seq(Nat) /\ z \in Seq(Nat) /\ hp \in Seq(Nat)  BY <1>2, <2>1
    <3>2. (d \o z) \o hp = d \o (z \o hp)  BY <3>1, Associates
    <3>3. QED  BY <3>2
  <2>3. (dz \o o) \o part = dz \o (o \o part) /\ (dz \o o) \o part \in Seq(Nat)
    <3> HIDE DEF dz, o, hp
    <3>1. (dz \o o) \o part = dz \o (o \o part)  BY <2>1, Associates
    <3>2. dz \o o \in Seq(Nat)  BY <2>1, ConcatProperties
    <3>3. (dz \o o) \o part \in Seq(Nat)  BY <2>1, <3>2, ConcatProperties
    <3>4. QED  BY <3>1, <3>3
  <2>4. QED  BY <2>2, <2>3
<1> DEFINE e == ((d \o z) \o <<h>>) \o part
           f == r.idr \/ IsIdr(nal)
           o == Len(d) + 1
<1>10. e \in Seq(Nat) /\ f \in BOOLEAN /\ o \in Nat /\ w = [r EXCEPT !.open = o, !.data = e, !.idr = f]
  <2>1. Len(d) \in Nat  BY <1>2, LenProperties
  <2>2. QED  BY <1>6, <1>9, <2>1
<1>11. e = d \o (z \o SubSeq(nal, 1, g)) /\ (f <=> Begun(nals, i))  BY <1>3, <1>7, <1>8, <1>9
<1> HIDE DEF e, f, o
<1>12. w \in Rebuilt /\ w.damaged = r.damaged /\ w.open = o /\ w.data = e /\ w.idr = f
  BY <1>3, <1>10 DEF Rebuilt
<1>13. Within(w, nals, i, 1)  BY <1>3, <1>11, <1>12 DEF Within, o, d, z, nal, g
<1>14. QED  BY <1>13 DEF w

\* What the buffer holds with another fragment in it.
LEMMA Longer ==
  ASSUME NEW nals \in Seq(NalUnits), NEW i \in 1..Len(nals), Len(nals[i]) > Capacity,
         NEW j \in Nat, j >= 1, j < Count(nals[i])
  PROVE  LET d == Upto(nals, i - 1)
             z == Zeros(LengthSize)
             nal == nals[i]
         IN  /\ nal \in Seq(Nat) /\ d \in Seq(Nat) /\ z \in Seq(Nat)
             /\ (d \o (z \o SubSeq(nal, 1, Gone(nal, j)))) \o SubSeq(nal, Gone(nal, j) + 1, Gone(nal, j + 1))
                  = d \o (z \o SubSeq(nal, 1, Gone(nal, j + 1)))
             /\ d \o (z \o SubSeq(nal, 1, Gone(nal, j + 1))) \in Seq(Nat)
<1> DEFINE d == Upto(nals, i - 1)
           z == Zeros(LengthSize)
           nal == nals[i]
           g == Gone(nal, j)
           h == Gone(nal, j + 1)
           a == SubSeq(nal, 1, g)
           b == SubSeq(nal, g + 1, h)
           c == SubSeq(nal, 1, h)
<1>1. i - 1 \in 0..Len(nals) /\ nal \in NalUnits  OBVIOUS
<1>2. nal \in Seq(Nat) /\ Len(nal) \in Nat  BY <1>1, NalUnit
<1>3. d \in Seq(Nat) /\ z \in Seq(Nat)  BY <1>1, UptoIs, ZerosAre, Sizes
<1>4. g \in 1..Len(nal) /\ h \in 1..Len(nal) /\ g < h
  <2>1. /\ Count(nal) \in Nat
        /\ \A k \in 0..Count(nal) : Gone(nal, k) \in 1..Len(nal)
        /\ \A k \in 1..Count(nal) : Gone(nal, k - 1) < Gone(nal, k)
    BY <1>1, Chunks
  <2>2. j \in 0..Count(nal) /\ j + 1 \in 0..Count(nal) /\ j + 1 \in 1..Count(nal) /\ (j + 1) - 1 = j
    BY <2>1
  <2>3. QED  BY <2>1, <2>2
<1> HIDE DEF d, z, nal, g, h
<1>5. a \o b = c /\ a \in Seq(Nat) /\ b \in Seq(Nat) /\ c \in Seq(Nat)
  <2>1. 1 \in 1..(Len(nal) + 1) /\ g \in (1 - 1)..Len(nal) /\ h \in g..Len(nal)  BY <1>2, <1>4
  <2>2. a \o b = c  BY <1>2, <2>1, ConcatAdjacentSubSeq
  <2>3. /\ \A x \in 1..g : x \in 1..Len(nal)
        /\ \A x \in (g + 1)..h : x \in 1..Len(nal)
        /\ \A x \in 1..h : x \in 1..Len(nal)
    BY <1>2, <1>4
  <2>4. /\ \A x \in 1..g : nal[x] \in Nat
        /\ \A x \in (g + 1)..h : nal[x] \in Nat
        /\ \A x \in 1..h : nal[x] \in Nat
    BY <1>2, <2>3, ElementOfSeq
  <2>5. 1 \in Int /\ g \in Int /\ g + 1 \in Int /\ h \in Int  BY <1>4
  <2>6. a \in Seq(Nat)  BY <2>4, <2>5, SubSeqProperties
  <2>7. b \in Seq(Nat)
    <3> DEFINE m == g + 1
    <3>1. m \in Int /\ \A x \in m..h : nal[x] \in Nat  BY <2>4, <2>5
    <3> HIDE DEF m
    <3>2. SubSeq(nal, m, h) \in Seq(Nat)  BY <2>5, <3>1, SubSeqProperties
    <3>3. QED  BY <3>2 DEF m
  <2>8. c \in Seq(Nat)  BY <2>4, <2>5, SubSeqProperties
  <2>9. QED  BY <2>2, <2>6, <2>7, <2>8
<1> HIDE DEF a, b, c
<1>6. (d \o (z \o a)) \o b = d \o (z \o c) /\ d \o (z \o c) \in Seq(Nat)
  <2> DEFINE za == z \o a
  <2>1. za \in Seq(Nat)  BY <1>3, <1>5, ConcatProperties
  <2>2. za \o b = z \o (a \o b)  BY <1>3, <1>5, Associates
  <2> HIDE DEF za
  <2>3. (d \o za) \o b = d \o (za \o b)
    <3>1. d \in Seq(Nat) /\ za \in Seq(Nat) /\ b \in Seq(Nat)  BY <1>3, <1>5, <2>1
    <3>2. QED  BY <3>1, Associates
  <2>4. z \o c \in Seq(Nat)  BY <1>3, <1>5, ConcatProperties
  <2>5. d \o (z \o c) \in Seq(Nat)  BY <1>3, <2>4, ConcatProperties
  <2>6. QED  BY <1>5, <2>2, <2>3, <2>5 DEF za
<1>7. QED  BY <1>2, <1>3, <1>6 DEF a, b, c, d, z, nal, g, h

\* A fragment between the first and the last.
LEMMA ContinuedTakes ==
  ASSUME NEW nals \in Seq(NalUnits), NEW i \in 1..Len(nals), Len(nals[i]) > Capacity,
         NEW j \in Nat, j >= 1, j < Count(nals[i]), NEW r, Within(r, nals, i, j), NEW b,
         Shows(b, nals[i], FALSE, FALSE, SubSeq(nals[i], Gone(nals[i], j) + 1, Gone(nals[i], j + 1)))
  PROVE  Within(Continued(r, b), nals, i, j + 1)
<1> DEFINE d == Upto(nals, i - 1)
           z == Zeros(LengthSize)
           nal == nals[i]
           e == d \o (z \o SubSeq(nal, 1, Gone(nal, j + 1)))
           w == Continued(r, b)
<1>1. d \in Seq(Nat) /\ e \in Seq(Nat)
      /\ (d \o (z \o SubSeq(nal, 1, Gone(nal, j)))) \o SubSeq(nal, Gone(nal, j) + 1, Gone(nal, j + 1)) = e
  BY Longer
<1>2. r \in Rebuilt /\ ~r.damaged /\ r.open = Len(d) + 1
      /\ r.data = d \o (z \o SubSeq(nal, 1, Gone(nal, j))) /\ (r.idr <=> Begun(nals, i))
  BY DEF Within
<1>3. ~IsLast(b[2]) /\ SubSeq(b, 3, Len(b)) = SubSeq(nal, Gone(nal, j) + 1, Gone(nal, j + 1))
  BY DEF Shows
<1>4. r.open # Closed
  <2>1. Len(d) \in Nat  BY <1>1, LenProperties
  <2>2. QED  BY <1>2, <2>1 DEF Closed
<1>5. r.data \o SubSeq(b, 3, Len(b)) = e  BY <1>1, <1>2, <1>3
<1>6. w = [r EXCEPT !.data = r.data \o SubSeq(b, 3, Len(b))]  BY <1>3, <1>4 DEF Continued
<1> HIDE DEF d, z, nal, e, w
<1>7. w = [r EXCEPT !.data = e]  BY <1>5, <1>6
<1>8. w \in Rebuilt /\ w.damaged = r.damaged /\ w.open = r.open /\ w.idr = r.idr /\ w.data = e
  BY <1>1, <1>2, <1>7 DEF Rebuilt
<1>9. Within(w, nals, i, j + 1)  BY <1>2, <1>8 DEF Within, d, z, nal, e
<1>10. QED  BY <1>9 DEF w

\* Writing a prefix over the zeros that held its place.
Stamped(data, at, length) ==
    [x \in DOMAIN data |->
       IF x \in at..(at + LengthSize - 1) THEN length[x - at + 1] ELSE data[x]]
Prefixed(d, prefix, nal) == d \o (prefix \o nal)

LEMMA Overwritten ==
  ASSUME NEW d \in Seq(Nat), NEW nal \in Seq(Nat), NEW length \in Nat, NEW data,
         data = Prefixed(d, Zeros(LengthSize), nal), NEW at, at = Len(d) + 1
  PROVE  Stamped(data, at, Prefix(length)) = Prefixed(d, Prefix(length), nal)
<1> DEFINE z == Zeros(LengthSize)
           p == Prefix(length)
           s == LengthSize
           L == Len(d)
           M == Len(nal)
           e == d \o (p \o nal)
           f == [x \in DOMAIN data |->
                  IF x \in (L + 1)..(L + 1 + s - 1) THEN p[x - (L + 1) + 1] ELSE data[x]]
<1>1. /\ z \in Seq(Nat) /\ Len(z) = s /\ p \in Seq(Nat) /\ Len(p) = s /\ s \in Nat /\ s >= 1
  BY Sizes, ZerosAre, PrefixTyped
<1>2. L \in Nat /\ M \in Nat  BY LenProperties
<1>3. data = d \o (z \o nal)  BY DEF Prefixed
<1> HIDE DEF z, p, s
<1> DEFINE zn == z \o nal
           pn == p \o nal
<1>4. /\ zn \in Seq(Nat) /\ Len(zn) = s + M /\ pn \in Seq(Nat) /\ Len(pn) = s + M
      /\ \A x \in 1..(s + M) : /\ zn[x] = IF x <= s THEN z[x] ELSE nal[x - s]
                               /\ pn[x] = IF x <= s THEN p[x] ELSE nal[x - s]
  <2>1. /\ z \o nal \in Seq(Nat) /\ Len(z \o nal) = Len(z) + Len(nal)
        /\ \A x \in 1..(Len(z) + Len(nal)) :
             (z \o nal)[x] = IF x <= Len(z) THEN z[x] ELSE nal[x - Len(z)]
    BY <1>1, ConcatProperties
  <2>2. /\ p \o nal \in Seq(Nat) /\ Len(p \o nal) = Len(p) + Len(nal)
        /\ \A x \in 1..(Len(p) + Len(nal)) :
             (p \o nal)[x] = IF x <= Len(p) THEN p[x] ELSE nal[x - Len(p)]
    BY <1>1, ConcatProperties
  <2>3. QED  BY <1>1, <2>1, <2>2
<1>5. data = d \o zn /\ e = d \o pn  BY <1>3
<1> HIDE DEF zn, pn
<1>6. /\ data \in Seq(Nat) /\ Len(data) = L + s + M /\ e \in Seq(Nat) /\ Len(e) = L + s + M
      /\ \A x \in 1..(L + s + M) : /\ data[x] = IF x <= L THEN d[x] ELSE zn[x - L]
                                   /\ e[x] = IF x <= L THEN d[x] ELSE pn[x - L]
  <2>1. /\ d \o zn \in Seq(Nat) /\ Len(d \o zn) = Len(d) + Len(zn)
        /\ \A x \in 1..(Len(d) + Len(zn)) : (d \o zn)[x] = IF x <= Len(d) THEN d[x] ELSE zn[x - Len(d)]
    BY <1>4, ConcatProperties
  <2>2. /\ d \o pn \in Seq(Nat) /\ Len(d \o pn) = Len(d) + Len(pn)
        /\ \A x \in 1..(Len(d) + Len(pn)) : (d \o pn)[x] = IF x <= Len(d) THEN d[x] ELSE pn[x - Len(d)]
    BY <1>4, ConcatProperties
  <2> HIDE DEF e
  <2>3. Len(d) + Len(zn) = L + s + M /\ Len(d) + Len(pn) = L + s + M  BY <1>1, <1>2, <1>4
  <2>4. QED  BY <1>5, <2>1, <2>2, <2>3
<1> HIDE DEF L, M, e
<1>7. DOMAIN data = 1..(L + s + M)  BY <1>6, LenProperties
<1>8. f \in [1..(L + s + M) -> Nat] /\ \A x \in 1..(L + s + M) : f[x] = e[x]
  <2>1. ASSUME NEW x \in 1..(L + s + M) PROVE f[x] = e[x] /\ e[x] \in Nat
    <3>1. x \in 1..Len(e)  BY <1>6
    <3>2. e[x] \in Nat  BY <1>6, <3>1, ElementOfSeq
    <3>3. CASE x <= L
      <4>1. ~(x \in (L + 1)..(L + 1 + s - 1))  BY <1>1, <1>2, <3>3
      <4>2. f[x] = data[x]  BY <1>7, <4>1
      <4>3. QED  BY <1>6, <3>2, <3>3, <4>2
    <3>4. CASE x > L /\ x <= L + s
      <4>1. /\ x \in (L + 1)..(L + 1 + s - 1) /\ x - (L + 1) + 1 = x - L /\ x - L \in 1..(s + M)
            /\ x - L <= s /\ ~(x <= L)
        BY <1>1, <1>2, <3>4
      <4>2. f[x] = p[x - L]  BY <1>7, <4>1
      <4>3. e[x] = pn[x - L]  BY <1>6, <4>1
      <4>4. pn[x - L] = p[x - L]  BY <1>4, <4>1
      <4>5. QED  BY <3>2, <4>2, <4>3, <4>4
    <3>5. CASE x > L + s
      <4>1. /\ ~(x \in (L + 1)..(L + 1 + s - 1)) /\ x - L \in 1..(s + M)
            /\ ~(x - L <= s) /\ ~(x <= L)
        BY <1>1, <1>2, <3>5
      <4>2. f[x] = data[x]  BY <1>7, <4>1
      <4>3. data[x] = zn[x - L] /\ e[x] = pn[x - L]  BY <1>6, <4>1
      <4>4. zn[x - L] = pn[x - L]  BY <1>4, <4>1
      <4>5. QED  BY <3>2, <4>2, <4>3, <4>4
    <3>6. x <= L \/ (x > L /\ x <= L + s) \/ x > L + s  BY <1>1, <1>2
    <3>7. QED  BY <3>3, <3>4, <3>5, <3>6
  <2>2. DOMAIN f = 1..(L + s + M)  BY <1>7
  <2>3. f = [x \in 1..(L + s + M) |-> f[x]]  BY <2>2
  <2> HIDE DEF f
  <2>4. QED  BY <2>1, <2>2, <2>3
<1> HIDE DEF f
<1>9. f = e
  <2>1. e \in [1..(L + s + M) -> Nat]
    <3>1. e \in [1..Len(e) -> Nat]  BY <1>6, LenProperties
    <3>2. QED  BY <1>6, <3>1
  <2> DEFINE N == L + s + M
  <2>2. f \in [1..N -> Nat] /\ e \in [1..N -> Nat] /\ \A x \in 1..N : f[x] = e[x]  BY <1>8, <2>1
  <2>3. N \in Nat  BY <1>1, <1>2
  <2> HIDE DEF N
  <2>4. f \in Seq(Nat) /\ e \in Seq(Nat) /\ Len(f) = N /\ Len(e) = N  BY <2>2, <2>3
  <2>5. QED  BY <2>2, <2>4, SeqEqual
<1>10. QED  BY <1>9 DEF f, e, z, p, s, L, M, Stamped, Prefixed

\* The last fragment.
LEMMA LastTakes ==
  ASSUME NEW nals \in Seq(NalUnits), NEW i \in 1..Len(nals), Len(nals[i]) > Capacity,
         NEW j \in Nat, j >= 1, j + 1 = Count(nals[i]), NEW r, Within(r, nals, i, j), NEW b,
         Shows(b, nals[i], FALSE, TRUE, SubSeq(nals[i], Gone(nals[i], j) + 1, Gone(nals[i], j + 1)))
  PROVE  Between(Continued(r, b), nals, i)
<1> DEFINE d == Upto(nals, i - 1)
           z == Zeros(LengthSize)
           nal == nals[i]
           e == d \o (z \o SubSeq(nal, 1, Gone(nal, j + 1)))
           w == Continued(r, b)
           o == Len(d) + 1
           length == Prefix(Len(e) - (o - 1) - LengthSize)
           u == Stamped(e, o, length)
           v == d \o (Prefix(Len(nal)) \o nal)
<1>1. j < Count(nal)
  <2>1. Count(nal) \in Nat  BY Chunks
  <2>2. QED  BY <2>1
<1>2. d \in Seq(Nat) /\ z \in Seq(Nat) /\ nal \in Seq(Nat) /\ e \in Seq(Nat)
      /\ (d \o (z \o SubSeq(nal, 1, Gone(nal, j)))) \o SubSeq(nal, Gone(nal, j) + 1, Gone(nal, j + 1)) = e
  BY <1>1, Longer
<1>3. r \in Rebuilt /\ ~r.damaged /\ r.open = o
      /\ r.data = d \o (z \o SubSeq(nal, 1, Gone(nal, j))) /\ (r.idr <=> Begun(nals, i))
  BY DEF Within
<1>4. IsLast(b[2]) /\ SubSeq(b, 3, Len(b)) = SubSeq(nal, Gone(nal, j) + 1, Gone(nal, j + 1))
  BY DEF Shows
<1>5. Len(d) \in Nat /\ Len(nal) \in Nat /\ r.open # Closed
  <2>1. Len(d) \in Nat /\ Len(nal) \in Nat  BY <1>2, LenProperties
  <2>2. QED  BY <1>3, <2>1 DEF Closed
<1>6. r.data \o SubSeq(b, 3, Len(b)) = e  BY <1>2, <1>3, <1>4
<1>7. w = [r EXCEPT !.open = Closed, !.data = u]
  <2> DEFINE D == r.data \o SubSeq(b, 3, Len(b))
             l == Prefix(Len(D) - (r.open - 1) - LengthSize)
  <2>1. w = [r EXCEPT !.open = Closed,
                      !.data = [x \in DOMAIN D |->
                        IF x \in r.open..(r.open + LengthSize - 1) THEN l[x - r.open + 1] ELSE D[x]]]
    BY <1>4, <1>5 DEF Continued
  <2>2. D = e /\ r.open = o  BY <1>3, <1>6
  <2> HIDE DEF D, e, o, w
  <2>3. QED  BY <2>1, <2>2 DEF Stamped
<1>8. e = d \o (z \o nal) /\ Len(e) = Len(d) + (LengthSize + Len(nal))
  <2>1. Gone(nal, j + 1) = Len(nal)  BY DEF Gone
  <2>2. SubSeq(nal, 1, Len(nal)) = nal  BY <1>2, SubSeqFull
  <2>3. e = d \o (z \o nal)  BY <2>1, <2>2
  <2>4. Len(z) = LengthSize  BY Sizes, ZerosAre
  <2> HIDE DEF d, z, nal, e
  <2>5. z \o nal \in Seq(Nat) /\ Len(z \o nal) = LengthSize + Len(nal)  BY <1>2, <2>4, ConcatProperties
  <2> DEFINE zn == z \o nal
  <2> HIDE DEF zn
  <2>6. zn \in Seq(Nat)  BY <2>5 DEF zn
  <2>7. Len(d \o zn) = Len(d) + Len(zn)  BY <1>2, <2>6, ConcatProperties
  <2>8. QED  BY <2>3, <2>5, <2>7 DEF zn
<1>9. Len(e) - (o - 1) - LengthSize = Len(nal)
  <2> HIDE DEF e, d, nal
  <2>1. QED  BY <1>5, <1>8, Sizes
<1>10. u = v
  <2>1. Stamped(e, o, Prefix(Len(nal))) = v
    <3> DEFINE n == Len(nal)
    <3>1. d \in Seq(Nat) /\ nal \in Seq(Nat) /\ n \in Nat
      BY <1>2, <1>5
    <3>2. e = Prefixed(d, z, nal)  BY <1>8 DEF Prefixed
    <3>3. o = Len(d) + 1  OBVIOUS
    <3> HIDE DEF d, nal, e, n, o
    <3>4. Stamped(e, o, Prefix(n)) = Prefixed(d, Prefix(n), nal)  BY <3>1, <3>2, <3>3, Overwritten
    <3>5. QED  BY <3>4 DEF n, Prefixed
  <2>2. length = Prefix(Len(nal))  BY <1>9
  <2> HIDE DEF length, d, e, nal
  <2>3. QED  BY <2>1, <2>2
<1>11. v = Upto(nals, i) /\ v \in Seq(Nat)
  <2>1. v = Upto(nals, i)  BY UptoIs DEF AvccPiece
  <2>2. i \in 0..Len(nals)  OBVIOUS
  <2>3. Upto(nals, i) \in Seq(Nat)  BY <2>2, UptoIs
  <2>4. QED  BY <2>1, <2>3
<1> HIDE DEF u, v, w, o
<1>12. w \in Rebuilt /\ w.damaged = r.damaged /\ w.open = Closed /\ w.idr = r.idr /\ w.data = v
  <2>1. Closed \in Nat  BY DEF Closed
  <2>2. QED  BY <1>3, <1>7, <1>10, <1>11, <2>1 DEF Rebuilt
<1>13. Between(w, nals, i)  BY <1>3, <1>11, <1>12 DEF Between
<1>14. QED  BY <1>13 DEF w

\* So many payloads of a NAL unit have been taken in.
Taking(r, nals, i, j) ==
    IF j = 0 THEN Between(r, nals, i - 1) ELSE Within(r, nals, i, j)

\* Whatever the next payload is, the assembler takes it for what it is.
LEMMA AssembledTakes ==
  ASSUME NEW nals \in Seq(NalUnits), NEW i \in 1..Len(nals), NEW j \in Nat,
         j < Len(Cut(nals[i])), NEW r, Taking(r, nals, i, j)
  PROVE  /\ j + 1 = Len(Cut(nals[i])) => Between(Assembled(r, Cut(nals[i])[j + 1]), nals, i)
         /\ j + 1 < Len(Cut(nals[i])) => Within(Assembled(r, Cut(nals[i])[j + 1]), nals, i, j + 1)
<1> DEFINE nal == nals[i]
           n == Len(Cut(nal))
           b == Cut(nal)[j + 1]
<1>1. nal \in NalUnits /\ n \in Nat /\ Len(nal) \in Nat /\ Capacity \in Nat
  <2>1. nal \in NalUnits  OBVIOUS
  <2>2. QED  BY <2>1, CutIs, NalUnit, Sizes
<1>2. CASE Len(nal) <= Capacity
  <2>1. Cut(nal) = <<nal>> /\ n = 1  BY <1>1, <1>2, CutIs
  <2>2. j = 0  BY <2>1
  <2>3. b = nal  BY <2>1, <2>2
  <2>4. TypeOf(nal[1]) # Types.fu  BY <1>1, NalUnit
  <2>5. Assembled(r, b) = Whole(r, nal)
    <3> HIDE DEF b, nal
    <3>1. Assembled(r, nal) = Whole(r, nal)  BY <2>4 DEF Assembled
    <3>2. QED  BY <2>3, <3>1
  <2>6. Between(r, nals, i - 1)  BY <2>2 DEF Taking
  <2>7. Between(Whole(r, nal), nals, i)  BY <2>6, WholeTakes
  <2>8. QED  BY <2>1, <2>2, <2>5, <2>7
<1>3. CASE Len(nal) > Capacity
  <2>1. n = Count(nal) /\ Count(nal) >= 2  BY <1>1, <1>3, CutIs, Chunks
  <2>2. j + 1 \in 1..Count(nal) /\ (j + 1) - 1 = j  BY <1>1, <2>1
  <2>3. Shows(b, nal, j + 1 = 1, j + 1 = Count(nal), SubSeq(nal, Gone(nal, j) + 1, Gone(nal, j + 1)))
    <3>1. \A k \in 1..Count(nal) :
             Shows(Cut(nal)[k], nal, k = 1, k = Count(nal),
                   SubSeq(nal, Gone(nal, k - 1) + 1, Gone(nal, k)))
      BY <1>1, <1>3, CutIs
    <3>2. Shows(b, nal, j + 1 = 1, j + 1 = Count(nal),
                SubSeq(nal, Gone(nal, (j + 1) - 1) + 1, Gone(nal, j + 1)))
      BY <2>2, <3>1
    <3>3. QED  BY <2>2, <3>2
  <2> DEFINE chunk == SubSeq(nal, Gone(nal, j) + 1, Gone(nal, j + 1))
  <2>4. TypeOf(b[1]) = Types.fu /\ (IsFirst(b[2]) <=> j + 1 = 1)  BY <2>3 DEF Shows
  <2>5. CASE j = 0
    <3>1. Assembled(r, b) = Opening(r, b)  BY <2>4, <2>5 DEF Assembled
    <3>2. Shows(b, nal, TRUE, j + 1 = Count(nal), chunk)
      <4>1. j + 1 = 1  BY <2>5
      <4> HIDE DEF b, chunk, nal
      <4>2. QED  BY <2>3, <4>1 DEF Shows, chunk
    <3>3. Shows(b, nal, TRUE, j + 1 = Count(nal), SubSeq(nal, Gone(nal, 0) + 1, Gone(nal, 1)))
      <4>1. chunk = SubSeq(nal, Gone(nal, 0) + 1, Gone(nal, 1))
        <5>1. j + 1 = 1  BY <2>5
        <5>2. QED  BY <2>5, <5>1
      <4>2. QED  BY <3>2, <4>1
    <3>4. Between(r, nals, i - 1)  BY <2>5 DEF Taking
    <3> DEFINE last == (j + 1 = Count(nal))
    <3>5. Shows(b, nal, TRUE, last, SubSeq(nal, Gone(nal, 0) + 1, Gone(nal, 1)))  BY <3>3
    <3> HIDE DEF last, b
    <3>6. Within(Opening(r, b), nals, i, 1)  BY <1>3, <3>4, <3>5, OpeningTakes
    <3>7. j + 1 = 1 /\ j + 1 # n  BY <2>1, <2>5
    <3>8. QED  BY <3>1, <3>6, <3>7 DEF b
  <2>6. CASE j # 0
    <3>1. j >= 1 /\ j < Count(nal) /\ j + 1 # 1  BY <1>1, <2>1, <2>2, <2>6
    <3>2. Assembled(r, b) = Continued(r, b)  BY <2>4, <3>1 DEF Assembled
    <3>3. Within(r, nals, i, j)  BY <2>6 DEF Taking
    <3>4. CASE j + 1 = Count(nal)
      <4>1. Shows(b, nal, FALSE, TRUE, chunk)
        <5> HIDE DEF b, chunk, nal
        <5>1. QED  BY <2>3, <3>1, <3>4 DEF Shows, chunk
      <4> HIDE DEF b
      <4>2. Between(Continued(r, b), nals, i)  BY <1>3, <3>1, <3>3, <3>4, <4>1, LastTakes
      <4>3. ~(j + 1 < n)  BY <1>1, <2>1, <3>4
      <4>4. QED  BY <3>2, <4>2, <4>3 DEF b
    <3>5. CASE j + 1 # Count(nal)
      <4>1. Shows(b, nal, FALSE, FALSE, chunk)
        <5> HIDE DEF b, chunk, nal
        <5>1. QED  BY <2>3, <3>1, <3>5 DEF Shows, chunk
      <4> HIDE DEF b
      <4>2. Within(Continued(r, b), nals, i, j + 1)  BY <1>3, <3>1, <3>3, <4>1, ContinuedTakes
      <4>3. QED  BY <2>1, <3>2, <3>5, <4>2 DEF b
    <3>6. QED  BY <3>4, <3>5
  <2>7. QED  BY <2>5, <2>6
<1>4. QED  BY <1>1, <1>2, <1>3

-----------------------------------------------------------------------------
(* The payloads on their way. *)

Cuts(nals) == [i \in DOMAIN nals |-> Cut(nals[i])]

\* What is on its way begins with a payload of a NAL unit.
Sending(p, nals, i, j) ==
    /\ i \in 1..Len(nals) /\ j \in Nat /\ j < Len(Cut(nals[i]))
    /\ p = SubSeq(PayloadsOf(nals), Ends(Cuts(nals), i - 1) + j + 1, Len(PayloadsOf(nals)))

LEMMA PayloadsAre ==
  ASSUME NEW nals \in Seq(NalUnits)
  PROVE  LET P == PayloadsOf(nals)
             E(i) == Ends(Cuts(nals), i)
         IN  /\ \E S : P \in Seq(S)
             /\ E(0) = 0 /\ E(Len(nals)) = Len(P) /\ Len(P) \in Nat
             /\ \A i \in 0..Len(nals) : E(i) \in Nat /\ E(i) <= Len(P)
             /\ \A i \in 1..Len(nals) :
                  /\ Len(Cut(nals[i])) \in Nat /\ Len(Cut(nals[i])) >= 1
                  /\ E(i) = E(i - 1) + Len(Cut(nals[i]))
                  /\ \A x \in 1..Len(Cut(nals[i])) :
                       /\ E(i - 1) + x \in 1..Len(P)
                       /\ P[E(i - 1) + x].bytes = Cut(nals[i])[x]
                       /\ P[E(i - 1) + x].marker <=> E(i - 1) + x = Len(P)
<1> DEFINE N == Len(nals)
           C == Cuts(nals)
           A == FlattenSeq(C)
           P == PayloadsOf(nals)
           E(i) == Ends(C, i)
<1>1. N \in Nat /\ \A i \in 1..N : nals[i] \in NalUnits  OBVIOUS
<1>2. \A i \in 1..N : Cut(nals[i]) \in Seq(Seq(Nat)) /\ Len(Cut(nals[i])) \in Nat /\ Len(Cut(nals[i])) >= 1
  BY <1>1, CutIs
<1>3. C \in Seq(Seq(Seq(Nat))) /\ Len(C) = N /\ \A i \in 1..N : C[i] = Cut(nals[i])
  <2>1. C \in [1..N -> Seq(Seq(Nat))] /\ \A i \in 1..N : C[i] = Cut(nals[i])  BY <1>2 DEF Cuts
  <2> HIDE DEF C, N
  <2>2. QED  BY <1>1, <2>1
<1>4. P = [k \in DOMAIN A |-> [bytes |-> A[k], marker |-> k = Len(A)]]  BY DEF PayloadsOf, Cuts
<1> HIDE DEF C, N
<1> DEFINE V == Seq(Nat)
<1>5. C \in Seq(Seq(V))  BY <1>3
<1> HIDE DEF V
<1>6. /\ Ends(C, 0) = 0 /\ Ends(C, Len(C)) = Len(A)
      /\ \A i \in 0..Len(C) : Ends(C, i) \in Nat
      /\ \A i \in 1..Len(C) : Ends(C, i) = Ends(C, i - 1) + Len(C[i])
      /\ \A j \in 0..Len(C) : \A i \in 0..j : Ends(C, i) <= Ends(C, j)
      /\ \A i \in 1..Len(C) : \A x \in 1..Len(C[i]) :
           Ends(C, i - 1) + x \in 1..Len(A) /\ A[Ends(C, i - 1) + x] = C[i][x]
  BY <1>5, FlatInside
<1>7. A \in Seq(V)
  <2>1. Flat(C, Len(C)) = A /\ \A i \in 0..Len(C) : Flat(C, i) \in Seq(V)  BY <1>5, Flats
  <2>2. Len(C) \in 0..Len(C)  BY <1>1, <1>3
  <2>3. QED  BY <2>1, <2>2
<1> HIDE DEF A, P
<1>8. Len(A) \in Nat /\ DOMAIN A = 1..Len(A)  BY <1>7, LenProperties
<1> DEFINE S == {P[k] : k \in 1..Len(A)}
<1>9. P \in Seq(S) /\ Len(P) = Len(A)
  <2>1. DOMAIN P = 1..Len(A) /\ P = [k \in 1..Len(A) |-> P[k]]  BY <1>4, <1>8
  <2>2. P \in [1..Len(A) -> S]  BY <2>1
  <2> DEFINE n == Len(A)
  <2>3. n \in Nat /\ P \in [1..n -> S]  BY <1>8, <2>2
  <2> HIDE DEF n, S
  <2>4. P \in Seq(S) /\ Len(P) = n  BY <2>3
  <2>5. QED  BY <2>4 DEF n
<1>10. \A k \in 1..Len(A) : P[k].bytes = A[k] /\ (P[k].marker <=> k = Len(A))  BY <1>4, <1>8
<1>11. \A i \in 0..N : E(i) \in Nat /\ E(i) <= Len(P)
  <2>1. N \in 0..N  BY <1>1
  <2>2. \A i \in 0..N : E(i) \in Nat /\ E(i) <= E(N)  BY <1>3, <1>6, <2>1
  <2>3. QED  BY <1>3, <1>6, <1>9, <2>2
<1>12. E(0) = 0 /\ E(N) = Len(P) /\ Len(P) \in Nat  BY <1>3, <1>6, <1>8, <1>9
<1>13. ASSUME NEW i \in 1..N
       PROVE  /\ E(i) = E(i - 1) + Len(Cut(nals[i]))
              /\ \A x \in 1..Len(Cut(nals[i])) :
                   /\ E(i - 1) + x \in 1..Len(P)
                   /\ P[E(i - 1) + x].bytes = Cut(nals[i])[x]
                   /\ P[E(i - 1) + x].marker <=> E(i - 1) + x = Len(P)
  <2>1. i \in 1..Len(C) /\ C[i] = Cut(nals[i])  BY <1>3
  <2>2. E(i) = E(i - 1) + Len(Cut(nals[i]))  BY <1>6, <2>1
  <2>3. ASSUME NEW x \in 1..Len(Cut(nals[i]))
        PROVE  /\ E(i - 1) + x \in 1..Len(P)
               /\ P[E(i - 1) + x].bytes = Cut(nals[i])[x]
               /\ P[E(i - 1) + x].marker <=> E(i - 1) + x = Len(P)
    <3> DEFINE k == E(i - 1) + x
    <3>1. k \in 1..Len(A) /\ A[k] = Cut(nals[i])[x]  BY <1>6, <2>1
    <3> HIDE DEF k
    <3>2. k \in 1..Len(P) /\ P[k].bytes = Cut(nals[i])[x] /\ (P[k].marker <=> k = Len(P))
      BY <1>9, <1>10, <3>1
    <3>3. QED  BY <3>2 DEF k
  <2>4. QED  BY <2>2, <2>3
<1>14. QED  BY <1>2, <1>9, <1>11, <1>12, <1>13 DEF N, C, P

\* The first payload on its way, and what is behind it.
Moves(p, nals, i, j, n) ==
    /\ Head(p).bytes = Cut(nals[i])[j + 1]
    /\ (Head(p).marker <=> i = Len(nals) /\ j + 1 = n)
    /\ j + 1 < n => Sending(Tail(p), nals, i, j + 1)
    /\ j + 1 = n /\ i < Len(nals) => Sending(Tail(p), nals, i + 1, 0)
    /\ j + 1 = n /\ i = Len(nals) => Tail(p) = <<>>

LEMMA SendingMoves ==
  ASSUME NEW nals \in Seq(NalUnits), NEW p, NEW i, NEW j, Sending(p, nals, i, j)
  PROVE  Moves(p, nals, i, j, Len(Cut(nals[i])))
<1> DEFINE N == Len(nals)
           P == PayloadsOf(nals)
           E(x) == Ends(Cuts(nals), x)
           n == Len(Cut(nals[i]))
           L == Len(P)
           at == E(i - 1) + (j + 1)
<1>1. i \in 1..N /\ j \in Nat /\ j < n /\ p = SubSeq(P, E(i - 1) + j + 1, L) /\ N \in Nat
  BY DEF Sending
<1>2. /\ \E S : P \in Seq(S)
      /\ E(N) = L /\ L \in Nat
      /\ \A x \in 0..N : E(x) \in Nat /\ E(x) <= L
      /\ \A y \in 1..N :
           /\ Len(Cut(nals[y])) \in Nat /\ Len(Cut(nals[y])) >= 1
           /\ E(y) = E(y - 1) + Len(Cut(nals[y]))
           /\ \A x \in 1..Len(Cut(nals[y])) :
                /\ E(y - 1) + x \in 1..L
                /\ P[E(y - 1) + x].bytes = Cut(nals[y])[x]
                /\ P[E(y - 1) + x].marker <=> E(y - 1) + x = L
  BY PayloadsAre
<1>3. PICK S : P \in Seq(S)  BY <1>2
<1> HIDE DEF N, P, E, L
<1>4. /\ n \in Nat /\ j + 1 \in 1..n /\ i \in 0..N /\ i - 1 \in 0..N /\ i \in Nat
      /\ E(i - 1) \in Nat /\ E(i) = E(i - 1) + n /\ E(i) <= L /\ E(i) \in Nat
  <2>1. n \in Nat  BY <1>1, <1>2
  <2>2. i \in 0..N /\ i - 1 \in 0..N /\ i \in Nat  BY <1>1
  <2>3. E(i - 1) \in Nat /\ E(i) = E(i - 1) + n /\ E(i) <= L /\ E(i) \in Nat  BY <1>1, <1>2, <2>2
  <2>4. j + 1 \in 1..n  BY <1>1, <2>1
  <2>5. QED  BY <2>1, <2>2, <2>3, <2>4
<1>5. at \in 1..L /\ P[at].bytes = Cut(nals[i])[j + 1] /\ (P[at].marker <=> at = L)
  BY <1>1, <1>2, <1>4
<1>6. E(i - 1) + j + 1 = at /\ at + 1 = E(i - 1) + (j + 1) + 1  BY <1>1, <1>4
<1>7. p = SubSeq(P, at, L)  BY <1>1, <1>6
<1> HIDE DEF at
<1>8. Head(p) = P[at] /\ Tail(p) = SubSeq(P, at + 1, L)
  <2>1. L \in at..L /\ at \in 1..Len(P) /\ L \in at..Len(P)  BY <1>2, <1>5 DEF L
  <2>2. Head(SubSeq(P, at, L)) = P[at] /\ Tail(SubSeq(P, at, L)) = SubSeq(P, at + 1, L)
    BY <1>3, <2>1, HeadTailOfSubSeq
  <2>3. QED  BY <1>7, <2>2
<1>9. i < N => E(i) + 1 <= L /\ i + 1 \in 1..N /\ (i + 1) - 1 = i /\ Len(Cut(nals[i + 1])) \in Nat
               /\ Len(Cut(nals[i + 1])) >= 1
  <2>1. SUFFICES ASSUME i < N
                 PROVE  /\ E(i) + 1 <= L /\ i + 1 \in 1..N /\ (i + 1) - 1 = i
                        /\ Len(Cut(nals[i + 1])) \in Nat /\ Len(Cut(nals[i + 1])) >= 1
    OBVIOUS
  <2>2. i + 1 \in 1..N /\ i + 1 \in 0..N /\ (i + 1) - 1 = i  BY <1>1, <1>4, <2>1
  <2>3. /\ Len(Cut(nals[i + 1])) \in Nat /\ Len(Cut(nals[i + 1])) >= 1
        /\ E(i + 1) = E(i) + Len(Cut(nals[i + 1])) /\ E(i + 1) <= L /\ E(i + 1) \in Nat
    BY <1>2, <2>2
  <2> DEFINE u == E(i)
             v == E(i + 1)
             m == Len(Cut(nals[i + 1]))
  <2>4. u + 1 <= L
    <3>1. u \in Nat /\ v \in Nat /\ m \in Nat /\ m >= 1 /\ v = u + m /\ v <= L /\ L \in Nat
      BY <1>2, <1>4, <2>3
    <3> HIDE DEF u, v, m
    <3>2. QED  BY <3>1
  <2>5. QED  BY <2>2, <2>3, <2>4
<1>10. at = E(i - 1) + (j + 1)  BY DEF at
<1>11. at = L <=> i = N /\ j + 1 = n
  <2>1. CASE i = N
    <3> DEFINE u == E(i - 1)
    <3>1. E(i) = L  BY <1>2, <2>1
    <3>2. u \in Nat /\ u + n = L /\ at = u + (j + 1) /\ n \in Nat /\ j \in Nat
      BY <1>1, <1>4, <1>10, <3>1
    <3> HIDE DEF u, n
    <3>3. at = L <=> j + 1 = n  BY <3>2
    <3>4. QED  BY <2>1, <3>3
  <2>2. CASE i # N
    <3>1. i < N  BY <1>1, <1>4, <2>2
    <3>2. E(i) + 1 <= L  BY <1>9, <3>1
    <3>3. QED  BY <1>2, <1>4, <1>10, <2>2, <3>2
  <2>3. QED  BY <2>1, <2>2
<1>12. j + 1 < n => Sending(Tail(p), nals, i, j + 1)
  <2>1. at + 1 = E(i - 1) + (j + 1) + 1  BY <1>6
  <2>2. j + 1 \in Nat  BY <1>1
  <2>3. Tail(p) = SubSeq(P, E(i - 1) + (j + 1) + 1, L)  BY <1>8, <2>1
  <2>4. QED  BY <1>1, <2>2, <2>3 DEF Sending, N, P, E, L
<1>13. j + 1 = n /\ i < N => Sending(Tail(p), nals, i + 1, 0)
  <2>1. SUFFICES ASSUME j + 1 = n, i < N PROVE Sending(Tail(p), nals, i + 1, 0)  OBVIOUS
  <2>2. at + 1 = E((i + 1) - 1) + 0 + 1  BY <1>4, <1>9, <1>10, <2>1
  <2>3. Tail(p) = SubSeq(P, E((i + 1) - 1) + 0 + 1, L)  BY <1>8, <2>2
  <2>4. i + 1 \in 1..N /\ 0 \in Nat /\ 0 < Len(Cut(nals[i + 1]))  BY <1>9, <2>1
  <2>5. QED  BY <2>3, <2>4 DEF Sending, N, P, E, L
<1>14. j + 1 = n /\ i = N => Tail(p) = <<>>
  <2>1. SUFFICES ASSUME j + 1 = n, i = N PROVE Tail(p) = <<>>  OBVIOUS
  <2>2. at = L /\ at + 1 \in Int /\ L \in Int /\ L < at + 1  BY <1>2, <1>5, <1>11, <2>1
  <2> DEFINE m == at + 1
  <2>3. m \in Int /\ L < m  BY <2>2
  <2> HIDE DEF m
  <2>4. SubSeq(P, m, L) = <<>>  BY <2>2, <2>3, SubSeqEmpty
  <2>5. QED  BY <1>8, <2>4 DEF m
<1>15. QED  BY <1>5, <1>8, <1>11, <1>12, <1>13, <1>14 DEF N, Moves

\* All of them are on their way.
LEMMA SendingBegins ==
  ASSUME NEW nals \in Seq(NalUnits), nals # <<>>
  PROVE  Sending(PayloadsOf(nals), nals, 1, 0)
<1> DEFINE P == PayloadsOf(nals)
<1>1. /\ \E S : P \in Seq(S)
      /\ Ends(Cuts(nals), 0) = 0 /\ Len(P) \in Nat
      /\ \A i \in 1..Len(nals) : Len(Cut(nals[i])) \in Nat /\ Len(Cut(nals[i])) >= 1
  BY PayloadsAre
<1>2. PICK S : P \in Seq(S)  BY <1>1
<1>3. 1 \in 1..Len(nals)
  <2>1. Len(nals) \in Nat \ {0}  BY EmptySeq
  <2>2. QED  BY <2>1
<1> HIDE DEF P
<1>4. SubSeq(P, 1, Len(P)) = P  BY <1>2, SubSeqFull
<1>5. Ends(Cuts(nals), 1 - 1) + 0 + 1 = 1
  <2>1. 1 - 1 = 0  OBVIOUS
  <2>2. Ends(Cuts(nals), 1 - 1) = 0  BY <1>1, <2>1
  <2>3. QED  BY <2>2
<1>6. Len(Cut(nals[1])) \in Nat /\ Len(Cut(nals[1])) >= 1  BY <1>1, <1>3
<1>7. P = SubSeq(P, Ends(Cuts(nals), 1 - 1) + 0 + 1, Len(P))  BY <1>4, <1>5
<1>8. QED  BY <1>3, <1>6, <1>7 DEF Sending, P

-----------------------------------------------------------------------------
(* The invariant. *)

\* The cursor is behind the start code of the last NAL unit found, and not
\* behind that of the next one.
Halfway(head, tail) ==
    \E k \in 0..Len(written) :
      /\ found = SubSeq(written, 1, k) /\ reached \in Nat /\ reached > head[k]
      /\ k < Len(written) => reached <= Place(head, tail, k + 1)

Splitting ==
    \E head, tail : Lies(head, tail) /\ (byteStage = "split" => Halfway(head, tail))

\* The fixture is gathered from what was found, and from all there is in the end.
GatheredSoFar ==
    /\ byteStage = "split" => Gathering(fixture, found)
    /\ byteStage # "split" => Gathering(fixture, written) /\ ~fixture.current.vcl

\* The buffer holds what is no longer on its way.
TakenSoFar ==
    /\ byteStage = "split" => Between(rebuilt, written, 0)
    /\ byteStage = "send" =>
         \E i, j : Sending(payloads, written, i, j) /\ Taking(rebuilt, written, i, j)
    /\ byteStage = "done" => payloads = <<>> /\ Between(rebuilt, written, Len(written))

BytesInv ==
    /\ written \in Seq(NalUnits) /\ written # <<>> /\ byteStage \in {"split", "send", "done"}
    /\ Splitting /\ GatheredSoFar /\ TakenSoFar

LEMMA BytesBegin ==
  ASSUME BytesInit PROVE BytesInv
<1>1. PICK n \in 1..MaxNals : written \in [1..n -> NalUnits]  BY DEF BytesInit
<1>2. n \in Nat /\ n >= 1  BY <1>1, PictureAssumption
<1>3. written \in Seq(NalUnits) /\ Len(written) = n /\ written # <<>>
  <2>1. written \in Seq(NalUnits)  BY <1>1, <1>2
  <2>2. DOMAIN written = 1..n  BY <1>1
  <2>3. Len(written) = n  BY <1>2, <2>1, <2>2, LenProperties
  <2>4. QED  BY <1>2, <2>1, <2>3, EmptySeq
<1>4. PICK codes \in [DOMAIN written -> {3, 4}], padding \in Paddings :
        annexB = Written(written, codes, padding)
  BY DEF BytesInit
<1>5. padding \in Nat  BY PictureAssumption
<1>6. annexB \in Seq(Nat) /\ \E head, tail : Landmarks(annexB, written, head, tail)
  BY <1>3, <1>4, <1>5, LandmarksExist
<1>7. PICK head, tail : Landmarks(annexB, written, head, tail)  BY <1>6
<1>8. Lies(head, tail)  BY <1>3, <1>6, <1>7 DEF Lies
<1>9. byteStage = "split" /\ reached = 1 /\ found = <<>> /\ payloads = <<>>
  BY DEF BytesInit
<1>10. Halfway(head, tail)
  <2>1. found = SubSeq(written, 1, 0)  BY <1>9, SubSeqEmpty
  <2>2. head[0] = 0 /\ tail[0] = 0  BY <1>7 DEF Landmarks
  <2>3. reached <= Place(head, tail, 0 + 1)
    <3>1. 1 \in 1..Len(written) /\ 1 \in 0..(Len(written) + 1) /\ 1 - 1 = 0 /\ 0 + 1 = 1  BY <1>2, <1>3
    <3>2. head[1] >= tail[1 - 1] + 3  BY <1>7, <3>1 DEF Landmarks
    <3>3. head[1] \in Nat  BY <1>8, <3>1, Lie
    <3>4. Place(head, tail, 1) = IF head[1] >= 4 THEN head[1] - 3 ELSE head[1] - 2
      BY <2>2, <3>1 DEF Place
    <3>5. head[1] >= 3  BY <2>2, <3>1, <3>2
    <3>6. QED  BY <1>9, <3>1, <3>3, <3>4, <3>5
  <2>4. 0 \in 0..Len(written)  BY <1>2, <1>3
  <2>5. QED  BY <1>9, <2>1, <2>2, <2>3, <2>4 DEF Halfway
<1>11. Splitting  BY <1>8, <1>10 DEF Splitting
<1>12. Gathering(fixture, <<>>)
  <2>1. fixture = [sets |-> <<>>, pictures |-> <<>>, current |-> NoPicture]  BY DEF BytesInit
  <2>2. Coded(<<>>) = <<>> /\ SetsOf(<<>>) = <<>>  BY OnlyOfNone DEF Coded, SetsOf
  <2>3. NoPicture \in Picture /\ NoPicture.nals = <<>> /\ ~NoPicture.vcl /\ ~NoPicture.idr
    BY DEF NoPicture, Picture
  <2> DEFINE none == NoPicture
  <2> HIDE DEF none
  <2>4. fixture.sets = <<>> /\ fixture.pictures = <<>> /\ fixture.current = none
    BY <2>1 DEF none
  <2>5. fixture \in Fixture  BY <2>1, <2>3 DEF Fixture
  <2>6. none.nals = <<>> /\ ~none.vcl /\ ~none.idr  BY <2>3 DEF none
  <2>7. Len(<<>>) = 0 /\ 1..0 = {}  OBVIOUS
  <2>8. QED  BY <2>2, <2>4, <2>5, <2>6, <2>7 DEF Gathering
<1>13. GatheredSoFar  BY <1>9, <1>12 DEF GatheredSoFar
<1>14. Between(rebuilt, written, 0)
  <2>1. rebuilt = [data |-> <<>>, open |-> Closed, idr |-> FALSE, damaged |-> FALSE]  BY DEF BytesInit
  <2>2. rebuilt \in Rebuilt  BY <2>1 DEF Rebuilt, Closed
  <2>3. Upto(written, 0) = <<>>  BY <1>3, UptoIs
  <2>4. ~Begun(written, 0)  BY DEF Begun
  <2>5. QED  BY <2>1, <2>2, <2>3, <2>4 DEF Between
<1>15. TakenSoFar  BY <1>9, <1>14 DEF TakenSoFar
<1>16. QED  BY <1>3, <1>9, <1>11, <1>13, <1>15 DEF BytesInv

\* A turn of the splitting.
LEMMA SplitKeeps ==
  ASSUME BytesInv, Split PROVE BytesInv'
<1>1. /\ written \in Seq(NalUnits) /\ written # <<>> /\ Len(written) \in Nat
      /\ byteStage = "split" /\ Gathering(fixture, found) /\ Between(rebuilt, written, 0)
  BY DEF BytesInv, GatheredSoFar, TakenSoFar, Split
<1>2. PICK head, tail : Lies(head, tail) /\ Halfway(head, tail)  BY <1>1 DEF BytesInv, Splitting
<1>3. PICK k \in 0..Len(written) :
        /\ found = SubSeq(written, 1, k) /\ reached \in Nat /\ reached > head[k]
        /\ k < Len(written) => reached <= Place(head, tail, k + 1)
  BY <1>2 DEF Halfway
<1>4. k < Len(written)
  <2>1. k = Len(written) => CodesFrom(reached) = {}  BY <1>2, <1>3, NextCode
  <2>2. CodesFrom(reached) # {}  BY DEF Split
  <2>3. QED  BY <1>1, <2>1, <2>2
<1> DEFINE nal == written[k + 1]
<1>5. /\ NextNal.nal = nal /\ NextNal.end \in Nat /\ NextNal.end > head[k + 1]
      /\ k + 1 < Len(written) => NextNal.end <= Place(head, tail, k + 2)
  BY <1>2, <1>3, <1>4, NextNalIs
<1>6. k + 1 \in 1..Len(written) /\ nal \in NalUnits /\ k + 1 \in 0..Len(written) /\ (k + 1) + 1 = k + 2
  BY <1>1, <1>4
<1>7. nal # <<>>  BY <1>6, PictureAssumption
<1>8. /\ reached' = NextNal.end /\ found' = Append(found, nal) /\ fixture' = Gathered(fixture, nal)
      /\ written' = written /\ annexB' = annexB /\ byteStage' = byteStage
      /\ payloads' = payloads /\ rebuilt' = rebuilt
  BY <1>5, <1>7 DEF Split
<1>9. found \in Seq(NalUnits) /\ found' = SubSeq(written, 1, k + 1)
  <2>1. SubSeq(written, 1, k + 1) = SubSeq(written, 1, (k + 1) - 1) \o <<written[k + 1]>>
    <3>1. 1 \in 1..Len(written) /\ k + 1 \in 1..Len(written)  BY <1>1, <1>6
    <3>2. QED  BY <1>1, <3>1, SubSeqRecursiveSecond
  <2>2. (k + 1) - 1 = k  OBVIOUS
  <2>3. found \in Seq(NalUnits)
    <3>1. \A x \in 1..k : written[x] \in NalUnits
      <4>1. \A x \in 1..k : x \in 1..Len(written)  BY <1>1
      <4>2. QED  BY <1>1, <4>1, ElementOfSeq
    <3>2. SubSeq(written, 1, k) \in Seq(NalUnits)  BY <3>1, SubSeqProperties
    <3>3. QED  BY <1>3, <3>2
  <2>4. Append(found, nal) = found \o <<nal>>  BY <1>6, <2>3, AppendIsConcat
  <2>5. QED  BY <1>3, <1>8, <2>1, <2>2, <2>3, <2>4
<1>10. Halfway(head, tail)'
  <2>1. reached' \in Nat /\ reached' > head[k + 1]  BY <1>5, <1>8
  <2>2. k + 1 < Len(written) => reached' <= Place(head, tail, (k + 1) + 1)  BY <1>5, <1>6, <1>8
  <2>3. QED  BY <1>6, <1>8, <1>9, <2>1, <2>2 DEF Halfway
<1>11. Lies(head, tail)'  BY <1>2, <1>8 DEF Lies
<1>12. Splitting'  BY <1>10, <1>11 DEF Splitting
<1>13. Gathering(fixture', found')
  <2>1. Gathering(Gathered(fixture, nal), Append(found, nal))  BY <1>1, <1>6, <1>9, GatherKeeps
  <2>2. QED  BY <1>8, <2>1
<1>14. GatheredSoFar'  BY <1>1, <1>8, <1>13 DEF GatheredSoFar
<1>15. TakenSoFar'
  <2>1. Between(rebuilt', written', 0)  BY <1>1, <1>8
  <2>2. QED  BY <1>1, <1>8, <2>1 DEF TakenSoFar
<1>16. QED  BY <1>1, <1>8, <1>12, <1>14, <1>15 DEF BytesInv

\* The end of the stream.
LEMMA ConvertKeeps ==
  ASSUME BytesInv, Convert PROVE BytesInv'
<1>1. /\ written \in Seq(NalUnits) /\ written # <<>> /\ Len(written) \in Nat
      /\ byteStage = "split" /\ Gathering(fixture, found) /\ Between(rebuilt, written, 0)
  BY DEF BytesInv, GatheredSoFar, TakenSoFar, Convert
<1>2. PICK head, tail : Lies(head, tail) /\ Halfway(head, tail)  BY <1>1 DEF BytesInv, Splitting
<1>3. PICK k \in 0..Len(written) :
        /\ found = SubSeq(written, 1, k) /\ reached \in Nat /\ reached > head[k]
        /\ k < Len(written) => reached <= Place(head, tail, k + 1)
  BY <1>2 DEF Halfway
<1>4. k = Len(written)
  <2>1. k < Len(written) => CodesFrom(reached) # {}  BY <1>2, <1>3, NextCode
  <2>2. CodesFrom(reached) = {}  BY DEF Convert
  <2>3. QED  BY <1>1, <2>1, <2>2
<1>5. found = written  BY <1>1, <1>3, <1>4, SubSeqFull
<1>6. WellFormed(ToAvcc(found)) /\ AvccNalUnits(ToAvcc(found)) = written
  BY <1>1, <1>5, AvccReadsBack
<1>7. /\ byteStage' = "send" /\ payloads' = PayloadsOf(written) /\ fixture' = Flushed(fixture)
      /\ written' = written /\ annexB' = annexB /\ rebuilt' = rebuilt
  BY <1>6 DEF Convert
<1>8. Splitting'
  <2>1. Lies(head, tail)'  BY <1>2, <1>7 DEF Lies
  <2>2. QED  BY <1>7, <2>1 DEF Splitting
<1>9. GatheredSoFar'
  <2>1. Gathering(Flushed(fixture), written) /\ Flushed(fixture).current = NoPicture
    BY <1>1, <1>5, FlushKeeps
  <2>2. ~Flushed(fixture).current.vcl  BY <2>1 DEF NoPicture
  <2>3. QED  BY <1>7, <2>1, <2>2 DEF GatheredSoFar
<1>10. TakenSoFar'
  <2>1. Sending(payloads', written', 1, 0)  BY <1>1, <1>7, SendingBegins
  <2>2. Taking(rebuilt', written', 1, 0)
    <3>1. 1 - 1 = 0  OBVIOUS
    <3>2. Taking(rebuilt, written, 1, 0)  BY <1>1, <3>1 DEF Taking
    <3>3. QED  BY <1>7, <3>2
  <2>3. QED  BY <1>7, <2>1, <2>2 DEF TakenSoFar
<1>11. QED  BY <1>1, <1>7, <1>8, <1>9, <1>10 DEF BytesInv

\* A payload at the receiver.
LEMMA ArriveKeeps ==
  ASSUME BytesInv, Arrive PROVE BytesInv'
<1> DEFINE r == Assembled(rebuilt, Head(payloads).bytes)
           N == Len(written)
<1>1. /\ written \in Seq(NalUnits) /\ written # <<>> /\ N \in Nat /\ byteStage = "send"
      /\ Splitting /\ GatheredSoFar /\ TakenSoFar
  BY DEF BytesInv, Arrive
<1>2. PICK i, j : Sending(payloads, written, i, j) /\ Taking(rebuilt, written, i, j)
  BY <1>1 DEF TakenSoFar
<1> DEFINE n == Len(Cut(written[i]))
<1>3. i \in 1..N /\ j \in Nat /\ j < n /\ n \in Nat
  <2>1. i \in 1..N /\ j \in Nat /\ j < n  BY <1>2 DEF Sending
  <2>2. written[i] \in NalUnits  BY <1>1, <2>1
  <2>3. QED  BY <2>1, <2>2, CutIs
<1>4. /\ Head(payloads).bytes = Cut(written[i])[j + 1]
      /\ (Head(payloads).marker <=> i = N /\ j + 1 = n)
      /\ j + 1 < n => Sending(Tail(payloads), written, i, j + 1)
      /\ j + 1 = n /\ i < N => Sending(Tail(payloads), written, i + 1, 0)
      /\ j + 1 = n /\ i = N => Tail(payloads) = <<>>
  <2>1. Moves(payloads, written, i, j, n)  BY <1>1, <1>2, SendingMoves
  <2>2. QED  BY <2>1 DEF Moves
<1>5. /\ j + 1 = n => Between(r, written, i)
      /\ j + 1 < n => Within(r, written, i, j + 1)
  BY <1>1, <1>2, <1>3, <1>4, AssembledTakes
<1>6. /\ rebuilt' = IF Head(payloads).marker THEN Abandoned(r) ELSE r
      /\ payloads' = Tail(payloads)
      /\ byteStage' = IF Head(payloads).marker THEN "done" ELSE "send"
      /\ written' = written /\ annexB' = annexB /\ fixture' = fixture
  BY DEF Arrive
<1> HIDE DEF r, n, N
<1>7. TakenSoFar'
  <2>1. CASE j + 1 < n
    <3>1. ~Head(payloads).marker  BY <1>3, <1>4, <2>1
    <3>2. rebuilt' = r /\ byteStage' = "send"  BY <1>6, <3>1
    <3>3. Sending(payloads', written', i, j + 1)  BY <1>4, <1>6, <2>1
    <3>4. Taking(rebuilt', written', i, j + 1)
      <4>1. j + 1 # 0  BY <1>3
      <4>2. Taking(r, written, i, j + 1)  BY <1>5, <2>1, <4>1 DEF Taking
      <4>3. QED  BY <1>6, <3>2, <4>2
    <3>5. QED  BY <3>2, <3>3, <3>4 DEF TakenSoFar
  <2>2. CASE j + 1 = n /\ i < N
    <3>1. ~Head(payloads).marker  BY <1>1, <1>3, <1>4, <2>2
    <3>2. rebuilt' = r /\ byteStage' = "send"  BY <1>6, <3>1
    <3>3. Sending(payloads', written', i + 1, 0)  BY <1>4, <1>6, <2>2
    <3>4. Taking(rebuilt', written', i + 1, 0)
      <4>1. (i + 1) - 1 = i  BY <1>3
      <4>2. Taking(r, written, i + 1, 0)  BY <1>5, <2>2, <4>1 DEF Taking
      <4>3. QED  BY <1>6, <3>2, <4>2
    <3>5. QED  BY <3>2, <3>3, <3>4 DEF TakenSoFar
  <2>3. CASE j + 1 = n /\ i = N
    <3>1. Head(payloads).marker  BY <1>4, <2>3
    <3>2. Between(r, written, N)  BY <1>5, <2>3
    <3>3. Abandoned(r) = r  BY <3>2 DEF Between, Abandoned
    <3>4. rebuilt' = r /\ byteStage' = "done" /\ payloads' = <<>>  BY <1>4, <1>6, <2>3, <3>1, <3>3
    <3>5. Between(rebuilt', written', Len(written'))  BY <1>6, <3>2, <3>4 DEF N
    <3>6. QED  BY <3>4, <3>5 DEF TakenSoFar
  <2>4. j + 1 < n \/ (j + 1 = n /\ i < N) \/ (j + 1 = n /\ i = N)  BY <1>1, <1>3
  <2>5. QED  BY <2>1, <2>2, <2>3, <2>4
<1>8. byteStage' \in {"send", "done"}  BY <1>6
<1>9. Splitting'
  <2>1. PICK head, tail : Lies(head, tail)  BY <1>1 DEF Splitting
  <2>2. Lies(head, tail)'  BY <1>6, <2>1 DEF Lies
  <2>3. QED  BY <1>8, <2>2 DEF Splitting
<1>10. GatheredSoFar'  BY <1>1, <1>6, <1>8 DEF GatheredSoFar
<1>11. QED  BY <1>1, <1>6, <1>7, <1>8, <1>9, <1>10 DEF BytesInv

LEMMA BytesStays ==
  ASSUME BytesInv, UNCHANGED bytesVars PROVE BytesInv'
BY DEF BytesInv, bytesVars, Splitting, Halfway, Lies, GatheredSoFar, TakenSoFar

\* What the invariant says of the end.
LEMMA BytesInvSurvives ==
  ASSUME BytesInv PROVE BytesSurvive
<1>1. written \in Seq(NalUnits) /\ written # <<>> /\ GatheredSoFar /\ TakenSoFar
      /\ byteStage \in {"split", "send", "done"} /\ Len(written) \in Nat
  BY DEF BytesInv
<1>2. DecoderReadsWhatWasWritten
  <2>1. byteStage # "refused"  BY <1>1
  <2>2. ASSUME byteStage = "done"
        PROVE  /\ ~rebuilt.damaged /\ payloads = <<>>
               /\ AvccNalUnits(rebuilt.data) = written /\ WellFormed(rebuilt.data)
               /\ rebuilt.idr = \E i \in DOMAIN written : TypeOf(written[i][1]) = Types.idr
    <3>1. payloads = <<>> /\ Between(rebuilt, written, Len(written))  BY <1>1, <2>2 DEF TakenSoFar
    <3>2. ~rebuilt.damaged /\ rebuilt.data = ToAvcc(written)  BY <1>1, <3>1, UptoIs DEF Between
    <3>3. AvccNalUnits(rebuilt.data) = written /\ WellFormed(rebuilt.data)
      BY <1>1, <3>2, AvccReadsBack
    <3>4. rebuilt.idr \in BOOLEAN /\ (rebuilt.idr <=> \E u \in 1..Len(written) : IsIdr(written[u]))
      BY <3>1 DEF Between, Rebuilt, Begun
    <3>5. DOMAIN written = 1..Len(written)  BY <1>1, LenProperties
    <3>6. rebuilt.idr = \E i \in DOMAIN written : TypeOf(written[i][1]) = Types.idr
      BY <3>4, <3>5 DEF IsIdr
    <3>7. QED  BY <3>1, <3>2, <3>3, <3>6
  <2>3. QED  BY <2>1, <2>2 DEF DecoderReadsWhatWasWritten
<1>3. FixtureHoldsPictures
  <2>1. SUFFICES ASSUME byteStage # "split"
                 PROVE  /\ fixture.sets = SetsOf(written)
                        /\ Len(fixture.pictures) = Len(Coded(written))
                        /\ \A k \in DOMAIN fixture.pictures :
                             /\ Coded(fixture.pictures[k].nals) = <<Coded(written)[k]>>
                             /\ SetsOf(fixture.pictures[k].nals) = <<>>
                             /\ fixture.pictures[k].idr = (TypeOf(Coded(written)[k][1]) = Types.idr)
    BY DEF FixtureHoldsPictures
  <2>2. Gathering(fixture, written) /\ ~fixture.current.vcl  BY <1>1, <2>1 DEF GatheredSoFar
  <2>3. /\ fixture.sets = SetsOf(written) /\ fixture.pictures \in Seq(Picture)
        /\ Len(Coded(written)) = Len(fixture.pictures) + 0
        /\ \A k \in 1..Len(fixture.pictures) : Holds(fixture.pictures[k], Coded(written)[k])
    BY <2>2 DEF Gathering, Fixture
  <2>4. /\ Len(fixture.pictures) \in Nat /\ DOMAIN fixture.pictures = 1..Len(fixture.pictures)
        /\ \A k \in 1..Len(fixture.pictures) : fixture.pictures[k] \in Picture
    BY <2>3, LenProperties, ElementOfSeq
  <2>5. ASSUME NEW k \in DOMAIN fixture.pictures
        PROVE  /\ Coded(fixture.pictures[k].nals) = <<Coded(written)[k]>>
               /\ SetsOf(fixture.pictures[k].nals) = <<>>
               /\ fixture.pictures[k].idr = (TypeOf(Coded(written)[k][1]) = Types.idr)
    <3>1. Holds(fixture.pictures[k], Coded(written)[k]) /\ fixture.pictures[k] \in Picture  BY <2>3, <2>4
    <3>2. fixture.pictures[k].idr \in BOOLEAN  BY <3>1 DEF Picture
    <3>3. QED  BY <3>1, <3>2 DEF Holds, IsIdr
  <2>6. QED  BY <2>3, <2>4, <2>5
<1>4. QED  BY <1>2, <1>3 DEF BytesSurvive

\* Every picture the encoder writes reaches the decoder byte for byte, through
\* the splitting, the rewriting, the walk, the fragments and the assembling,
\* and a fixture has a picture for every slice of it.
THEOREM BytesAlwaysSurvive == BytesSpec => []BytesSurvive
<1>1. BytesInit => BytesInv  BY BytesBegin
<1>2. BytesInv /\ [BytesNext]_bytesVars => BytesInv'
  BY SplitKeeps, ConvertKeeps, ArriveKeeps, BytesStays DEF BytesNext
<1>3. BytesInv => BytesSurvive  BY BytesInvSurvives
<1>4. QED  BY <1>1, <1>2, <1>3, PTL DEF BytesSpec
=============================================================================
