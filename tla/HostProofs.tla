------------------------------ MODULE HostProofs ------------------------------
(***************************************************************************)
(* The host beside its input state, at every size.  Its sound: for every   *)
(* frame length, every packet the endpoint may deliver and every circle of *)
(* stamps and numbers, the counts add up and the stamps count samples.     *)
(* Its pictures: for every pool and every run, what is on the wire is true *)
(* and no slot is in two places.  Its screen: no frame is slept through.   *)
(* And its controllers: the host of them fed any messages, and joined with *)
(* the senders, for every number of slots, generations and numbers.  And    *)
(* the array of words that stores its deduplication window, for words of   *)
(* any size and any number of them.                                        *)
(***************************************************************************)
EXTENDS AudioSource, VideoHost, ScreenCapture, GamepadLink, DedupBits, WellFoundedInduction,
        TLAPS


-----------------------------------------------------------------------------
(* Remainders. *)

LEMMA Cut ==
  ASSUME NEW n \in Nat \ {0}, NEW a \in Int
  PROVE  a % n \in 0..(n - 1) /\ a = n * (a \div n) + (a % n) /\ (a \div n) \in Int
OBVIOUS

LEMMA Distribute ==
  ASSUME NEW n \in Int, NEW a \in Int, NEW b \in Int
  PROVE  n * (a + b) = n * a + n * b
OBVIOUS

\* The remainder is the only number of the circle that is whole turns away.
LEMMA Remainder ==
  ASSUME NEW n \in Nat \ {0}, NEW r \in 0..(n - 1), NEW k \in Int
  PROVE  (n * k + r) % n = r
<1> DEFINE a == n * k + r
           q == a \div n
           s == a % n
<1>0. a \in Int  OBVIOUS
<1>1. s \in 0..(n - 1) /\ a = n * q + s /\ q \in Int  BY <1>0, Cut
<1> HIDE DEF q, s
<1>2. n * (k - q) = s - r  BY <1>1
<1>3. CASE k - q >= 1
  <2>1. n * (k - q) >= n  BY <1>1, <1>3
  <2>2. QED  BY <1>1, <1>2, <2>1
<1>4. CASE k - q =< -1
  <2>1. n * (k - q) =< -n  BY <1>1, <1>4
  <2>2. QED  BY <1>1, <1>2, <2>1
<1>5. CASE k = q
  <2>1. s = r  BY <1>1, <1>5 DEF a
  <2>2. QED  BY <2>1 DEF s
<1>6. QED  BY <1>1, <1>3, <1>4, <1>5

\* A step round the circle may be taken before or after the remainder.
LEMMA StepRound ==
  ASSUME NEW n \in Nat \ {0}, NEW a \in Int, NEW b \in Int
  PROVE  ((a % n) + b) % n = (a + b) % n
<1> DEFINE k == a \div n
           r == a % n
           l == (r + b) \div n
           t == (r + b) % n
<1>1. r \in 0..(n - 1) /\ a = n * k + r /\ k \in Int  BY Cut
<1> HIDE DEF k, r
<1>2. r + b \in Int  BY <1>1
<1>3. t \in 0..(n - 1) /\ r + b = n * l + t /\ l \in Int  BY <1>2, Cut
<1> HIDE DEF l, t
<1>4. a + b = n * k + n * l + t  BY <1>1, <1>3
<1>5. a + b = n * (k + l) + t  BY <1>1, <1>3, <1>4, Distribute
<1>6. (a + b) % n = t
  <2> DEFINE m == k + l
  <2>1. m \in Int  BY <1>1, <1>3
  <2>2. a + b = n * m + t  BY <1>5
  <2> HIDE DEF m
  <2>3. (n * m + t) % n = t  BY <1>3, <2>1, Remainder
  <2>4. QED  BY <2>2, <2>3
<1>7. QED  BY <1>6 DEF r, t

-----------------------------------------------------------------------------
(* The inductive invariant. *)

\* What the counts say of each other: nothing is in hand but while a packet is
\* carried, a refused frame was encoded, and a count of zero means none at all.
TotalsSettled ==
  /\ loop # "carrying" => toEncode = 0
  /\ loop = "carrying" => expectedAt # Unknown
  /\ expectedAt = Unknown <=> totals.packets = 0
  /\ totals.packets = 0 => /\ totals.frames = 0 /\ wire = {}
                           /\ totals.gapFrames = 0 /\ totals.rewindFrames = 0
  /\ totals.gaps = 0 => totals.gapFrames = 0
  /\ totals.rewinds = 0 => totals.rewindFrames = 0
  /\ carried.unreadable = 0 => skipped = 0
  /\ carried.encoded >= carried.steps

\* Without a residue the last packet ends where a frame does.
EndsWhole ==
  (expectedAt # Unknown /\ carried.residue = 0 /\ carried.unreadable = 0)
    => (expectedAt - totals.last) % CodecSamples = 0

SourceInv == /\ SourceTypeOK /\ CaptureIsAccounted /\ StampsCountSamples
             /\ TotalsSettled /\ EndsWhole

LEMMA SourceStarts == SourceInit => SourceInv
<1> SUFFICES ASSUME SourceInit PROVE SourceInv
  OBVIOUS
<1>1. SourceTypeOK
  BY SourceAssumption DEF SourceInit, SourceTypeOK, TotalsType, CarriedType, Unknown
<1>2. CaptureIsAccounted
  <2>1. CodecSamples * (0 + 0 + 0) = 0  BY SourceAssumption
  <2>2. QED
    BY <2>1 DEF SourceInit, CaptureIsAccounted, PositionsBalance, SamplesLeaveCounted
<1>3. StampsCountSamples
  <2>1. FirstStamp + CodecSamples * 0 = FirstStamp /\ FirstNumber + 0 = FirstNumber
    BY SourceAssumption
  <2>2. FirstStamp % StampCircle = FirstStamp /\ FirstNumber % NumberCircle = FirstNumber
    BY SourceAssumption
  <2>3. QED  BY <2>1, <2>2 DEF SourceInit, StampsCountSamples
<1>4. TotalsSettled /\ EndsWhole  BY DEF SourceInit, TotalsSettled, EndsWhole, Unknown
<1>5. QED  BY <1>1, <1>2, <1>3, <1>4 DEF SourceInv

-----------------------------------------------------------------------------
(* A packet is taken. *)

\* What recording a packet does, in the terms of the invariant.
LEMMA Recorded ==
  ASSUME SourceInv, NEW at \in Starts, NEW frames \in PacketSizes, Record(at, frames)
  PROVE  /\ at \in Nat /\ frames \in Nat \ {0} /\ expectedAt' = at + frames
         /\ totals' \in TotalsType /\ totals'.last = at
         /\ totals'.packets = totals.packets + 1 /\ totals'.frames = totals.frames + frames
         /\ totals.packets > 0 => totals'.first = totals.first
         /\ totals'.gaps >= totals.gaps /\ totals'.rewinds >= totals.rewinds
         /\ totals'.gaps = 0 => totals'.gapFrames = 0
         /\ totals'.rewinds = 0 => totals'.rewindFrames = 0
         /\ totals'.first + totals'.frames + totals'.gapFrames = expectedAt' + totals'.rewindFrames
<1> DEFINE off == IF expectedAt = Unknown THEN 0 ELSE at - expectedAt
<1>1. at \in Nat /\ frames \in Nat \ {0}
  BY SourceAssumption DEF Starts
<1>2. totals \in TotalsType /\ expectedAt \in Nat \cup {Unknown}
  BY DEF SourceInv, SourceTypeOK
<1>3. off \in Int  BY <1>1, <1>2
<1>4. /\ totals' = [totals EXCEPT
           !.packets = totals.packets + 1, !.frames = totals.frames + frames,
           !.first = IF totals.packets = 0 THEN at ELSE totals.first, !.last = at,
           !.gaps = totals.gaps + (IF off > 0 THEN 1 ELSE 0),
           !.gapFrames = totals.gapFrames + (IF off > 0 THEN off ELSE 0),
           !.rewinds = totals.rewinds + (IF off < 0 THEN 1 ELSE 0),
           !.rewindFrames = totals.rewindFrames + (IF off < 0 THEN -off ELSE 0)]
      /\ expectedAt' = at + frames
  BY DEF Record
<1> HIDE DEF off
<1>5. /\ totals'.packets = totals.packets + 1 /\ totals'.frames = totals.frames + frames
      /\ totals'.first = (IF totals.packets = 0 THEN at ELSE totals.first) /\ totals'.last = at
      /\ totals'.gaps = totals.gaps + (IF off > 0 THEN 1 ELSE 0)
      /\ totals'.gapFrames = totals.gapFrames + (IF off > 0 THEN off ELSE 0)
      /\ totals'.rewinds = totals.rewinds + (IF off < 0 THEN 1 ELSE 0)
      /\ totals'.rewindFrames = totals.rewindFrames + (IF off < 0 THEN -off ELSE 0)
  BY <1>2, <1>4 DEF TotalsType
<1>6. /\ totals.packets \in Nat /\ totals.frames \in Nat /\ totals.first \in Nat
      /\ totals.gaps \in Nat /\ totals.gapFrames \in Nat
      /\ totals.rewinds \in Nat /\ totals.rewindFrames \in Nat
  BY <1>2 DEF TotalsType
<1>7. totals' \in TotalsType
  <2>1. /\ totals.packets + 1 \in Nat /\ totals.frames + frames \in Nat
        /\ (IF totals.packets = 0 THEN at ELSE totals.first) \in Nat
        /\ totals.gaps + (IF off > 0 THEN 1 ELSE 0) \in Nat
        /\ totals.gapFrames + (IF off > 0 THEN off ELSE 0) \in Nat
        /\ totals.rewinds + (IF off < 0 THEN 1 ELSE 0) \in Nat
        /\ totals.rewindFrames + (IF off < 0 THEN -off ELSE 0) \in Nat
    BY <1>1, <1>3, <1>6
  <2>2. QED  BY <2>1, <1>1, <1>2, <1>4 DEF TotalsType
<1>8. /\ totals'.gaps >= totals.gaps /\ totals'.rewinds >= totals.rewinds
      /\ totals'.gaps = 0 => totals'.gapFrames = 0
      /\ totals'.rewinds = 0 => totals'.rewindFrames = 0
  BY <1>3, <1>5, <1>6 DEF SourceInv, TotalsSettled
<1>9. totals'.first + totals'.frames + totals'.gapFrames = expectedAt' + totals'.rewindFrames
  <2>1. CASE expectedAt = Unknown
    <3>1. /\ totals.packets = 0 /\ totals.frames = 0
          /\ totals.gapFrames = 0 /\ totals.rewindFrames = 0 /\ off = 0
      BY <2>1 DEF SourceInv, TotalsSettled, off
    <3>2. QED  BY <3>1, <1>1, <1>4, <1>5
  <2>2. CASE expectedAt # Unknown
    <3>1. totals.packets # 0 /\ off = at - expectedAt /\ expectedAt \in Nat
      BY <2>2, <1>2 DEF SourceInv, TotalsSettled, off
    <3>2. totals.first + totals.frames + totals.gapFrames = expectedAt + totals.rewindFrames
      BY <2>2 DEF SourceInv, CaptureIsAccounted, PositionsBalance
    <3>3. QED  BY <3>1, <3>2, <1>1, <1>4, <1>5, <1>6
  <2>3. QED  BY <2>1, <2>2
<1>10. QED  BY <1>1, <1>4, <1>5, <1>6, <1>7, <1>8, <1>9

\* A step that numbers nothing leaves the stamps right.
LEMMA NothingNumbered ==
  ASSUME SourceInv, packetizer' = packetizer, wire' = wire,
         carried'.steps = carried.steps, carried'.exact = carried.exact,
         wire # {} => totals'.first = totals.first, Unbroken' => Unbroken
  PROVE  StampsCountSamples'
BY DEF SourceInv, StampsCountSamples

LEMMA TakeStep ==
  ASSUME SourceInv, NEW at \in Starts, NEW frames \in PacketSizes,
         TakePacket(at, frames) \/ TakeUnreadable(at, frames)
  PROVE  SourceInv'
<1> DEFINE q == frames \div CodecSamples
           r == frames % CodecSamples
<1>1. Record(at, frames) /\ loop = "draining" /\ loop' = "carrying"
  BY DEF TakePacket, TakeUnreadable
<1>2. /\ at \in Nat /\ frames \in Nat \ {0} /\ expectedAt' = at + frames
      /\ totals' \in TotalsType /\ totals'.last = at
      /\ totals'.packets = totals.packets + 1 /\ totals'.frames = totals.frames + frames
      /\ totals.packets > 0 => totals'.first = totals.first
      /\ totals'.gaps >= totals.gaps /\ totals'.rewinds >= totals.rewinds
      /\ totals'.gaps = 0 => totals'.gapFrames = 0
      /\ totals'.rewinds = 0 => totals'.rewindFrames = 0
      /\ totals'.first + totals'.frames + totals'.gapFrames = expectedAt' + totals'.rewindFrames
  BY <1>1, Recorded
<1>3. /\ totals.packets \in Nat /\ totals.frames \in Nat
      /\ totals.gaps \in Nat /\ totals.rewinds \in Nat
      /\ carried \in CarriedType /\ carried.encoded \in Nat /\ carried.encodeFailures \in Nat
      /\ carried.residue \in Nat /\ carried.unreadable \in Nat /\ skipped \in Nat
      /\ toEncode = 0
  BY <1>1 DEF SourceInv, SourceTypeOK, TotalsType, CarriedType, TotalsSettled
<1>4. r \in 0..(CodecSamples - 1) /\ frames = CodecSamples * q + r /\ q \in Int
  BY <1>2, SourceAssumption, Cut
<1>5. q \in Nat
  <2>1. q >= 0  BY <1>2, SourceAssumption
  <2>2. QED  BY <1>4, <2>1
<1>6. expectedAt' \in Nat /\ expectedAt' # Unknown /\ expectedAt' - totals'.last = frames
  BY <1>2 DEF Unknown
<1>7. /\ wire' = wire /\ packetizer' = packetizer /\ errors' = errors
      /\ carried' \in CarriedType /\ toEncode' \in Nat /\ skipped' \in Nat
      /\ carried'.steps = carried.steps /\ carried'.exact = carried.exact
      /\ carried'.encoded = carried.encoded /\ carried'.encodeFailures = carried.encodeFailures
      /\ carried'.sent = carried.sent /\ carried'.sendFailures = carried.sendFailures
      /\ \/ /\ toEncode' = q /\ carried'.residue = carried.residue + r
            /\ skipped' = skipped /\ carried'.unreadable = carried.unreadable
         \/ /\ toEncode' = 0 /\ carried'.residue = carried.residue
            /\ skipped' = skipped + frames /\ carried'.unreadable = carried.unreadable + 1
  <2>1. CASE TakePacket(at, frames)
    <3>1. carried' = [carried EXCEPT !.residue = carried.residue + r] /\ toEncode' = q
          /\ wire' = wire /\ packetizer' = packetizer /\ errors' = errors /\ skipped' = skipped
      BY <2>1 DEF TakePacket
    <3>2. carried.residue + r \in Nat  BY <1>3, <1>4, SourceAssumption
    <3> HIDE DEF q, r
    <3>3. QED  BY <3>1, <3>2, <1>3, <1>5 DEF CarriedType
  <2>2. CASE TakeUnreadable(at, frames)
    <3>1. carried' = [carried EXCEPT !.unreadable = carried.unreadable + 1] /\ toEncode' = 0
          /\ wire' = wire /\ packetizer' = packetizer /\ errors' = errors
          /\ skipped' = skipped + frames
      BY <2>2, <1>3 DEF TakeUnreadable
    <3>2. carried.unreadable + 1 \in Nat /\ skipped + frames \in Nat  BY <1>2, <1>3
    <3>3. QED  BY <3>1, <3>2, <1>3 DEF CarriedType
  <2>3. QED  BY <2>1, <2>2
<1>8. SourceTypeOK'
  BY <1>1, <1>2, <1>6, <1>7 DEF SourceInv, SourceTypeOK
<1> HIDE DEF q, r
<1>9. CaptureIsAccounted'
  <2>1. PositionsBalance'  BY <1>2 DEF PositionsBalance
  <2>2. SamplesLeaveCounted'
    <3> DEFINE done == carried.encoded + carried.encodeFailures
    <3>1. totals.frames = CodecSamples * done + carried.residue + skipped
      BY <1>3 DEF SourceInv, CaptureIsAccounted, SamplesLeaveCounted
    <3>2. CodecSamples * (done + q) = CodecSamples * done + CodecSamples * q
      BY <1>3, <1>5, SourceAssumption, Distribute
    <3>3. CodecSamples * done \in Nat /\ CodecSamples * q \in Nat
      BY <1>3, <1>5, SourceAssumption
    <3>4. CodecSamples * (done + toEncode') + carried'.residue + skipped' = totals'.frames
      <4>1. CASE toEncode' = q /\ carried'.residue = carried.residue + r /\ skipped' = skipped
        BY <4>1, <3>1, <3>2, <3>3, <1>2, <1>3, <1>4
      <4>2. CASE toEncode' = 0 /\ carried'.residue = carried.residue /\ skipped' = skipped + frames
        BY <4>2, <3>1, <3>3, <1>2, <1>3
      <4>3. QED  BY <4>1, <4>2, <1>7
    <3>5. QED  BY <3>4, <1>7 DEF SamplesLeaveCounted
  <2>3. carried'.encoded = carried'.sent + carried'.sendFailures
    BY <1>7 DEF SourceInv, CaptureIsAccounted
  <2>4. QED  BY <2>1, <2>2, <2>3 DEF CaptureIsAccounted
<1>10. Unbroken' => Unbroken
  <2>1. r >= 0 /\ r \in Int  BY <1>4, SourceAssumption
  <2>2. totals'.gaps = 0 => totals.gaps = 0  BY <1>2, <1>3
  <2>3. totals'.rewinds = 0 => totals.rewinds = 0  BY <1>2, <1>3
  <2>4. carried'.residue = 0 => carried.residue = 0  BY <2>1, <1>3, <1>7
  <2>5. carried'.unreadable = 0 => carried.unreadable = 0  BY <1>3, <1>7
  <2>6. QED  BY <2>2, <2>3, <2>4, <2>5, <1>7 DEF Unbroken
<1>11. StampsCountSamples'
  <2>1. wire # {} => totals.packets > 0  BY <1>3 DEF SourceInv, TotalsSettled
  <2>2. QED  BY <2>1, <1>2, <1>7, <1>10, NothingNumbered
<1>12. TotalsSettled'
  BY <1>1, <1>2, <1>3, <1>6, <1>7 DEF SourceInv, TotalsSettled
<1>13. EndsWhole'
  <2> SUFFICES ASSUME carried'.residue = 0, carried'.unreadable = 0
               PROVE  (expectedAt' - totals'.last) % CodecSamples = 0
    BY DEF EndsWhole
  <2>1. carried'.residue = carried.residue + r  BY <1>3, <1>7
  <2>2. r = 0  BY <2>1, <1>3, <1>4, SourceAssumption
  <2>3. QED  BY <2>2, <1>6 DEF r
<1>14. QED  BY <1>8, <1>9, <1>11, <1>12, <1>13 DEF SourceInv

-----------------------------------------------------------------------------
(* A frame leaves, or does not. *)

\* As long as nothing was lost, the frame in hand was captured as far into the
\* sound as the steps of the counters say.
LEMMA CapturedInStep ==
  ASSUME SourceInv, loop = "carrying", Unbroken
  PROVE  CapturedAt = totals.first + CodecSamples * carried.steps
<1> DEFINE long == expectedAt - totals.last
           cut  == long \div CodecSamples
<1>1. /\ expectedAt \in Nat /\ expectedAt # Unknown /\ toEncode \in Nat
      /\ totals.last \in Nat /\ totals.first \in Nat /\ totals.frames \in Nat
      /\ carried.steps \in Nat
  BY DEF SourceInv, SourceTypeOK, TotalsSettled, TotalsType, CarriedType
<1>2. /\ totals.gapFrames = 0 /\ totals.rewindFrames = 0 /\ skipped = 0 /\ carried.residue = 0
      /\ carried.encodeFailures = 0 /\ carried.encoded = carried.steps /\ carried.unreadable = 0
  BY DEF SourceInv, TotalsSettled, Unbroken
<1>3. totals.first + totals.frames = expectedAt
  BY <1>1, <1>2 DEF SourceInv, CaptureIsAccounted, PositionsBalance
<1>4. totals.frames = CodecSamples * (carried.steps + 0 + toEncode) + 0 + 0
  BY <1>2, Zenon DEF SourceInv, CaptureIsAccounted, SamplesLeaveCounted
<1>5. totals.frames = CodecSamples * carried.steps + CodecSamples * toEncode
  BY <1>1, <1>4, SourceAssumption, Distribute
<1>6. long % CodecSamples = 0  BY <1>1, <1>2 DEF SourceInv, EndsWhole
<1>7. long \in Int /\ long = CodecSamples * cut + 0 /\ cut \in Int
  <2>1. long \in Int  BY <1>1
  <2> HIDE DEF long
  <2>2. long = CodecSamples * (long \div CodecSamples) + (long % CodecSamples)
        /\ (long \div CodecSamples) \in Int
    BY <2>1, SourceAssumption, Cut
  <2>3. QED  BY <2>1, <2>2, <1>6
<1>8. CapturedAt = totals.last + CodecSamples * (cut - toEncode)  BY DEF CapturedAt
<1>9. long = expectedAt - totals.last  OBVIOUS
<1> HIDE DEF cut, long
<1>10. CodecSamples * (cut - toEncode) = CodecSamples * cut - CodecSamples * toEncode
  BY <1>1, <1>7, SourceAssumption
<1>11. CodecSamples * cut = long
  BY <1>7, SourceAssumption
<1>12. CodecSamples * toEncode \in Int /\ CodecSamples * carried.steps \in Int
  BY <1>1, SourceAssumption
<1>13. QED  BY <1>1, <1>3, <1>5, <1>7, <1>8, <1>9, <1>10, <1>11, <1>12

\* The frames of a packet in hand become one fewer and those done with one
\* more, so the samples stay accounted for.
LEMMA OneFrameOn ==
  ASSUME SourceInv, loop = "carrying", toEncode > 0, toEncode' = toEncode - 1, loop' = loop,
         expectedAt' = expectedAt, totals' = totals, skipped' = skipped, errors' = errors,
         carried' \in CarriedType,
         carried'.encoded + carried'.encodeFailures = carried.encoded + carried.encodeFailures + 1,
         carried'.residue = carried.residue, carried'.unreadable = carried.unreadable,
         carried'.encoded = carried'.sent + carried'.sendFailures
  PROVE  CaptureIsAccounted' /\ EndsWhole' /\ toEncode' \in Nat
<1>1. /\ toEncode \in Nat /\ carried.encoded \in Nat /\ carried.encodeFailures \in Nat
      /\ carried'.encoded \in Nat /\ carried'.encodeFailures \in Nat
  BY DEF SourceInv, SourceTypeOK, CarriedType
<1>2. carried'.encoded + carried'.encodeFailures + toEncode'
        = carried.encoded + carried.encodeFailures + toEncode
  BY <1>1
<1>3. SamplesLeaveCounted'
  BY <1>2, Zenon DEF SourceInv, CaptureIsAccounted, SamplesLeaveCounted
<1>4. PositionsBalance'  BY DEF SourceInv, CaptureIsAccounted, PositionsBalance
<1>5. EndsWhole'  BY DEF SourceInv, EndsWhole
<1>6. QED  BY <1>1, <1>3, <1>4, <1>5 DEF CaptureIsAccounted

\* The encoder fails, or the packetizer refuses.
LEMMA FailStep ==
  ASSUME SourceInv, EncodeFails \/ PacketRefused
  PROVE  SourceInv'
<1>1. /\ loop = "carrying" /\ toEncode > 0 /\ toEncode' = toEncode - 1 /\ loop' = loop
      /\ expectedAt' = expectedAt /\ totals' = totals /\ skipped' = skipped /\ errors' = errors
      /\ wire' = wire /\ packetizer' = packetizer
  BY DEF EncodeFails, PacketRefused
<1>2. /\ carried \in CarriedType
      /\ carried.encoded \in Nat /\ carried.encodeFailures \in Nat /\ carried.steps \in Nat
      /\ carried.sent \in Nat /\ carried.sendFailures \in Nat
      /\ carried.encoded = carried.sent + carried.sendFailures /\ carried.encoded >= carried.steps
  BY DEF SourceInv, SourceTypeOK, CarriedType, CaptureIsAccounted, TotalsSettled
<1>3. /\ carried' \in CarriedType
      /\ carried'.steps = carried.steps /\ carried'.exact = carried.exact
      /\ carried'.residue = carried.residue /\ carried'.unreadable = carried.unreadable
      /\ \/ /\ carried'.encoded = carried.encoded /\ carried'.sent = carried.sent
            /\ carried'.sendFailures = carried.sendFailures
            /\ carried'.encodeFailures = carried.encodeFailures + 1
         \/ /\ carried'.encoded = carried.encoded + 1 /\ carried'.sent = carried.sent
            /\ carried'.sendFailures = carried.sendFailures + 1
            /\ carried'.encodeFailures = carried.encodeFailures
  <2>1. CASE EncodeFails
    <3>1. carried' = [carried EXCEPT !.encodeFailures = carried.encodeFailures + 1]
      BY <2>1 DEF EncodeFails
    <3>2. carried.encodeFailures + 1 \in Nat  BY <1>2
    <3>3. QED  BY <3>1, <3>2, <1>2 DEF CarriedType
  <2>2. CASE PacketRefused
    <3>1. carried' = [carried EXCEPT !.encoded = carried.encoded + 1,
                                     !.sendFailures = carried.sendFailures + 1]
      BY <2>2 DEF PacketRefused
    <3>2. carried.encoded + 1 \in Nat /\ carried.sendFailures + 1 \in Nat  BY <1>2
    <3>3. QED  BY <3>1, <3>2, <1>2 DEF CarriedType
  <2>3. QED  BY <2>1, <2>2
<1>4. /\ carried'.encoded + carried'.encodeFailures = carried.encoded + carried.encodeFailures + 1
      /\ carried'.encoded = carried'.sent + carried'.sendFailures
      /\ carried'.encoded >= carried'.steps
  BY <1>2, <1>3
<1>5. CaptureIsAccounted' /\ EndsWhole' /\ toEncode' \in Nat
  BY <1>1, <1>3, <1>4, OneFrameOn
<1>6. SourceTypeOK'  BY <1>1, <1>3, <1>5 DEF SourceInv, SourceTypeOK
<1>7. ~Unbroken'
  BY <1>2, <1>3 DEF Unbroken
<1>8. StampsCountSamples'  BY <1>1, <1>3, <1>7, NothingNumbered
<1>9. TotalsSettled'  BY <1>1, <1>3, <1>4 DEF SourceInv, TotalsSettled
<1>10. QED  BY <1>5, <1>6, <1>8, <1>9 DEF SourceInv

\* One more step of a counter on its circle.
LEMMA CounterMoves ==
  ASSUME NEW n \in Nat \ {0}, NEW from \in Nat, NEW step \in Nat, NEW k \in Nat
  PROVE  (((from + step * k) % n) + step) % n = (from + step * (k + 1)) % n
<1> DEFINE reached == from + step * k
<1>1. reached \in Int /\ step \in Int /\ from + step * (k + 1) = reached + step  OBVIOUS
<1> HIDE DEF reached
<1>2. ((reached % n) + step) % n = (reached + step) % n  BY <1>1, StepRound
<1>3. (((from + step * k) % n) + step) % n = ((reached % n) + step) % n  BY DEF reached
<1>4. (reached + step) % n = (from + step * (k + 1)) % n  BY <1>1
<1>5. QED  BY <1>2, <1>3, <1>4, Zenon

\* A frame is numbered, and the socket takes it or not.
LEMMA SendStep ==
  ASSUME SourceInv, NEW taken \in BOOLEAN, SendFrame(taken)
  PROVE  SourceInv'
<1>1. /\ loop = "carrying" /\ toEncode > 0 /\ toEncode' = toEncode - 1 /\ loop' = loop
      /\ expectedAt' = expectedAt /\ totals' = totals /\ skipped' = skipped /\ errors' = errors
      /\ packetizer' = Advanced
      /\ wire' = IF taken THEN wire \cup {Datagram} ELSE wire
  BY DEF SendFrame
<1>2. /\ carried \in CarriedType /\ packetizer.stamp \in 0..(StampCircle - 1)
      /\ carried.encoded \in Nat /\ carried.encodeFailures \in Nat /\ carried.steps \in Nat
      /\ carried.sent \in Nat /\ carried.sendFailures \in Nat /\ carried.exact \in Nat
      /\ carried.encoded = carried.sent + carried.sendFailures /\ carried.encoded >= carried.steps
      /\ packetizer.number \in 0..(NumberCircle - 1)
  BY DEF SourceInv, SourceTypeOK, CarriedType, CaptureIsAccounted, TotalsSettled
<1>3. /\ StampCircle \in Nat \ {0} /\ NumberCircle \in Nat \ {0} /\ CodecSamples \in Nat
      /\ FirstStamp \in Nat /\ FirstNumber \in Nat /\ CodecSamples \in 0..(StampCircle - 1)
  BY SourceAssumption
<1>4. /\ Advanced.stamp = (packetizer.stamp + CodecSamples) % StampCircle
      /\ Advanced.number = (packetizer.number + 1) % NumberCircle
      /\ Advanced = [number |-> Advanced.number, stamp |-> Advanced.stamp]
  BY DEF Advanced
<1>5. Advanced.stamp \in 0..(StampCircle - 1) /\ Advanced.number \in 0..(NumberCircle - 1)
  <2>1. packetizer.stamp + CodecSamples \in Int /\ packetizer.number + 1 \in Int  BY <1>2, <1>3
  <2>2. QED  BY <2>1, <1>3, <1>4, Cut
<1>6. (Advanced.stamp - packetizer.stamp) % StampCircle = CodecSamples
  <2> DEFINE on == packetizer.stamp + CodecSamples
             back == 0 - packetizer.stamp
  <2>1. on \in Int /\ back \in Int /\ on + back = CodecSamples  BY <1>2, <1>3
  <2>2. Advanced.stamp - packetizer.stamp = (on % StampCircle) + back
    BY <1>2, <1>3, <1>4, <1>5
  <2> HIDE DEF on, back
  <2>3. ((on % StampCircle) + back) % StampCircle = (on + back) % StampCircle
    BY <2>1, <1>3, StepRound
  <2>4. CodecSamples % StampCircle = CodecSamples  BY <1>3
  <2>5. QED  BY <2>1, <2>2, <2>3, <2>4
<1>7. /\ carried' \in CarriedType
      /\ carried'.encoded = carried.encoded + 1 /\ carried'.steps = carried.steps + 1
      /\ carried'.exact = carried.exact + 1
      /\ carried'.encodeFailures = carried.encodeFailures
      /\ carried'.residue = carried.residue /\ carried'.unreadable = carried.unreadable
      /\ carried'.encoded = carried'.sent + carried'.sendFailures
  <2> DEFINE took == IF taken THEN 1 ELSE 0
             left == IF taken THEN 0 ELSE 1
  <2>1. carried' = [carried EXCEPT !.encoded = carried.encoded + 1, !.steps = carried.steps + 1,
                                   !.exact = carried.exact + 1, !.sent = carried.sent + took,
                                   !.sendFailures = carried.sendFailures + left]
    BY <1>6 DEF SendFrame
  <2>2. took \in Nat /\ left \in Nat /\ took + left = 1  OBVIOUS
  <2> HIDE DEF took, left
  <2>3. /\ carried.encoded + 1 \in Nat /\ carried.steps + 1 \in Nat /\ carried.exact + 1 \in Nat
        /\ carried.sent + took \in Nat /\ carried.sendFailures + left \in Nat
    BY <1>2, <2>2
  <2>4. carried.encoded + 1 = (carried.sent + took) + (carried.sendFailures + left)
    <3>1. carried.sent \in Nat /\ carried.sendFailures \in Nat  BY <1>2
    <3>2. carried.encoded = carried.sent + carried.sendFailures  BY <1>2
    <3>3. QED  BY ONLY <2>2, <3>1, <3>2
  <2>5. QED  BY <2>1, <2>3, <2>4, <1>2 DEF CarriedType
<1>8. carried'.encoded + carried'.encodeFailures = carried.encoded + carried.encodeFailures + 1
  BY <1>2, <1>7
<1>9. CaptureIsAccounted' /\ EndsWhole' /\ toEncode' \in Nat
  BY <1>1, <1>7, <1>8, OneFrameOn
<1>10. Datagram \in DatagramType
  <2>1. CapturedAt \in Int
    <3>1. /\ expectedAt \in Nat /\ totals.last \in Nat /\ toEncode \in Nat
      BY <1>1 DEF SourceInv, SourceTypeOK, TotalsType, TotalsSettled
    <3>2. (expectedAt - totals.last) \div CodecSamples \in Int
      <4> DEFINE long == expectedAt - totals.last
      <4>1. long \in Int  BY <3>1
      <4> HIDE DEF long
      <4>2. long \div CodecSamples \in Int  BY <4>1, SourceAssumption, Cut
      <4>3. QED  BY <4>2 DEF long
    <3> DEFINE cut == (expectedAt - totals.last) \div CodecSamples
    <3> HIDE DEF cut
    <3>3. totals.last + CodecSamples * (cut - toEncode) \in Int
      BY <3>1, <3>2, <1>3 DEF cut
    <3>4. QED  BY <3>3 DEF cut, CapturedAt
  <2>2. QED  BY <2>1, <1>2 DEF Datagram, DatagramType
<1>11. SourceTypeOK'
  <2>1. packetizer' \in [number : 0..(NumberCircle - 1), stamp : 0..(StampCircle - 1)]
    BY <1>1, <1>4, <1>5
  <2>2. wire' \subseteq DatagramType  BY <1>1, <1>10 DEF SourceInv, SourceTypeOK
  <2>3. QED  BY <2>1, <2>2, <1>1, <1>7, <1>9 DEF SourceInv, SourceTypeOK
<1>12. Unbroken' <=> Unbroken
  BY <1>1, <1>2, <1>7, <1>8 DEF Unbroken
<1>13. /\ packetizer.stamp = (FirstStamp + CodecSamples * carried.steps) % StampCircle
       /\ packetizer.number = (FirstNumber + carried.steps) % NumberCircle
       /\ carried.exact = carried.steps
  BY DEF SourceInv, StampsCountSamples
<1>14. StampsCountSamples'
  <2>1. packetizer'.stamp = (FirstStamp + CodecSamples * carried'.steps) % StampCircle
    <3>1. (((FirstStamp + CodecSamples * carried.steps) % StampCircle) + CodecSamples) % StampCircle
            = (FirstStamp + CodecSamples * (carried.steps + 1)) % StampCircle
      <4>1. carried.steps \in Nat /\ StampCircle \in Nat \ {0}
            /\ FirstStamp \in Nat /\ CodecSamples \in Nat
        BY <1>2, <1>3
      <4>2. QED  BY ONLY <4>1, CounterMoves, Zenon
    <3>2. packetizer'.stamp = (packetizer.stamp + CodecSamples) % StampCircle  BY <1>1, <1>4
    <3>3. QED  BY <3>1, <3>2, <1>7, <1>13, Zenon
  <2>2. packetizer'.number = (FirstNumber + carried'.steps) % NumberCircle
    <3>1. 1 * carried.steps = carried.steps /\ 1 * (carried.steps + 1) = carried.steps + 1
      BY <1>2
    <3>2. (((FirstNumber + 1 * carried.steps) % NumberCircle) + 1) % NumberCircle
            = (FirstNumber + 1 * (carried.steps + 1)) % NumberCircle
      <4>1. carried.steps \in Nat /\ NumberCircle \in Nat \ {0}
            /\ FirstNumber \in Nat /\ 1 \in Nat
        BY <1>2, <1>3
      <4>2. QED  BY ONLY <4>1, CounterMoves, Zenon
    <3>3. packetizer'.number = (packetizer.number + 1) % NumberCircle  BY <1>1, <1>4
    <3>4. QED  BY <3>1, <3>2, <3>3, <1>7, <1>13, Zenon
  <2>3. ASSUME NEW d \in wire'
        PROVE  /\ d.step < carried'.steps
               /\ d.stamp = (FirstStamp + CodecSamples * d.step) % StampCircle
               /\ d.number = (FirstNumber + d.step) % NumberCircle
               /\ Unbroken' => d.at = totals'.first + CodecSamples * d.step
    <3>1. CASE d \in wire
      <4>1. /\ d.step < carried.steps /\ d.step \in Nat
            /\ d.stamp = (FirstStamp + CodecSamples * d.step) % StampCircle
            /\ d.number = (FirstNumber + d.step) % NumberCircle
            /\ Unbroken => d.at = totals.first + CodecSamples * d.step
        BY <3>1 DEF SourceInv, SourceTypeOK, DatagramType, StampsCountSamples
      <4>2. d.step < carried'.steps  BY <4>1, <1>2, <1>7
      <4>3. QED  BY <4>1, <4>2, <1>1, <1>12, Zenon
    <3>2. CASE d = Datagram
      <4>1. /\ d.step = carried.steps /\ d.stamp = packetizer.stamp
            /\ d.number = packetizer.number /\ d.at = CapturedAt
        BY <3>2 DEF Datagram
      <4>2. Unbroken => d.at = totals.first + CodecSamples * d.step
        BY <4>1, <1>1, CapturedInStep, Zenon
      <4>3. d.step < carried'.steps  BY <4>1, <1>2, <1>7
      <4>4. QED  BY <4>1, <4>2, <4>3, <1>1, <1>12, <1>13, Zenon
    <3>3. QED  BY <3>1, <3>2, <1>1
  <2>4. carried'.exact = carried'.steps  BY <1>7, <1>13
  <2>5. QED  BY <2>1, <2>2, <2>3, <2>4, Zenon DEF StampsCountSamples
<1>15. TotalsSettled'
  <2>1. totals.packets # 0  BY <1>1 DEF SourceInv, TotalsSettled
  <2>2. QED  BY <2>1, <1>1, <1>2, <1>7 DEF SourceInv, TotalsSettled
<1>16. QED  BY <1>9, <1>11, <1>14, <1>15 DEF SourceInv

-----------------------------------------------------------------------------
(* The rest of the turn, and the theorems. *)

LEMMA QuietStep ==
  ASSUME SourceInv, UNCHANGED <<expectedAt, totals, carried, toEncode, packetizer, wire, skipped>>,
         loop' \in {"waiting", "draining", "carrying", "stopped"}, errors' \in Nat,
         loop' = loop \/ (loop' # "carrying" /\ toEncode = 0)
  PROVE  SourceInv'
<1>1. SourceTypeOK'  BY DEF SourceInv, SourceTypeOK
<1>2. CaptureIsAccounted'
  BY DEF SourceInv, CaptureIsAccounted, PositionsBalance, SamplesLeaveCounted
<1>3. Unbroken' => Unbroken  BY DEF Unbroken
<1>4. StampsCountSamples'  BY <1>3, NothingNumbered
<1>5. TotalsSettled' /\ EndsWhole'  BY DEF SourceInv, TotalsSettled, EndsWhole
<1>6. QED  BY <1>1, <1>2, <1>4, <1>5 DEF SourceInv

LEMMA SourceStep == SourceInv /\ [SourceNext]_soundVars => SourceInv'
<1> SUFFICES ASSUME SourceInv, [SourceNext]_soundVars PROVE SourceInv'
  OBVIOUS
<1>0. errors \in Nat /\ loop \in {"waiting", "draining", "carrying", "stopped"}
      /\ (loop # "carrying" => toEncode = 0)
  BY DEF SourceInv, SourceTypeOK, TotalsSettled
<1>1. CASE Wake \/ Drained \/ BufferError \/ StopSource
  BY <1>0, <1>1, QuietStep DEF Wake, Drained, BufferError, StopSource
<1>2. ASSUME NEW refused \in BOOLEAN, Release(refused) PROVE SourceInv'
  <2>1. /\ UNCHANGED <<expectedAt, totals, carried, toEncode, packetizer, wire, skipped>>
        /\ toEncode = 0 /\ loop' \in {"waiting", "draining"} /\ errors' \in Nat
    BY <1>0, <1>2 DEF Release
  <2>2. loop' \in {"waiting", "draining", "carrying", "stopped"} /\ loop' # "carrying"
    BY <2>1
  <2>3. QED  BY <2>1, <2>2, QuietStep
<1>3. ASSUME NEW at \in Starts, NEW frames \in PacketSizes,
             TakePacket(at, frames) \/ TakeUnreadable(at, frames)
      PROVE  SourceInv'
  BY <1>3, TakeStep
<1>4. CASE EncodeFails \/ PacketRefused  BY <1>4, FailStep
<1>5. ASSUME NEW taken \in BOOLEAN, SendFrame(taken) PROVE SourceInv'  BY <1>5, SendStep
<1>6. CASE UNCHANGED soundVars
  <2>1. /\ UNCHANGED <<expectedAt, totals, carried, toEncode, packetizer, wire, skipped>>
        /\ loop' = loop /\ errors' = errors
    BY <1>6 DEF soundVars
  <2>2. loop' \in {"waiting", "draining", "carrying", "stopped"} /\ errors' \in Nat
    BY <2>1, <1>0
  <2>3. QED  BY <2>1, <2>2, QuietStep
<1>7. CASE SourceNext
  BY <1>1, <1>2, <1>3, <1>4, <1>5, <1>7, Zenon DEF SourceNext
<1>8. QED  BY <1>6, <1>7

\* The invariant the theorems below are parts of.
THEOREM SourceInvariance == SourceSpec => []SourceInv
<1>1. QED  BY SourceStarts, SourceStep, PTL DEF SourceSpec

\* The state of the source stays well typed, whatever the endpoint delivers.
THEOREM SourceTypeCorrect == SourceSpec => []SourceTypeOK
<1>1. SourceInv => SourceTypeOK  BY DEF SourceInv
<1>2. QED  BY <1>1, SourceInvariance, PTL

\* From the device's position to the socket, every sample is delivered, missing
\* or gone back over, and every delivered one encoded or lost by a counted exit.
THEOREM CaptureAlwaysAccounted == SourceSpec => []CaptureIsAccounted
<1>1. SourceInv => CaptureIsAccounted  BY DEF SourceInv
<1>2. QED  BY <1>1, SourceInvariance, PTL

\* Numbers and timestamps move together, one frame at a time, round circles of
\* any size, and while nothing was lost they are places in the captured sound.
THEOREM StampsAlwaysCount == SourceSpec => []StampsCountSamples
<1>1. SourceInv => StampsCountSamples  BY DEF SourceInv
<1>2. QED  BY <1>1, SourceInvariance, PTL

\* The two together: every sample is accounted for, and every datagram says
\* truly which of them it carries.
THEOREM SoundAlwaysAccounted == SourceSpec => []SoundIsAccounted
<1>1. CaptureIsAccounted /\ StampsCountSamples => SoundIsAccounted
  BY DEF SoundIsAccounted
<1>2. QED  BY <1>1, CaptureAlwaysAccounted, StampsAlwaysCount, PTL

-----------------------------------------------------------------------------
(* The pictures the host sends. *)

\* How many pieces of work the completion thread has received.
Received == Len(results) + (IF working = NoWork THEN 0 ELSE 1)

\* Where each thread is, what it holds, and how far it has come: the frames
\* submitted are those received and those queued, numbered in order.
ThreadsAgree ==
  /\ submitter \in {"loop", "slot", "spin"} => inHand = NoSlot
  /\ submitter \in {"draw", "submit", "queue"} => inHand \in PoolSlots
  /\ submitter \in {"slot", "spin", "draw", "submit", "queue"} => submitted < FrameCount
  /\ submitter \in {"leave", "join", "ended"} => gaveUp \/ failed \/ submitted = FrameCount
  /\ accepting <=> submitter \notin {"join", "ended"}
  /\ completer \in {"receive", "ended"} <=> working = NoWork
  /\ completer = "ended" => workQueue = <<>> /\ ~accepting
  /\ submitter = "ended" => completer = "ended"
  /\ outcome # "none" => submitter = "ended"

InOrder ==
  /\ Received + Len(workQueue) = submitted
  /\ working # NoWork => working.frame = Len(results)
  /\ \A i \in DOMAIN workQueue : workQueue[i].frame = Received + i - 1

\* A slot queued for completion holds the picture of its frame until its
\* bitstream is copied.
SlotsHoldTheirPictures ==
  /\ submitter = "queue" => encoder[inHand].picture = submitted
  /\ \A i \in DOMAIN workQueue : encoder[workQueue[i].slot].picture = workQueue[i].frame
  /\ working # NoWork => encoder[working.slot].picture = working.frame
  /\ completer = "send" => copied = working.frame

\* Before a failure every frame received was sent, by an encoder that had
\* ended it; after one, none is waited for and a result says so.
FailureIsKept ==
  /\ failed => completer \in {"receive", "check", "fail", "report failure", "ended"}
  /\ completer = "report failure" => failed
  /\ failed => completer = "report failure" \/ \E i \in DOMAIN results : results[i] = "err"
  /\ ~failed =>
       /\ Len(onWire) = Len(results) + (IF completer = "report" THEN 1 ELSE 0)
       /\ \A i \in DOMAIN results : results[i] = "ok"
       /\ completer \in {"lock", "send", "report"} => ~encoder[working.slot].busy

\* The invariant: what the runs check and what it rests on.
VideoInv ==
  /\ VideoTypeOK /\ SlotsAreSound /\ StreamIsTrue
  /\ ThreadsAgree /\ InOrder /\ SlotsHoldTheirPictures /\ FailureIsKept
-----------------------------------------------------------------------------
\* The head of a channel and what stays, and a channel one longer.
LEMMA Taken ==
  ASSUME NEW S, NEW q \in Seq(S), q # <<>>
  PROVE  /\ Len(q) \in Nat \ {0} /\ DOMAIN q = 1..Len(q)
         /\ Head(q) = q[1] /\ Head(q) \in S /\ 1 \in DOMAIN q
         /\ Tail(q) \in Seq(S) /\ Len(Tail(q)) = Len(q) - 1
         /\ DOMAIN Tail(q) = 1..(Len(q) - 1)
         /\ \A i \in DOMAIN Tail(q) : i + 1 \in DOMAIN q /\ Tail(q)[i] = q[i + 1]
  OBVIOUS

LEMMA Added ==
  ASSUME NEW S, NEW q \in Seq(S), NEW e \in S
  PROVE  /\ Len(q) \in Nat /\ DOMAIN q = 1..Len(q)
         /\ Append(q, e) \in Seq(S) /\ Len(Append(q, e)) = Len(q) + 1
         /\ DOMAIN Append(q, e) = (DOMAIN q) \cup {Len(q) + 1}
         /\ Len(q) + 1 \notin DOMAIN q
         /\ \A i \in DOMAIN q : Append(q, e)[i] = q[i]
         /\ Append(q, e)[Len(q) + 1] = e
  OBVIOUS

\* Seen through a key that tells the members of a channel apart, the channel
\* without its head is without the head's key, and one longer has one key more.
LEMMA TakenOnce ==
  ASSUME NEW S, NEW k, NEW q \in Seq(S), q # <<>>, NEW r, r = Tail(q), NEW h, h = Head(q),
         \A i, j \in DOMAIN q : k[q[i]] = k[q[j]] => i = j
  PROVE  /\ \A i, j \in DOMAIN r : k[r[i]] = k[r[j]] => i = j
         /\ k[h] \notin {k[r[i]] : i \in DOMAIN r}
         /\ \A i \in DOMAIN q : q[i] = h \/ \E j \in DOMAIN r : r[j] = q[i]
         /\ \A i \in DOMAIN r : \E j \in DOMAIN q : q[j] = r[i]
         /\ \E j \in DOMAIN q : q[j] = h
<1>1. /\ DOMAIN q = 1..Len(q) /\ Len(q) \in Nat \ {0} /\ 1 \in DOMAIN q /\ h = q[1]
      /\ DOMAIN r = 1..(Len(q) - 1) /\ \A i \in DOMAIN r : i + 1 \in DOMAIN q /\ r[i] = q[i + 1]
  BY Taken
<1>2. \A i, j \in DOMAIN r : k[r[i]] = k[r[j]] => i = j
  <2> SUFFICES ASSUME NEW i \in DOMAIN r, NEW j \in DOMAIN r, k[r[i]] = k[r[j]] PROVE i = j
    OBVIOUS
  <2>1. i + 1 = j + 1  BY <1>1
  <2>2. QED  BY <1>1, <2>1
<1>3. \A i \in DOMAIN r : k[r[i]] # k[h]
  <2> SUFFICES ASSUME NEW i \in DOMAIN r, k[r[i]] = k[h] PROVE FALSE  OBVIOUS
  <2>1. i + 1 = 1  BY <1>1
  <2>2. QED  BY <1>1, <2>1
<1>4. \A i \in DOMAIN q : q[i] = h \/ \E j \in DOMAIN r : r[j] = q[i]
  <2> SUFFICES ASSUME NEW i \in DOMAIN q, i # 1 PROVE \E j \in DOMAIN r : r[j] = q[i]
    BY <1>1
  <2>1. i - 1 \in DOMAIN r /\ (i - 1) + 1 = i  BY <1>1
  <2>2. r[i - 1] = q[i]  BY <1>1, <2>1
  <2>3. QED  BY <2>1, <2>2
<1>5. \A i \in DOMAIN r : \E j \in DOMAIN q : q[j] = r[i]  BY <1>1
<1>6. \E j \in DOMAIN q : q[j] = h  BY <1>1
<1>7. QED  BY <1>2, <1>3, <1>4, <1>5, <1>6

\* One longer, by a member whose key is new.
LEMMA AddedOnce ==
  ASSUME NEW S, NEW k, NEW q \in Seq(S), NEW e \in S, NEW r, r = Append(q, e),
         \A i, j \in DOMAIN q : k[q[i]] = k[q[j]] => i = j,
         k[e] \notin {k[q[i]] : i \in DOMAIN q}
  PROVE  /\ \A i, j \in DOMAIN r : k[r[i]] = k[r[j]] => i = j
         /\ {k[r[i]] : i \in DOMAIN r} = {k[q[i]] : i \in DOMAIN q} \cup {k[e]}
<1>1. /\ DOMAIN r = (DOMAIN q) \cup {Len(q) + 1} /\ Len(q) + 1 \notin DOMAIN q
      /\ \A i \in DOMAIN q : r[i] = q[i]
      /\ r[Len(q) + 1] = e
  BY Added
<1> DEFINE n == Len(q) + 1
<1> HIDE DEF n
<1>2. DOMAIN r = (DOMAIN q) \cup {n} /\ r[n] = e  BY <1>1 DEF n
<1>3. \A i \in DOMAIN q : k[q[i]] # k[e]  OBVIOUS
<1>4. \A i, j \in DOMAIN r : k[r[i]] = k[r[j]] => i = j
  <2> SUFFICES ASSUME NEW i \in DOMAIN r, NEW j \in DOMAIN r, k[r[i]] = k[r[j]] PROVE i = j
    OBVIOUS
  <2>1. CASE i = n \/ j = n  BY <1>1, <1>2, <1>3, <2>1
  <2>2. CASE i # n /\ j # n  BY <1>1, <1>2, <2>2
  <2>3. QED  BY <2>1, <2>2
<1>5. {k[r[i]] : i \in DOMAIN r} = {k[q[i]] : i \in DOMAIN q} \cup {k[e]}
  <2>1. \A i \in DOMAIN r : i = n \/ (i \in DOMAIN q /\ r[i] = q[i])  BY <1>1, <1>2
  <2>2. n \in DOMAIN r /\ \A i \in DOMAIN q : i \in DOMAIN r /\ r[i] = q[i]  BY <1>1, <1>2
  <2>3. QED  BY <1>2, <2>1, <2>2
<1>6. QED  BY <1>4, <1>5

\* A piece of work names a slot of the pool; no work names none.
LEMMA WorkIsSome ==
  /\ \A w \in Work : w # NoWork /\ w.slot \in PoolSlots /\ w.frame \in FrameIds
  /\ NoWork.slot = NoSlot /\ NoSlot \notin PoolSlots
  /\ \A s \in PoolSlots, f \in FrameIds :
       /\ [slot |-> s, frame |-> f] \in Work
       /\ [slot |-> s, frame |-> f].slot = s /\ [slot |-> s, frame |-> f].frame = f
BY DEF Work, NoWork, NoSlot, PoolSlots

\* The threads begin with every slot free and nothing on the wire.
LEMMA VideoStarts == VideoInit => VideoInv
<1> SUFFICES ASSUME VideoInit PROVE VideoInv  OBVIOUS
<1> USE VideoAssumption DEF VideoInit
<1>1. VideoTypeOK
  <2>1. freeSlots \in Seq(PoolSlots)  BY DEF PoolSlots
  <2>2. encoder \in [PoolSlots -> [busy : BOOLEAN, picture : FrameIds]] /\ copied \in FrameIds
    BY DEF Idle, FrameIds
  <2>3. workQueue \in Seq(Work) /\ onWire \in Seq(Pictures) /\ results \in Seq({"ok", "err"})
    OBVIOUS
  <2>4. /\ submitter \in SubmitSteps /\ completer \in CompleteSteps
        /\ inHand \in PoolSlots \cup {NoSlot} /\ submitted \in 0..FrameCount
        /\ working \in Work \cup {NoWork} /\ outcome \in {"none", "good", "error"}
    BY DEF SubmitSteps, CompleteSteps
  <2>5. gaveUp \in BOOLEAN /\ accepting \in BOOLEAN /\ failed \in BOOLEAN
    OBVIOUS
  <2>6. QED  BY ONLY <2>1, <2>2, <2>3, <2>4, <2>5 DEF VideoTypeOK
<1>2. SlotsAreSound
  BY DEF SlotsAreSound, SlotsAreSomewhere, NoneIsOverwritten, Free, Queued, PoolSlots, NoSlot,
         NoWork, Idle
<1>3. StreamIsTrue  BY DEF StreamIsTrue, WireHoldsNoGap, RunIsJudged
<1>4. ThreadsAgree  BY DEF ThreadsAgree
<1>5. InOrder  BY DEF InOrder, Received
<1>6. SlotsHoldTheirPictures /\ FailureIsKept  BY DEF SlotsHoldTheirPictures, FailureIsKept
<1>7. QED  BY <1>1, <1>2, <1>3, <1>4, <1>5, <1>6 DEF VideoInv

-----------------------------------------------------------------------------
(* Where a slot is: four steps hand one on, and all others leave it there. *)

LEMMA SlotsStay ==
  ASSUME SlotsAreSomewhere, UNCHANGED <<freeSlots, workQueue, inHand, working>>
  PROVE  SlotsAreSomewhere'
BY DEF SlotsAreSomewhere, Free, Queued

\* The keys of the two channels, the slots they name.
Itself == [s \in PoolSlots |-> s]
ItsSlot == [w \in Work |-> w.slot]

LEMMA SlotKeys ==
  ASSUME VideoTypeOK
  PROVE  /\ \A i \in DOMAIN freeSlots : Itself[freeSlots[i]] = freeSlots[i]
         /\ \A i \in DOMAIN workQueue : ItsSlot[workQueue[i]] = workQueue[i].slot
         /\ Free = {Itself[freeSlots[i]] : i \in DOMAIN freeSlots}
         /\ Queued = {ItsSlot[workQueue[i]] : i \in DOMAIN workQueue}
         /\ Free \subseteq PoolSlots /\ Queued \subseteq PoolSlots
<1>1. \A i \in DOMAIN freeSlots : freeSlots[i] \in PoolSlots  BY DEF VideoTypeOK
<1>2. \A i \in DOMAIN workQueue : workQueue[i] \in Work  BY DEF VideoTypeOK
<1>3. /\ \A i \in DOMAIN freeSlots : Itself[freeSlots[i]] = freeSlots[i]
      /\ \A i \in DOMAIN workQueue : ItsSlot[workQueue[i]] = workQueue[i].slot
  BY <1>1, <1>2 DEF Itself, ItsSlot
<1>4. Free = {Itself[freeSlots[i]] : i \in DOMAIN freeSlots}  BY <1>3 DEF Free
<1>5. Queued = {ItsSlot[workQueue[i]] : i \in DOMAIN workQueue}  BY <1>3 DEF Queued
<1>6. Free \subseteq PoolSlots /\ Queued \subseteq PoolSlots
  BY <1>1, <1>2, WorkIsSome DEF Free, Queued
<1>7. QED  BY <1>3, <1>4, <1>5, <1>6

\* TakeSlot: from the free slots to the submit thread.
LEMMA SlotTaken ==
  ASSUME VideoTypeOK, VideoTypeOK', SlotsAreSomewhere, inHand = NoSlot, freeSlots # <<>>,
         inHand' = Head(freeSlots), freeSlots' = Tail(freeSlots),
         UNCHANGED <<workQueue, working>>
  PROVE  SlotsAreSomewhere' /\ inHand' \in Free
<1>1. freeSlots \in Seq(PoolSlots) /\ inHand' \in PoolSlots  BY Taken DEF VideoTypeOK
<1>2. Queued' = Queued  BY DEF Queued
<1>3. \A i, j \in DOMAIN freeSlots : Itself[freeSlots[i]] = Itself[freeSlots[j]] => i = j
  BY SlotKeys DEF SlotsAreSomewhere
<1>4. /\ \A i, j \in DOMAIN freeSlots' : Itself[freeSlots'[i]] = Itself[freeSlots'[j]] => i = j
      /\ Itself[inHand'] \notin {Itself[freeSlots'[i]] : i \in DOMAIN freeSlots'}
      /\ {Itself[freeSlots[i]] : i \in DOMAIN freeSlots} =
           {Itself[freeSlots'[i]] : i \in DOMAIN freeSlots'} \cup {Itself[inHand']}
  <2>1. \A i, j \in DOMAIN freeSlots' : Itself[freeSlots'[i]] = Itself[freeSlots'[j]] => i = j
    BY <1>1, <1>3, TakenOnce
  <2>2. Itself[inHand'] \notin {Itself[freeSlots'[i]] : i \in DOMAIN freeSlots'}
    BY <1>1, <1>3, TakenOnce
  <2>3. {Itself[freeSlots[i]] : i \in DOMAIN freeSlots} =
         {Itself[freeSlots'[i]] : i \in DOMAIN freeSlots'} \cup {Itself[inHand']}
    <3>1. \A i \in DOMAIN freeSlots :
            freeSlots[i] = inHand' \/ \E j \in DOMAIN freeSlots' : freeSlots'[j] = freeSlots[i]
      BY <1>1, <1>3, TakenOnce
    <3>2. \A i \in DOMAIN freeSlots' : \E j \in DOMAIN freeSlots : freeSlots[j] = freeSlots'[i]
      BY <1>1, <1>3, TakenOnce
    <3>3. \E j \in DOMAIN freeSlots : freeSlots[j] = inHand'  BY <1>1, <1>3, TakenOnce
    <3>4. QED  BY <3>1, <3>2, <3>3
  <2>4. QED  BY <2>1, <2>2, <2>3
<1>5. Itself[inHand'] = inHand'  BY <1>1 DEF Itself
<1>6. /\ \A i \in DOMAIN freeSlots' : Itself[freeSlots'[i]] = freeSlots'[i]
      /\ Free' = {Itself[freeSlots'[i]] : i \in DOMAIN freeSlots'}
  <2>1. \A i \in DOMAIN freeSlots' : freeSlots'[i] \in PoolSlots  BY DEF VideoTypeOK
  <2>2. \A i \in DOMAIN freeSlots' : Itself[freeSlots'[i]] = freeSlots'[i]  BY <2>1 DEF Itself
  <2>3. QED  BY <2>2 DEF Free
<1>7. /\ \A i, j \in DOMAIN freeSlots' : freeSlots'[i] = freeSlots'[j] => i = j
      /\ inHand' \in Free /\ inHand' \notin Free' /\ Free = Free' \cup {inHand'}
  BY <1>4, <1>5, <1>6, SlotKeys
<1>8. QED  BY <1>2, <1>7, <1>1, WorkIsSome DEF SlotsAreSomewhere

\* QueueWork: from the submit thread to the work.
LEMMA SlotQueued ==
  ASSUME VideoTypeOK, VideoTypeOK', SlotsAreSomewhere, inHand \in PoolSlots, submitted \in FrameIds,
         workQueue' = Append(workQueue, [slot |-> inHand, frame |-> submitted]),
         inHand' = NoSlot, UNCHANGED <<freeSlots, working>>
  PROVE  SlotsAreSomewhere'
<1> PICK w \in Work : w = [slot |-> inHand, frame |-> submitted]
  BY WorkIsSome
<1>1. workQueue \in Seq(Work) /\ w \in Work /\ ItsSlot[w] = inHand
  BY WorkIsSome DEF VideoTypeOK, ItsSlot
<1>2. Free' = Free  BY DEF Free
<1>3. workQueue' = Append(workQueue, w)  OBVIOUS
<1>4. /\ \A i, j \in DOMAIN workQueue : ItsSlot[workQueue[i]] = ItsSlot[workQueue[j]] => i = j
      /\ ItsSlot[w] \notin {ItsSlot[workQueue[i]] : i \in DOMAIN workQueue}
  BY <1>1, SlotKeys DEF SlotsAreSomewhere
<1>5. /\ \A i, j \in DOMAIN workQueue' : ItsSlot[workQueue'[i]] = ItsSlot[workQueue'[j]] => i = j
      /\ {ItsSlot[workQueue'[i]] : i \in DOMAIN workQueue'} =
           {ItsSlot[workQueue[i]] : i \in DOMAIN workQueue} \cup {ItsSlot[w]}
  <2>1. \A i, j \in DOMAIN workQueue' : ItsSlot[workQueue'[i]] = ItsSlot[workQueue'[j]] => i = j
    BY <1>1, <1>3, <1>4, AddedOnce
  <2>2. {ItsSlot[workQueue'[i]] : i \in DOMAIN workQueue'} =
         {ItsSlot[workQueue[i]] : i \in DOMAIN workQueue} \cup {ItsSlot[w]}
    BY <1>1, <1>3, <1>4, AddedOnce
  <2>3. QED  BY <2>1, <2>2
<1>6. /\ \A i \in DOMAIN workQueue' : ItsSlot[workQueue'[i]] = workQueue'[i].slot
      /\ Queued' = {ItsSlot[workQueue'[i]] : i \in DOMAIN workQueue'}
  <2>0. workQueue' \in Seq(Work)  BY DEF VideoTypeOK
  <2>1. \A i \in DOMAIN workQueue' : workQueue'[i] \in Work  BY ONLY <2>0
  <2>2. \A i \in DOMAIN workQueue' : ItsSlot[workQueue'[i]] = workQueue'[i].slot
    BY <2>1 DEF ItsSlot
  <2>3. QED  BY <2>2 DEF Queued
<1>7. /\ \A i, j \in DOMAIN workQueue' : workQueue'[i].slot = workQueue'[j].slot => i = j
      /\ Queued' = Queued \cup {inHand}
  BY <1>1, <1>5, <1>6, SlotKeys
<1>8. QED  BY <1>2, <1>7, SlotKeys, WorkIsSome DEF SlotsAreSomewhere

\* TakeWork: from the work to the completion thread.
LEMMA SlotReceived ==
  ASSUME VideoTypeOK, VideoTypeOK', SlotsAreSomewhere, working = NoWork, workQueue # <<>>,
         working' = Head(workQueue), workQueue' = Tail(workQueue),
         UNCHANGED <<freeSlots, inHand>>
  PROVE  SlotsAreSomewhere'
<1>1. workQueue \in Seq(Work) /\ working' \in Work  BY Taken DEF VideoTypeOK
<1>2. Free' = Free  BY DEF Free
<1>3. \A i, j \in DOMAIN workQueue : ItsSlot[workQueue[i]] = ItsSlot[workQueue[j]] => i = j
  BY SlotKeys DEF SlotsAreSomewhere
<1>4. /\ \A i, j \in DOMAIN workQueue' : ItsSlot[workQueue'[i]] = ItsSlot[workQueue'[j]] => i = j
      /\ ItsSlot[working'] \notin {ItsSlot[workQueue'[i]] : i \in DOMAIN workQueue'}
      /\ {ItsSlot[workQueue[i]] : i \in DOMAIN workQueue} =
           {ItsSlot[workQueue'[i]] : i \in DOMAIN workQueue'} \cup {ItsSlot[working']}
  <2>1. \A i, j \in DOMAIN workQueue' : ItsSlot[workQueue'[i]] = ItsSlot[workQueue'[j]] => i = j
    BY <1>1, <1>3, TakenOnce
  <2>2. ItsSlot[working'] \notin {ItsSlot[workQueue'[i]] : i \in DOMAIN workQueue'}
    BY <1>1, <1>3, TakenOnce
  <2>3. {ItsSlot[workQueue[i]] : i \in DOMAIN workQueue} =
         {ItsSlot[workQueue'[i]] : i \in DOMAIN workQueue'} \cup {ItsSlot[working']}
    <3>1. \A i \in DOMAIN workQueue :
            workQueue[i] = working' \/ \E j \in DOMAIN workQueue' : workQueue'[j] = workQueue[i]
      BY <1>1, <1>3, TakenOnce
    <3>2. \A i \in DOMAIN workQueue' : \E j \in DOMAIN workQueue : workQueue[j] = workQueue'[i]
      BY <1>1, <1>3, TakenOnce
    <3>3. \E j \in DOMAIN workQueue : workQueue[j] = working'  BY <1>1, <1>3, TakenOnce
    <3>4. QED  BY <3>1, <3>2, <3>3
  <2>4. QED  BY <2>1, <2>2, <2>3
<1>5. ItsSlot[working'] = working'.slot  BY <1>1 DEF ItsSlot
<1>6. /\ \A i \in DOMAIN workQueue' : ItsSlot[workQueue'[i]] = workQueue'[i].slot
      /\ Queued' = {ItsSlot[workQueue'[i]] : i \in DOMAIN workQueue'}
  <2>0. workQueue' \in Seq(Work)  BY DEF VideoTypeOK
  <2>1. \A i \in DOMAIN workQueue' : workQueue'[i] \in Work  BY ONLY <2>0
  <2>2. \A i \in DOMAIN workQueue' : ItsSlot[workQueue'[i]] = workQueue'[i].slot
    BY <2>1 DEF ItsSlot
  <2>3. QED  BY <2>2 DEF Queued
<1>7. /\ \A i, j \in DOMAIN workQueue' : workQueue'[i].slot = workQueue'[j].slot => i = j
      /\ working'.slot \in Queued /\ working'.slot \notin Queued'
      /\ Queued = Queued' \cup {working'.slot}
  BY <1>4, <1>5, <1>6, SlotKeys
<1>8. QED  BY <1>2, <1>7, SlotKeys, WorkIsSome DEF SlotsAreSomewhere

\* GiveBack: from the completion thread to the free slots.
LEMMA SlotGivenBack ==
  ASSUME VideoTypeOK, VideoTypeOK', SlotsAreSomewhere, working \in Work,
         freeSlots' = Append(freeSlots, working.slot), working' = NoWork,
         UNCHANGED <<workQueue, inHand>>
  PROVE  SlotsAreSomewhere' /\ Free' = Free \cup {working.slot}
<1> DEFINE s == working.slot
<1>1. freeSlots \in Seq(PoolSlots) /\ s \in PoolSlots /\ Itself[s] = s
  BY WorkIsSome DEF VideoTypeOK, Itself
<1> HIDE DEF s
<1>2. Queued' = Queued  BY DEF Queued
<1>3. /\ \A i, j \in DOMAIN freeSlots : Itself[freeSlots[i]] = Itself[freeSlots[j]] => i = j
      /\ Itself[s] \notin {Itself[freeSlots[i]] : i \in DOMAIN freeSlots}
  BY <1>1, SlotKeys DEF SlotsAreSomewhere, s
<1>4. freeSlots' = Append(freeSlots, s)  BY DEF s
<1>5. /\ \A i, j \in DOMAIN freeSlots' : Itself[freeSlots'[i]] = Itself[freeSlots'[j]] => i = j
      /\ {Itself[freeSlots'[i]] : i \in DOMAIN freeSlots'} =
           {Itself[freeSlots[i]] : i \in DOMAIN freeSlots} \cup {Itself[s]}
  <2>1. \A i, j \in DOMAIN freeSlots' : Itself[freeSlots'[i]] = Itself[freeSlots'[j]] => i = j
    BY <1>1, <1>3, <1>4, AddedOnce
  <2>2. {Itself[freeSlots'[i]] : i \in DOMAIN freeSlots'} =
         {Itself[freeSlots[i]] : i \in DOMAIN freeSlots} \cup {Itself[s]}
    BY <1>1, <1>3, <1>4, AddedOnce
  <2>3. QED  BY <2>1, <2>2
<1>6. /\ \A i \in DOMAIN freeSlots' : Itself[freeSlots'[i]] = freeSlots'[i]
      /\ Free' = {Itself[freeSlots'[i]] : i \in DOMAIN freeSlots'}
  <2>1. \A i \in DOMAIN freeSlots' : freeSlots'[i] \in PoolSlots  BY DEF VideoTypeOK
  <2>2. \A i \in DOMAIN freeSlots' : Itself[freeSlots'[i]] = freeSlots'[i]  BY <2>1 DEF Itself
  <2>3. QED  BY <2>2 DEF Free
<1>7. /\ \A i, j \in DOMAIN freeSlots' : freeSlots'[i] = freeSlots'[j] => i = j
      /\ Free' = Free \cup {s}
  BY <1>1, <1>5, <1>6, SlotKeys
<1>8. QED  BY <1>1, <1>2, <1>7, SlotKeys, WorkIsSome DEF SlotsAreSomewhere, s

\* The encoder is given one slot and leaves the others alone.
LEMMA EncoderElsewhere ==
  ASSUME VideoInv, EncodeSubmit
  PROVE  /\ inHand \in PoolSlots
         /\ encoder'[inHand].picture = submitted
         /\ \A s : s # inHand => (s \in PoolSlots => encoder'[s] = encoder[s])
  BY DEF VideoInv, EncodeSubmit, ThreadsAgree, VideoTypeOK

\* The work queued is the slot in hand, behind what was queued before.
LEMMA WorkAdded ==
  ASSUME VideoTypeOK, inHand \in PoolSlots, submitted \in FrameIds,
         workQueue' = Append(workQueue, [slot |-> inHand, frame |-> submitted])
  PROVE  /\ Len(workQueue) \in Nat /\ Len(workQueue') = Len(workQueue) + 1
         /\ DOMAIN workQueue' = DOMAIN workQueue \cup {Len(workQueue) + 1}
         /\ \A i \in DOMAIN workQueue : workQueue'[i] = workQueue[i]
         /\ workQueue'[Len(workQueue) + 1].frame = submitted
         /\ workQueue'[Len(workQueue) + 1].slot = inHand
<1>1. [slot |-> inHand, frame |-> submitted] \in Work /\ workQueue \in Seq(Work)
  BY WorkIsSome DEF VideoTypeOK
<1>2. QED  BY <1>1, Added

\* A result is added behind the others.
LEMMA ResultAdded ==
  ASSUME VideoTypeOK, GiveBack
  PROVE  /\ Len(results) \in Nat /\ Len(results') = Len(results) + 1
         /\ DOMAIN results' = DOMAIN results \cup {Len(results) + 1}
         /\ \A i \in DOMAIN results : results'[i] = results[i]
         /\ results'[Len(results) + 1] = (IF completer = "report" THEN "ok" ELSE "err")
         /\ results' \in Seq({"ok", "err"})
<1> PICK e \in {"ok", "err"} : e = IF completer = "report" THEN "ok" ELSE "err"
  OBVIOUS
<1>1. results' = Append(results, e) /\ results \in Seq({"ok", "err"})
  BY DEF GiveBack, VideoTypeOK
<1>2. QED  BY <1>1, Added

-----------------------------------------------------------------------------

(* One lemma per step: what it keeps of each part of the invariant. *)

LEMMA NextFrameKeeps == ASSUME VideoInv, NextFrame PROVE VideoInv'
<1> USE VideoAssumption DEF VideoInv, SlotsAreSound, NextFrame,
        submitOnly, completeOnly, submitVars, completeVars
<1>1. VideoTypeOK'  BY DEF VideoTypeOK, SubmitSteps, CompleteSteps
<1>2. SlotsAreSomewhere'  BY SlotsStay
<1>3. NoneIsOverwritten'  BY DEF NoneIsOverwritten, ThreadsAgree
<1>4. StreamIsTrue'  BY DEF StreamIsTrue, WireHoldsNoGap, RunIsJudged, ThreadsAgree
<1>5. ThreadsAgree'  BY DEF ThreadsAgree, VideoTypeOK
<1>6. InOrder'  BY DEF InOrder, Received, ThreadsAgree
<1>7. SlotsHoldTheirPictures'  BY DEF SlotsHoldTheirPictures, ThreadsAgree
<1>8. FailureIsKept'  BY DEF FailureIsKept, ThreadsAgree
<1>9. QED  BY <1>1, <1>2, <1>3, <1>4, <1>5, <1>6, <1>7, <1>8

LEMMA TakeSlotKeeps == ASSUME VideoInv, TakeSlot PROVE VideoInv'
<1> USE VideoAssumption DEF VideoInv, SlotsAreSound, TakeSlot,
        submitOnly, completeOnly, submitVars, completeVars
<1>1. VideoTypeOK'
  <2>0. freeSlots \in Seq(PoolSlots)  BY DEF VideoTypeOK
  <2>1. freeSlots' \in Seq(PoolSlots) /\ inHand' \in PoolSlots \cup {NoSlot}
    <3>1. CASE freeSlots = <<>>  BY <3>1 DEF VideoTypeOK
    <3>2. CASE freeSlots # <<>>  BY <2>0, <3>2, Taken
    <3>3. QED  BY <3>1, <3>2
  <2>2. QED  BY <2>1 DEF VideoTypeOK, SubmitSteps
<1>2. SlotsAreSomewhere'
  <2>1. CASE freeSlots = <<>>  BY <2>1, SlotsStay
  <2>2. CASE freeSlots # <<>>
    BY <1>1, <2>2, SlotTaken DEF ThreadsAgree
  <2>3. QED  BY <2>1, <2>2
<1>3. NoneIsOverwritten'
  <2>1. CASE freeSlots = <<>>  BY <2>1 DEF NoneIsOverwritten
  <2>2. CASE freeSlots # <<>>
    <3>1. freeSlots \in Seq(PoolSlots)  BY DEF VideoTypeOK
    <3>2. /\ inHand' = freeSlots[1] /\ 1 \in DOMAIN freeSlots
          /\ \A i \in DOMAIN freeSlots' :
               i + 1 \in DOMAIN freeSlots /\ freeSlots'[i] = freeSlots[i + 1]
      BY <2>2, <3>1, Taken
    <3>3. QED  BY <2>2, <3>2 DEF NoneIsOverwritten
  <2>3. QED  BY <2>1, <2>2
<1>4. StreamIsTrue'  BY DEF StreamIsTrue, WireHoldsNoGap, RunIsJudged, ThreadsAgree
<1>5. ThreadsAgree'  BY DEF ThreadsAgree, VideoTypeOK
<1>6. InOrder'  BY DEF InOrder, Received, ThreadsAgree
<1>7. SlotsHoldTheirPictures'  BY DEF SlotsHoldTheirPictures, ThreadsAgree
<1>8. FailureIsKept'  BY DEF FailureIsKept, ThreadsAgree
<1>9. QED  BY <1>1, <1>2, <1>3, <1>4, <1>5, <1>6, <1>7, <1>8

LEMMA SpinKeeps == ASSUME VideoInv, Spin PROVE VideoInv'
<1> USE VideoAssumption DEF VideoInv, SlotsAreSound, Spin,
        submitOnly, completeOnly, submitVars, completeVars
<1>1. VideoTypeOK'  BY DEF VideoTypeOK, SubmitSteps, CompleteSteps
<1>2. SlotsAreSomewhere'  BY SlotsStay
<1>3. NoneIsOverwritten'  BY DEF NoneIsOverwritten, ThreadsAgree
<1>4. StreamIsTrue'  BY DEF StreamIsTrue, WireHoldsNoGap, RunIsJudged, ThreadsAgree
<1>5. ThreadsAgree'  BY DEF ThreadsAgree, VideoTypeOK
<1>6. InOrder'  BY DEF InOrder, Received, ThreadsAgree
<1>7. SlotsHoldTheirPictures'  BY DEF SlotsHoldTheirPictures, ThreadsAgree
<1>8. FailureIsKept'  BY DEF FailureIsKept, ThreadsAgree
<1>9. QED  BY <1>1, <1>2, <1>3, <1>4, <1>5, <1>6, <1>7, <1>8

LEMMA DrawKeeps == ASSUME VideoInv, Draw PROVE VideoInv'
<1> USE VideoAssumption DEF VideoInv, SlotsAreSound, Draw,
        submitOnly, completeOnly, submitVars, completeVars
<1>1. VideoTypeOK'  BY DEF VideoTypeOK, SubmitSteps, CompleteSteps
<1>2. SlotsAreSomewhere'  BY SlotsStay
<1>3. NoneIsOverwritten'  BY DEF NoneIsOverwritten, ThreadsAgree
<1>4. StreamIsTrue'  BY DEF StreamIsTrue, WireHoldsNoGap, RunIsJudged, ThreadsAgree
<1>5. ThreadsAgree'  BY DEF ThreadsAgree, VideoTypeOK
<1>6. InOrder'  BY DEF InOrder, Received, ThreadsAgree
<1>7. SlotsHoldTheirPictures'  BY DEF SlotsHoldTheirPictures, ThreadsAgree
<1>8. FailureIsKept'  BY DEF FailureIsKept, ThreadsAgree
<1>9. QED  BY <1>1, <1>2, <1>3, <1>4, <1>5, <1>6, <1>7, <1>8

LEMMA EncodeSubmitKeeps == ASSUME VideoInv, EncodeSubmit PROVE VideoInv'
<1> USE VideoAssumption DEF VideoInv, SlotsAreSound, EncodeSubmit,
        submitOnly, completeOnly, submitVars, completeVars
<1>1. VideoTypeOK'
  <2>1. inHand \in PoolSlots /\ submitted \in FrameIds
    BY DEF ThreadsAgree, VideoTypeOK, FrameIds
  <2>2. encoder' \in [PoolSlots -> [busy : BOOLEAN, picture : FrameIds]]
    BY <2>1 DEF VideoTypeOK
  <2>3. QED  BY <2>2 DEF VideoTypeOK, SubmitSteps
<1>2. SlotsAreSomewhere'  BY SlotsStay
<1>3. NoneIsOverwritten'
  <2>1. \A i \in DOMAIN freeSlots : freeSlots[i] # inHand
    BY DEF SlotsAreSomewhere, Free
  <2>2. QED  BY <2>1, EncoderElsewhere DEF NoneIsOverwritten
<1>4. StreamIsTrue'  BY DEF StreamIsTrue, WireHoldsNoGap, RunIsJudged, ThreadsAgree
<1>5. ThreadsAgree'  BY DEF ThreadsAgree, VideoTypeOK
<1>6. InOrder'  BY DEF InOrder, Received, ThreadsAgree
<1>7. SlotsHoldTheirPictures'
  <2>1. \A i \in DOMAIN workQueue : workQueue[i].slot # inHand
    BY DEF SlotsAreSomewhere, Queued
  <2>2. working # NoWork => working.slot # inHand
    BY WorkIsSome DEF SlotsAreSomewhere, VideoTypeOK
  <2>3. QED  BY <2>1, <2>2, EncoderElsewhere DEF SlotsHoldTheirPictures, ThreadsAgree
<1>8. FailureIsKept'
  <2>1. working # NoWork => working.slot # inHand
    BY WorkIsSome DEF SlotsAreSomewhere, VideoTypeOK
  <2>2. completer \in {"lock", "send", "report"} => encoder'[working.slot] = encoder[working.slot]
    BY <2>1, EncoderElsewhere DEF ThreadsAgree
  <2>3. QED  BY <2>2 DEF FailureIsKept
<1>9. QED  BY <1>1, <1>2, <1>3, <1>4, <1>5, <1>6, <1>7, <1>8

LEMMA GiveUpKeeps == ASSUME VideoInv, GiveUp PROVE VideoInv'
<1> USE VideoAssumption DEF VideoInv, SlotsAreSound, GiveUp,
        submitOnly, completeOnly, submitVars, completeVars
<1>1. VideoTypeOK'  BY DEF VideoTypeOK, SubmitSteps, CompleteSteps
<1>2. SlotsAreSomewhere'  BY SlotsStay
<1>3. NoneIsOverwritten'  BY DEF NoneIsOverwritten, ThreadsAgree
<1>4. StreamIsTrue'  BY DEF StreamIsTrue, WireHoldsNoGap, RunIsJudged, ThreadsAgree
<1>5. ThreadsAgree'  BY DEF ThreadsAgree, VideoTypeOK
<1>6. InOrder'  BY DEF InOrder, Received, ThreadsAgree
<1>7. SlotsHoldTheirPictures'  BY DEF SlotsHoldTheirPictures, ThreadsAgree
<1>8. FailureIsKept'  BY DEF FailureIsKept, ThreadsAgree
<1>9. QED  BY <1>1, <1>2, <1>3, <1>4, <1>5, <1>6, <1>7, <1>8

LEMMA QueueWorkKeeps == ASSUME VideoInv, QueueWork PROVE VideoInv'
<1> USE VideoAssumption DEF VideoInv, SlotsAreSound, QueueWork,
        submitOnly, completeOnly, submitVars, completeVars
<1>1. VideoTypeOK'
  <2>1. inHand \in PoolSlots /\ submitted \in FrameIds /\ submitted' \in 0..FrameCount
    BY DEF ThreadsAgree, VideoTypeOK, FrameIds
  <2>2. workQueue' \in Seq(Work)  BY <2>1, Added, WorkIsSome DEF VideoTypeOK
  <2>3. QED  BY <2>1, <2>2 DEF VideoTypeOK, SubmitSteps
<1>2. SlotsAreSomewhere'
  <2>1. inHand \in PoolSlots /\ submitted \in FrameIds
    BY DEF ThreadsAgree, VideoTypeOK, FrameIds
  <2>2. QED  BY <1>1, <2>1, SlotQueued
<1>3. NoneIsOverwritten'  BY DEF NoneIsOverwritten, ThreadsAgree
<1>4. StreamIsTrue'  BY DEF StreamIsTrue, WireHoldsNoGap, RunIsJudged, ThreadsAgree
<1>5. ThreadsAgree'  BY DEF ThreadsAgree, VideoTypeOK
<1>6. InOrder'
  <2>1. inHand \in PoolSlots /\ submitted \in FrameIds
    BY DEF ThreadsAgree, VideoTypeOK, FrameIds
  <2>2. /\ Len(workQueue) \in Nat /\ Len(workQueue') = Len(workQueue) + 1
        /\ DOMAIN workQueue' = DOMAIN workQueue \cup {Len(workQueue) + 1}
        /\ \A i \in DOMAIN workQueue : workQueue'[i] = workQueue[i]
        /\ workQueue'[Len(workQueue) + 1].frame = submitted
    BY <2>1, WorkAdded
  <2>3. Received' = Received /\ Received \in Nat  BY DEF Received, VideoTypeOK
  <2>4. QED  BY <2>2, <2>3 DEF InOrder, VideoTypeOK
<1>7. SlotsHoldTheirPictures'
  <2>1. inHand \in PoolSlots /\ submitted \in FrameIds
    BY DEF ThreadsAgree, VideoTypeOK, FrameIds
  <2>2. /\ DOMAIN workQueue' = DOMAIN workQueue \cup {Len(workQueue) + 1}
        /\ \A i \in DOMAIN workQueue : workQueue'[i] = workQueue[i]
        /\ workQueue'[Len(workQueue) + 1].frame = submitted
        /\ workQueue'[Len(workQueue) + 1].slot = inHand
    BY <2>1, WorkAdded
  <2>3. QED  BY <2>2 DEF SlotsHoldTheirPictures
<1>8. FailureIsKept'  BY DEF FailureIsKept, ThreadsAgree
<1>9. QED  BY <1>1, <1>2, <1>3, <1>4, <1>5, <1>6, <1>7, <1>8

LEMMA LeaveKeeps == ASSUME VideoInv, Leave PROVE VideoInv'
<1> USE VideoAssumption DEF VideoInv, SlotsAreSound, Leave,
        submitOnly, completeOnly, submitVars, completeVars
<1>1. VideoTypeOK'  BY DEF VideoTypeOK, SubmitSteps, CompleteSteps
<1>2. SlotsAreSomewhere'  BY SlotsStay
<1>3. NoneIsOverwritten'  BY DEF NoneIsOverwritten, ThreadsAgree
<1>4. StreamIsTrue'  BY DEF StreamIsTrue, WireHoldsNoGap, RunIsJudged, ThreadsAgree
<1>5. ThreadsAgree'  BY DEF ThreadsAgree, VideoTypeOK
<1>6. InOrder'  BY DEF InOrder, Received, ThreadsAgree
<1>7. SlotsHoldTheirPictures'  BY DEF SlotsHoldTheirPictures, ThreadsAgree
<1>8. FailureIsKept'  BY DEF FailureIsKept, ThreadsAgree
<1>9. QED  BY <1>1, <1>2, <1>3, <1>4, <1>5, <1>6, <1>7, <1>8

LEMMA CollectKeeps == ASSUME VideoInv, Collect PROVE VideoInv'
<1> USE VideoAssumption DEF VideoInv, SlotsAreSound, Collect,
        submitOnly, completeOnly, submitVars, completeVars
<1>1. VideoTypeOK'  BY DEF VideoTypeOK, SubmitSteps, CompleteSteps
<1>2. SlotsAreSomewhere'  BY SlotsStay
<1>3. NoneIsOverwritten'  BY DEF NoneIsOverwritten, ThreadsAgree
<1>4. StreamIsTrue'
  <2>1. WireHoldsNoGap'  BY DEF StreamIsTrue, WireHoldsNoGap
  <2>2. Len(results) = submitted
    BY DEF ThreadsAgree, InOrder, Received, VideoTypeOK
  <2>3. ASSUME outcome' = "good" PROVE Len(onWire) = FrameCount
    <3>1. submitted = FrameCount /\ \A i \in 1..submitted : results[i] = "ok"  BY <2>3
    <3>2. DOMAIN results = 1..submitted  BY <2>2 DEF VideoTypeOK
    <3>3. ~failed  BY <3>1, <3>2 DEF FailureIsKept
    <3>4. QED  BY <2>2, <3>1, <3>3 DEF FailureIsKept, VideoTypeOK
  <2>4. ASSUME outcome' = "error", ~gaveUp, ~failed PROVE FALSE
    <3>1. submitted = FrameCount  BY <2>4 DEF ThreadsAgree
    <3>2. \A i \in 1..submitted : results[i] = "ok"  BY <2>2, <2>4 DEF FailureIsKept, VideoTypeOK
    <3>3. QED  BY <2>2, <2>4, <3>1, <3>2 DEF VideoTypeOK
  <2>5. QED  BY <2>1, <2>2, <2>3, <2>4 DEF StreamIsTrue, RunIsJudged
<1>5. ThreadsAgree'  BY DEF ThreadsAgree, VideoTypeOK
<1>6. InOrder'  BY DEF InOrder, Received, ThreadsAgree
<1>7. SlotsHoldTheirPictures'  BY DEF SlotsHoldTheirPictures, ThreadsAgree
<1>8. FailureIsKept'  BY DEF FailureIsKept, ThreadsAgree
<1>9. QED  BY <1>1, <1>2, <1>3, <1>4, <1>5, <1>6, <1>7, <1>8

LEMMA TakeWorkKeeps == ASSUME VideoInv, TakeWork PROVE VideoInv'
<1> USE VideoAssumption DEF VideoInv, SlotsAreSound, TakeWork,
        submitOnly, completeOnly, submitVars, completeVars
<1>1. working = NoWork  BY DEF ThreadsAgree
<1>2. CASE workQueue = <<>> /\ ~accepting /\ completer' = "ended"
  <2>1. UNCHANGED <<working, workQueue>>  BY <1>2
  <2>2. VideoTypeOK'  BY <1>2, <2>1 DEF VideoTypeOK, CompleteSteps
  <2>3. SlotsAreSomewhere' /\ NoneIsOverwritten'  BY <2>1, SlotsStay DEF NoneIsOverwritten
  <2>4. Len(results) = submitted  BY <1>1, <1>2 DEF InOrder, Received, VideoTypeOK
  <2>5. StreamIsTrue'  BY <2>4 DEF StreamIsTrue, WireHoldsNoGap, RunIsJudged
  <2>6. ThreadsAgree'  BY <1>1, <1>2, <2>1 DEF ThreadsAgree, VideoTypeOK
  <2>7. InOrder' /\ SlotsHoldTheirPictures'
    BY <1>1, <1>2, <2>1 DEF InOrder, Received, SlotsHoldTheirPictures
  <2>8. FailureIsKept'  BY <1>2, <2>1 DEF FailureIsKept
  <2>9. QED  BY <2>2, <2>3, <2>5, <2>6, <2>7, <2>8
<1>3. CASE workQueue # <<>> /\ completer' = "check" /\ working' = Head(workQueue)
             /\ workQueue' = Tail(workQueue)
  <2>0. workQueue \in Seq(Work)  BY DEF VideoTypeOK
  <2>1. /\ Len(workQueue) \in Nat \ {0} /\ Len(workQueue') = Len(workQueue) - 1
        /\ working' = workQueue[1] /\ 1 \in DOMAIN workQueue
        /\ working' \in Work /\ workQueue' \in Seq(Work) /\ DOMAIN workQueue' \subseteq Nat
        /\ \A i \in DOMAIN workQueue' :
             i + 1 \in DOMAIN workQueue /\ workQueue'[i] = workQueue[i + 1]
    BY <1>3, <2>0, Taken
  <2>2. working' # NoWork  BY <2>1, WorkIsSome
  <2>3. VideoTypeOK'  BY <1>3, <2>1 DEF VideoTypeOK, CompleteSteps
  <2>4. SlotsAreSomewhere'  BY <1>1, <1>3, <2>3, SlotReceived
  <2>5. NoneIsOverwritten'  BY DEF NoneIsOverwritten
  <2>6. StreamIsTrue'  BY <1>3 DEF StreamIsTrue, WireHoldsNoGap, RunIsJudged
  <2>7. ThreadsAgree'  BY <1>3, <2>2 DEF ThreadsAgree
  <2>8. Received' = Received + 1 /\ Received = Len(results) /\ Received \in Nat
    BY <1>1, <2>2 DEF Received, VideoTypeOK
  <2>9. InOrder'
    <3>1. /\ Received + Len(workQueue) = submitted /\ submitted' = submitted
          /\ \A i \in DOMAIN workQueue : workQueue[i].frame = Received + i - 1
          /\ results' = results
      BY DEF InOrder
    <3>2. Received' + Len(workQueue') = submitted'  BY ONLY <2>1, <2>8, <3>1
    <3>3. working'.frame = Len(results')  BY ONLY <2>1, <2>8, <3>1
    <3>4. ASSUME NEW i \in DOMAIN workQueue' PROVE workQueue'[i].frame = Received' + i - 1
      <4>1. i \in Nat /\ i + 1 \in DOMAIN workQueue /\ workQueue'[i] = workQueue[i + 1]
        BY ONLY <2>1, <3>4
      <4>2. workQueue[i + 1].frame = Received + (i + 1) - 1  BY ONLY <3>1, <4>1
      <4>3. QED  BY ONLY <2>8, <4>1, <4>2
    <3>5. QED  BY <3>2, <3>3, <3>4 DEF InOrder
  <2>10. SlotsHoldTheirPictures'  BY <1>3, <2>1 DEF SlotsHoldTheirPictures
  <2>11. FailureIsKept'  BY <1>3 DEF FailureIsKept
  <2>12. QED  BY <2>3, <2>4, <2>5, <2>6, <2>7, <2>9, <2>10, <2>11
<1>4. QED  BY <1>2, <1>3

LEMMA CheckFailedKeeps == ASSUME VideoInv, CheckFailed PROVE VideoInv'
<1> USE VideoAssumption DEF VideoInv, SlotsAreSound, CheckFailed,
        submitOnly, completeOnly, submitVars, completeVars
<1>1. VideoTypeOK'  BY DEF VideoTypeOK, SubmitSteps, CompleteSteps
<1>2. SlotsAreSomewhere'  BY SlotsStay
<1>3. NoneIsOverwritten'  BY DEF NoneIsOverwritten, ThreadsAgree
<1>4. StreamIsTrue'  BY DEF StreamIsTrue, WireHoldsNoGap, RunIsJudged, ThreadsAgree
<1>5. ThreadsAgree'  BY DEF ThreadsAgree, VideoTypeOK
<1>6. InOrder'  BY DEF InOrder, Received, ThreadsAgree
<1>7. SlotsHoldTheirPictures'  BY DEF SlotsHoldTheirPictures, ThreadsAgree
<1>8. FailureIsKept'  BY DEF FailureIsKept, ThreadsAgree
<1>9. QED  BY <1>1, <1>2, <1>3, <1>4, <1>5, <1>6, <1>7, <1>8

LEMMA CompletedKeeps == ASSUME VideoInv, Completed PROVE VideoInv'
<1> USE VideoAssumption DEF VideoInv, SlotsAreSound, Completed,
        submitOnly, completeOnly, submitVars, completeVars
<1>1. VideoTypeOK'  BY DEF VideoTypeOK, SubmitSteps, CompleteSteps
<1>2. SlotsAreSomewhere'  BY SlotsStay
<1>3. NoneIsOverwritten'  BY DEF NoneIsOverwritten, ThreadsAgree
<1>4. StreamIsTrue'  BY DEF StreamIsTrue, WireHoldsNoGap, RunIsJudged, ThreadsAgree
<1>5. ThreadsAgree'  BY DEF ThreadsAgree, VideoTypeOK
<1>6. InOrder'  BY DEF InOrder, Received, ThreadsAgree
<1>7. SlotsHoldTheirPictures'  BY DEF SlotsHoldTheirPictures, ThreadsAgree
<1>8. FailureIsKept'  BY DEF FailureIsKept, ThreadsAgree
<1>9. QED  BY <1>1, <1>2, <1>3, <1>4, <1>5, <1>6, <1>7, <1>8

LEMMA CompletionFailsKeeps == ASSUME VideoInv, CompletionFails PROVE VideoInv'
<1> USE VideoAssumption DEF VideoInv, SlotsAreSound, CompletionFails,
        submitOnly, completeOnly, submitVars, completeVars
<1>1. VideoTypeOK'  BY DEF VideoTypeOK, SubmitSteps, CompleteSteps
<1>2. SlotsAreSomewhere'  BY SlotsStay
<1>3. NoneIsOverwritten'  BY DEF NoneIsOverwritten, ThreadsAgree
<1>4. StreamIsTrue'  BY DEF StreamIsTrue, WireHoldsNoGap, RunIsJudged, ThreadsAgree
<1>5. ThreadsAgree'  BY DEF ThreadsAgree, VideoTypeOK
<1>6. InOrder'  BY DEF InOrder, Received, ThreadsAgree
<1>7. SlotsHoldTheirPictures'  BY DEF SlotsHoldTheirPictures, ThreadsAgree
<1>8. FailureIsKept'  BY DEF FailureIsKept, ThreadsAgree
<1>9. QED  BY <1>1, <1>2, <1>3, <1>4, <1>5, <1>6, <1>7, <1>8

LEMMA CopyBitstreamKeeps == ASSUME VideoInv, CopyBitstream PROVE VideoInv'
<1> USE VideoAssumption DEF VideoInv, SlotsAreSound, CopyBitstream,
        submitOnly, completeOnly, submitVars, completeVars
<1>1. VideoTypeOK'
  <2>1. working \in Work  BY DEF ThreadsAgree, VideoTypeOK
  <2>2. copied' \in FrameIds  BY <2>1, WorkIsSome DEF VideoTypeOK
  <2>3. QED  BY <2>2 DEF VideoTypeOK, CompleteSteps
<1>2. SlotsAreSomewhere'  BY SlotsStay
<1>3. NoneIsOverwritten'  BY DEF NoneIsOverwritten, ThreadsAgree
<1>4. StreamIsTrue'  BY DEF StreamIsTrue, WireHoldsNoGap, RunIsJudged, ThreadsAgree
<1>5. ThreadsAgree'  BY DEF ThreadsAgree, VideoTypeOK
<1>6. InOrder'  BY DEF InOrder, Received, ThreadsAgree
<1>7. SlotsHoldTheirPictures'  BY DEF SlotsHoldTheirPictures, ThreadsAgree
<1>8. FailureIsKept'  BY DEF FailureIsKept, ThreadsAgree
<1>9. QED  BY <1>1, <1>2, <1>3, <1>4, <1>5, <1>6, <1>7, <1>8

LEMMA SendPictureKeeps == ASSUME VideoInv, SendPicture PROVE VideoInv'
<1> USE VideoAssumption DEF VideoInv, SlotsAreSound, SendPicture,
        submitOnly, completeOnly, submitVars, completeVars
<1>1. VideoTypeOK'
  <2>1. working \in Work  BY DEF ThreadsAgree, VideoTypeOK
  <2>2. [label |-> working.frame, picture |-> copied] \in Pictures
    BY <2>1, WorkIsSome DEF VideoTypeOK, Pictures
  <2>3. onWire' \in Seq(Pictures)  BY <2>2, Added DEF VideoTypeOK
  <2>4. QED  BY <2>3 DEF VideoTypeOK, CompleteSteps
<1>2. SlotsAreSomewhere'  BY SlotsStay
<1>3. NoneIsOverwritten'  BY DEF NoneIsOverwritten, ThreadsAgree
<1>4. StreamIsTrue'
  <2>1. /\ ~failed /\ Len(onWire) = Len(results) /\ working.frame = Len(results)
        /\ copied = working.frame
    BY DEF FailureIsKept, ThreadsAgree, InOrder, SlotsHoldTheirPictures
  <2> DEFINE p == [label |-> working.frame, picture |-> copied]
  <2>2. onWire \in Seq(Pictures)  BY DEF VideoTypeOK
  <2>3. Len(onWire) \in Nat /\ Len(onWire') = Len(onWire) + 1
        /\ \A i \in 1..Len(onWire) : onWire'[i] = onWire[i]
        /\ onWire'[Len(onWire) + 1] = p
    BY <2>2
  <2>4. WireHoldsNoGap'
    <3>2. \A i \in 1..Len(onWire) : onWire[i] = [label |-> i - 1, picture |-> i - 1]
      BY DEF StreamIsTrue, WireHoldsNoGap
    <3>3. \A i \in 1..(Len(onWire) + 1) : i \in 1..Len(onWire) \/ i = Len(onWire) + 1
      BY <2>3
    <3>4. ASSUME NEW i \in 1..Len(onWire')
          PROVE  onWire'[i] = [label |-> i - 1, picture |-> i - 1]
      <4>1. CASE i \in 1..Len(onWire)  BY ONLY <2>3, <3>2, <4>1
      <4>2. CASE i = Len(onWire) + 1  
        <5>1. i - 1 = Len(onWire) /\ onWire'[i] = p  BY <2>3, <4>2
        <5>2. p = [label |-> Len(onWire), picture |-> Len(onWire)]  BY <2>1 DEF p
        <5>3. QED  BY <5>1, <5>2, Zenon
      <4>3. QED  BY <2>3, <3>3, <4>1, <4>2
    <3>5. QED  BY <3>4 DEF WireHoldsNoGap
  <2>5. RunIsJudged'  BY DEF StreamIsTrue, RunIsJudged, ThreadsAgree
  <2>6. QED  BY <2>4, <2>5 DEF StreamIsTrue
<1>5. ThreadsAgree'  BY DEF ThreadsAgree, VideoTypeOK
<1>6. InOrder'  BY DEF InOrder, Received, ThreadsAgree
<1>7. SlotsHoldTheirPictures'  BY DEF SlotsHoldTheirPictures, ThreadsAgree
<1>8. FailureIsKept'  BY DEF FailureIsKept, ThreadsAgree
<1>9. QED  BY <1>1, <1>2, <1>3, <1>4, <1>5, <1>6, <1>7, <1>8

LEMMA RaiseFailedKeeps == ASSUME VideoInv, RaiseFailed PROVE VideoInv'
<1> USE VideoAssumption DEF VideoInv, SlotsAreSound, RaiseFailed,
        submitOnly, completeOnly, submitVars, completeVars
<1>1. VideoTypeOK'  BY DEF VideoTypeOK, SubmitSteps, CompleteSteps
<1>2. SlotsAreSomewhere'  BY SlotsStay
<1>3. NoneIsOverwritten'  BY DEF NoneIsOverwritten, ThreadsAgree
<1>4. StreamIsTrue'  BY DEF StreamIsTrue, WireHoldsNoGap, RunIsJudged, ThreadsAgree
<1>5. ThreadsAgree'  BY DEF ThreadsAgree, VideoTypeOK
<1>6. InOrder'  BY DEF InOrder, Received, ThreadsAgree
<1>7. SlotsHoldTheirPictures'  BY DEF SlotsHoldTheirPictures, ThreadsAgree
<1>8. FailureIsKept'  BY DEF FailureIsKept, ThreadsAgree
<1>9. QED  BY <1>1, <1>2, <1>3, <1>4, <1>5, <1>6, <1>7, <1>8

LEMMA GiveBackKeeps == ASSUME VideoInv, GiveBack PROVE VideoInv'
<1> USE VideoAssumption DEF VideoInv, SlotsAreSound, GiveBack,
        submitOnly, completeOnly, submitVars, completeVars
<1>1. VideoTypeOK'
  <2>1. working \in Work  BY DEF ThreadsAgree, VideoTypeOK
  <2>2. freeSlots' \in Seq(PoolSlots)  BY <2>1, Added, WorkIsSome DEF VideoTypeOK
  <2>3. results' \in Seq({"ok", "err"})  BY ResultAdded
  <2>4. QED  BY <2>2, <2>3 DEF VideoTypeOK, CompleteSteps
<1>2. SlotsAreSomewhere'
  <2>1. working \in Work  BY DEF ThreadsAgree, VideoTypeOK
  <2>2. QED  BY <1>1, <2>1, SlotGivenBack
<1>3. NoneIsOverwritten'
  <2>1. working \in Work  BY DEF ThreadsAgree, VideoTypeOK
  <2>2. Free' = Free \cup {working.slot}  BY <1>1, <2>1, SlotGivenBack
  <2>3. ~failed => ~encoder[working.slot].busy  BY DEF FailureIsKept
  <2>4. inHand' = inHand /\ encoder' = encoder /\ submitter' = submitter /\ failed' = failed
    OBVIOUS
  <2>5. ~failed => \A s \in Free' : ~encoder'[s].busy
    BY <2>2, <2>3, <2>4 DEF NoneIsOverwritten, Free
  <2>6. \A i \in DOMAIN freeSlots' : freeSlots'[i] \in Free'  BY DEF Free
  <2>7. ~failed => (submitter \in {"draw", "submit"} => ~encoder[inHand].busy)
    BY DEF NoneIsOverwritten
  <2>8. QED  BY ONLY <2>4, <2>5, <2>6, <2>7 DEF NoneIsOverwritten
<1>4. StreamIsTrue'  BY DEF StreamIsTrue, WireHoldsNoGap, RunIsJudged, ThreadsAgree
<1>5. ThreadsAgree'  BY DEF ThreadsAgree, VideoTypeOK
<1>6. InOrder'
  <2>1. working # NoWork /\ working' = NoWork  BY DEF ThreadsAgree
  <2>2. Len(results') = Len(results) + 1 /\ Len(results) \in Nat  BY ResultAdded
  <2>3. Received' = Received  BY ONLY <2>1, <2>2 DEF Received
  <2>4. QED  BY <2>1, <2>3 DEF InOrder
<1>7. SlotsHoldTheirPictures'  BY DEF SlotsHoldTheirPictures, ThreadsAgree
<1>8. FailureIsKept'
  <2> DEFINE ok == completer = "report"
  <2>1. /\ Len(results) \in Nat /\ Len(results') = Len(results) + 1
        /\ DOMAIN results' = DOMAIN results \cup {Len(results) + 1}
        /\ \A i \in DOMAIN results : results'[i] = results[i]
        /\ results'[Len(results) + 1] = (IF ok THEN "ok" ELSE "err")
    BY ResultAdded
  <2>2. CASE ok
    <3>1. ~failed /\ ~failed' /\ completer' = "receive"  BY <2>2 DEF FailureIsKept
    <3>2. QED  BY <2>1, <2>2, <3>1 DEF FailureIsKept
  <2>3. CASE ~ok
    <3>1. failed /\ failed' /\ completer' = "receive"  BY <2>3 DEF FailureIsKept
    <3>2. results'[Len(results) + 1] = "err"  BY <2>1, <2>3
    <3>3. QED  BY <2>1, <3>1, <3>2 DEF FailureIsKept
  <2>4. QED  BY <2>2, <2>3
<1>9. QED  BY <1>1, <1>2, <1>3, <1>4, <1>5, <1>6, <1>7, <1>8

LEMMA HardwareEndsKeeps ==
  ASSUME VideoInv, NEW s \in PoolSlots, HardwareEnds(s) PROVE VideoInv'
<1> USE VideoAssumption DEF VideoInv, SlotsAreSound, HardwareEnds,
        submitOnly, completeOnly, submitVars, completeVars
<1>1. VideoTypeOK'
  <2>1. encoder' \in [PoolSlots -> [busy : BOOLEAN, picture : FrameIds]]  BY DEF VideoTypeOK
  <2>2. QED  BY <2>1 DEF VideoTypeOK
<1>2. SlotsAreSomewhere'  BY SlotsStay
<1>3. NoneIsOverwritten'  BY DEF NoneIsOverwritten, ThreadsAgree
<1>4. StreamIsTrue'  BY DEF StreamIsTrue, WireHoldsNoGap, RunIsJudged, ThreadsAgree
<1>5. ThreadsAgree'  BY DEF ThreadsAgree, VideoTypeOK
<1>6. InOrder'  BY DEF InOrder, Received, ThreadsAgree
<1>7. SlotsHoldTheirPictures'  BY DEF SlotsHoldTheirPictures, ThreadsAgree
<1>8. FailureIsKept'
  <2>1. \A t \in PoolSlots : ~encoder[t].busy => ~encoder'[t].busy  BY DEF VideoTypeOK
  <2>2. completer \in {"lock", "send", "report"} => working.slot \in PoolSlots
    BY WorkIsSome DEF ThreadsAgree, VideoTypeOK
  <2>3. QED  BY <2>1, <2>2 DEF FailureIsKept
<1>9. QED  BY <1>1, <1>2, <1>3, <1>4, <1>5, <1>6, <1>7, <1>8

\* Every step of either thread and of the encoder keeps the invariant.
LEMMA VideoStep == VideoInv /\ [VideoNext]_videoVars => VideoInv'
<1> SUFFICES ASSUME VideoInv, [VideoNext]_videoVars PROVE VideoInv'  OBVIOUS
<1>1. CASE SubmitNext
  BY <1>1, NextFrameKeeps, TakeSlotKeeps, SpinKeeps, DrawKeeps, EncodeSubmitKeeps, GiveUpKeeps,
     QueueWorkKeeps, LeaveKeeps, CollectKeeps, Zenon DEF SubmitNext
<1>2. CASE CompleteNext
  BY <1>2, TakeWorkKeeps, CheckFailedKeeps, CompletedKeeps, CompletionFailsKeeps,
     CopyBitstreamKeeps, SendPictureKeeps, RaiseFailedKeeps, GiveBackKeeps, Zenon
     DEF CompleteNext
<1>3. CASE \E s \in PoolSlots : HardwareEnds(s)  BY <1>3, HardwareEndsKeeps
<1>4. CASE UNCHANGED videoVars
  <2> USE <1>4 DEF videoVars, submitVars, completeVars, VideoInv, SlotsAreSound
  <2>1. VideoTypeOK'  BY DEF VideoTypeOK
  <2>2. SlotsAreSomewhere' /\ NoneIsOverwritten'  BY SlotsStay DEF NoneIsOverwritten
  <2>3. StreamIsTrue'  BY DEF StreamIsTrue, WireHoldsNoGap, RunIsJudged
  <2>4. ThreadsAgree' /\ InOrder'  BY DEF ThreadsAgree, InOrder, Received
  <2>5. SlotsHoldTheirPictures' /\ FailureIsKept'  BY DEF SlotsHoldTheirPictures, FailureIsKept
  <2>6. QED  BY <2>1, <2>2, <2>3, <2>4, <2>5
<1>5. QED  BY <1>1, <1>2, <1>3, <1>4 DEF VideoNext

\* The invariant the theorems below are parts of.
THEOREM VideoInvariance == VideoSpec => []VideoInv
<1>1. QED  BY VideoStarts, VideoStep, PTL DEF VideoSpec

\* The state of the pipeline stays well typed, for any pool and any run.
THEOREM VideoTypeCorrect == VideoSpec => []VideoTypeOK
<1>1. VideoInv => VideoTypeOK  BY DEF VideoInv
<1>2. QED  BY <1>1, VideoInvariance, PTL

\* What is sent are the first frames of the run, each with its own picture, none
\* after one that failed, and a run called good sent them all.
THEOREM StreamStaysTrue == VideoSpec => []StreamIsTrue
<1>1. VideoInv => StreamIsTrue  BY DEF VideoInv
<1>2. QED  BY <1>1, VideoInvariance, PTL

\* A slot is in one place, and before a failure none is drawn into or lies free
\* while the encoder reads it.
THEOREM SlotsStaySound == VideoSpec => []SlotsAreSound
<1>1. VideoInv => SlotsAreSound  BY DEF VideoInv
<1>2. QED  BY <1>1, VideoInvariance, PTL

-----------------------------------------------------------------------------
(* The screen the host captures. *)

\* What the consumer holds at each place of its turn.
HandsMatch ==
  /\ reader # "idle" => lent = Nothing
  /\ reader \notin {"drain", "deliver"} => newest = Nothing

\* The invariant: the types, what is held, and a wake for every frame slept on.
ScreenInv ==
  /\ ScreenTypeOK /\ HandsMatch
  /\ Asleep => Len(pool) <= raising

\* A pool with nothing in it.
LEMMA EmptyPool == <<>> \in Seq(1..MaxRendered) /\ Len(<<>>) = 0
OBVIOUS

\* The capture begins with nothing in anyone's hands.
LEMMA ScreenStarts == ScreenInit => ScreenInv
<1> SUFFICES ASSUME ScreenInit PROVE ScreenInv  OBVIOUS
<1>1. pool \in Seq(1..MaxRendered)  BY EmptyPool DEF ScreenInit
<1>2. /\ rendered \in 0..MaxRendered /\ raising \in Nat
      /\ {newest, lent} \subseteq 0..MaxRendered /\ restarts \in 0..MaxRestarts
  BY ScreenAssumption DEF ScreenInit, Nothing
<1>3. ScreenTypeOK  BY <1>1, <1>2 DEF ScreenInit, ScreenTypeOK
<1>4. QED  BY <1>3 DEF ScreenInit, ScreenInv, HandsMatch, Asleep

\* A wake taken too early is followed by a look into the pool, and a frame put in
\* after that look has its own wake to come.
LEMMA ScreenStep == ScreenInv /\ [ScreenNext]_screenVars => ScreenInv'
<1> SUFFICES ASSUME ScreenInv, [ScreenNext]_screenVars PROVE ScreenInv'  OBVIOUS
<1> USE ScreenAssumption DEF shared, compositor, consumer, Nothing, Answers
<1>0. /\ pool \in Seq(1..MaxRendered) /\ Len(pool) \in Nat /\ raising \in Nat
      /\ rendered \in 0..MaxRendered
  BY DEF ScreenInv, ScreenTypeOK
<1>1. CASE Render
  <2>1. rendered' \in 1..MaxRendered  BY <1>0, <1>1 DEF Render
  <2>2. pool' \in Seq(1..MaxRendered) /\ Len(pool') = Len(pool) + 1
    BY <1>0, <1>1, <2>1 DEF Render
  <2>3. ScreenTypeOK'  BY <1>0, <1>1, <2>1, <2>2 DEF Render, ScreenInv, ScreenTypeOK
  <2>4. HandsMatch'  BY <1>1 DEF Render, ScreenInv, HandsMatch
  <2>5. (Asleep => Len(pool) <= raising)'  BY <1>0, <1>1, <2>2 DEF Render, ScreenInv, Asleep
  <2>6. QED  BY <2>3, <2>4, <2>5 DEF ScreenInv
<1>2. CASE FrameArrived
  BY <1>0, <1>2 DEF FrameArrived, ScreenInv, ScreenTypeOK, HandsMatch, Asleep
<1>3. CASE CloseItem \/ MarkLost \/ WakeForLoss
  BY <1>0, <1>3 DEF CloseItem, MarkLost, WakeForLoss, ScreenInv, ScreenTypeOK, HandsMatch, Asleep
<1>4. CASE Acquire
  BY <1>0, <1>4 DEF Acquire, ScreenInv, ScreenTypeOK, HandsMatch, Asleep
<1>5. CASE TakeFlag
  BY <1>0, <1>5 DEF TakeFlag, ScreenInv, ScreenTypeOK, HandsMatch, Asleep
<1>6. CASE DrainFrame
  <2>1. newest' \in 1..MaxRendered /\ pool' \in Seq(1..MaxRendered)
    BY <1>0, <1>6 DEF DrainFrame
  <2>2. QED  BY <1>6, <2>1 DEF DrainFrame, ScreenInv, ScreenTypeOK, HandsMatch, Asleep
<1>7. CASE DrainEnds
  BY <1>0, <1>7 DEF DrainEnds, ScreenInv, ScreenTypeOK, HandsMatch, Asleep
<1>8. CASE DrainFails \/ DeliverFails
  BY <1>0, <1>8 DEF DrainFails, DeliverFails, ScreenInv, ScreenTypeOK, HandsMatch, Asleep
<1>9. CASE WaitReturns \/ Woken
  BY <1>0, <1>9 DEF WaitReturns, Woken, ScreenInv, ScreenTypeOK, HandsMatch, Asleep
<1>10. CASE Deliver
  <2>1. pool' = pool \/ pool' = <<>>  BY <1>10 DEF Deliver
  <2>2. pool' \in Seq(1..MaxRendered)  BY <1>0, <2>1, EmptyPool
  <2>3. QED  BY <1>10, <2>2 DEF Deliver, ScreenInv, ScreenTypeOK, HandsMatch, Asleep
<1>11. CASE Restart
  <2>0. item' \in {"open", "closing", "marked", "closed"}
    BY <1>11 DEF Restart, ScreenInv, ScreenTypeOK
  <2>1. raising' \in Nat /\ restarts' \in 0..MaxRestarts
    BY <1>0, <1>11 DEF Restart, ScreenInv, ScreenTypeOK
  <2>2. pool' = <<>> /\ reader' = "idle" /\ answer' = "none" /\ newest' = Nothing /\ lent' = Nothing
    BY <1>11 DEF Restart, ScreenInv, HandsMatch
  <2>3. ScreenTypeOK'  BY <1>11, <2>0, <2>1, <2>2, EmptyPool DEF Restart, ScreenInv, ScreenTypeOK
  <2>4. QED  BY <2>2, <2>3 DEF ScreenInv, HandsMatch, Asleep
<1>12. CASE GiveUpScreen
  BY <1>0, <1>12 DEF GiveUpScreen, ScreenInv, ScreenTypeOK, HandsMatch, Asleep
<1>13. CASE UNCHANGED screenVars
  BY <1>13 DEF screenVars, ScreenInv, ScreenTypeOK, HandsMatch, Asleep
<1>14. QED
  BY <1>1, <1>2, <1>3, <1>4, <1>5, <1>6, <1>7, <1>8, <1>9, <1>10, <1>11, <1>12, <1>13, Zenon
     DEF ScreenNext

\* The invariant the theorem below follows from.
THEOREM ScreenInvariance == ScreenSpec => []ScreenInv
<1>1. QED  BY ScreenStarts, ScreenStep, PTL DEF ScreenSpec

\* A consumer asleep with no wake to come sleeps through no frame and holds no
\* buffer, for any pool.
THEOREM SleepsThroughNothing == ScreenSpec => []NothingSleptThrough
<1>1. ScreenInv => NothingSleptThrough
  BY DEF ScreenInv, NothingSleptThrough, Asleep, HandsMatch, Out, Nothing
<1>2. QED  BY <1>1, ScreenInvariance, PTL

-----------------------------------------------------------------------------
(* The controllers. *)

\* A slot that has accepted a state has a state to be newer than; what a slot
\* and its controller are said to be agrees.
HostInv == PadHostTypeOK /\ DevicesAreDrivenInOrder /\ AttachedIsWatched

LEMMA MessageFacts ==
  ASSUME NEW m \in PadMessage
  PROVE  /\ m.slot \in Slots /\ m.generation \in PadGenerations
         /\ m.kind = "state" => /\ m.sequence \in 0..(Modulus - 1)
                                /\ m.shows \in {"neutral", "live"} /\ m.count \in Counts
BY DEF PadMessage, Control, State

\* One controller through a neutralization: driven in order if it was there.
LEMMA NeutralizedFacts ==
  ASSUME NEW d \in [exists : BOOLEAN, generation : PadGenerations,
                    shows : {"fresh", "neutral", "live"}, misused : BOOLEAN],
         NEW g \in PadGenerations
  PROVE  /\ Neutralized(d, g) \in [exists : BOOLEAN, generation : PadGenerations,
                                   shows : {"fresh", "neutral", "live"}, misused : BOOLEAN]
         /\ ~Neutralized(d, g).exists
         /\ d.exists /\ d.generation = g /\ ~d.misused => ~Neutralized(d, g).misused
BY DEF Neutralized, SubmitState, Destroy

LEMMA HostInit_HostInv == PadHostInit => HostInv
<1> SUFFICES ASSUME PadHostInit PROVE HostInv
  OBVIOUS
<1>1. PadHostTypeOK
  BY GamepadAssumption DEF PadHostInit, PadHostTypeOK, EmptySlot, NoDevice, Unset
<1>2. DevicesAreDrivenInOrder /\ AttachedIsWatched
  BY DEF PadHostInit, DevicesAreDrivenInOrder, AttachedIsWatched, EmptySlot, NoDevice
<1>3. QED  BY <1>1, <1>2 DEF HostInv

LEMMA AttachKeepsInv ==
  ASSUME HostInv, NEW m \in PadMessage, running, UNCHANGED running, Attach(m)
  PROVE  HostInv'
<1> DEFINE s == m.slot
           g == m.generation
           d == IF slots[s].attached THEN Neutralized(device[s], slots[s].generation)
                ELSE device[s]
<1>1. s \in Slots /\ g \in PadGenerations  BY MessageFacts
<1>2. CASE AttachStale(m)
  BY <1>2 DEF Attach, Refuse, padHostVars, HostInv, PadHostTypeOK, DevicesAreDrivenInOrder,
              AttachedIsWatched
<1>3. CASE ~AttachStale(m)
  <2>1. /\ device' = [device EXCEPT ![s] = Create(d, g)]
        /\ slots' = [slots EXCEPT ![s] = [attached |-> TRUE, generation |-> g, sequence |-> Unset]]
        /\ count' = [count EXCEPT ![s] = Unset]
        /\ active' = TRUE /\ running' = TRUE
    BY <1>3 DEF Attach, HostInv, PadHostTypeOK
  <2>2. /\ device[s] \in [exists : BOOLEAN, generation : PadGenerations,
                          shows : {"fresh", "neutral", "live"}, misused : BOOLEAN]
        /\ slots[s].generation \in PadGenerations /\ slots[s].attached \in BOOLEAN
    BY <1>1 DEF HostInv, PadHostTypeOK
  <2>3. d \in [exists : BOOLEAN, generation : PadGenerations,
               shows : {"fresh", "neutral", "live"}, misused : BOOLEAN]
    BY <2>2, NeutralizedFacts
  <2>4. ~d.exists /\ ~d.misused
    BY <1>1, <2>2, NeutralizedFacts DEF HostInv, DevicesAreDrivenInOrder
  <2> HIDE DEF s, g, d
  <2>5. /\ Create(d, g) \in [exists : BOOLEAN, generation : PadGenerations,
                             shows : {"fresh", "neutral", "live"}, misused : BOOLEAN]
        /\ Create(d, g).exists /\ Create(d, g).generation = g /\ ~Create(d, g).misused
    BY <1>1, <2>3, <2>4 DEF Create
  <2>6. PadHostTypeOK'
    BY <1>1, <2>1, <2>5 DEF HostInv, PadHostTypeOK
  <2>7. DevicesAreDrivenInOrder'
    BY <1>1, <2>1, <2>5 DEF HostInv, PadHostTypeOK, DevicesAreDrivenInOrder
  <2>8. AttachedIsWatched'  BY <2>1 DEF AttachedIsWatched
  <2>9. QED  BY <2>6, <2>7, <2>8 DEF HostInv
<1>4. QED  BY <1>2, <1>3

LEMMA SubmitKeepsInv ==
  ASSUME HostInv, NEW m \in PadMessage, running, UNCHANGED running, Submit(m)
  PROVE  HostInv'
<1> DEFINE s == m.slot
           g == m.generation
<1>1. /\ s \in Slots /\ g \in PadGenerations /\ m.sequence \in 0..(Modulus - 1)
      /\ m.shows \in {"neutral", "live"} /\ m.count \in Counts
  BY MessageFacts DEF Submit
<1>2. CASE ~Accepts(m)
  BY <1>2 DEF Submit, Refuse, padHostVars, HostInv, PadHostTypeOK, DevicesAreDrivenInOrder,
              AttachedIsWatched
<1>3. CASE Accepts(m)
  <2>1. /\ slots' = [slots EXCEPT ![s].sequence = m.sequence]
        /\ device' = [device EXCEPT ![s] = SubmitState(device[s], g, m.shows)]
        /\ count' = [count EXCEPT ![s] = m.count]
        /\ active' = TRUE /\ running' = TRUE
        /\ slots[s].attached /\ slots[s].generation = g
    BY <1>3 DEF Submit, Accepts, HostInv, PadHostTypeOK
  <2>2. /\ device[s] \in [exists : BOOLEAN, generation : PadGenerations,
                          shows : {"fresh", "neutral", "live"}, misused : BOOLEAN]
        /\ device[s].exists /\ device[s].generation = g /\ ~device[s].misused
    BY <1>1, <2>1 DEF HostInv, PadHostTypeOK, DevicesAreDrivenInOrder
  <2> HIDE DEF s, g
  <2>3. /\ SubmitState(device[s], g, m.shows) \in
             [exists : BOOLEAN, generation : PadGenerations,
              shows : {"fresh", "neutral", "live"}, misused : BOOLEAN]
        /\ SubmitState(device[s], g, m.shows).exists
        /\ SubmitState(device[s], g, m.shows).generation = g
        /\ ~SubmitState(device[s], g, m.shows).misused
    BY <1>1, <2>2 DEF SubmitState
  <2>4. \A t \in Slots : /\ slots'[t].attached = slots[t].attached
                         /\ slots'[t].generation = slots[t].generation
    BY <1>1, <2>1 DEF HostInv, PadHostTypeOK
  <2>5. PadHostTypeOK'
    BY <1>1, <2>1, <2>3 DEF HostInv, PadHostTypeOK
  <2>6. DevicesAreDrivenInOrder'
    BY <1>1, <2>1, <2>3, <2>4 DEF HostInv, PadHostTypeOK, DevicesAreDrivenInOrder
  <2>7. AttachedIsWatched'  BY <2>1 DEF AttachedIsWatched
  <2>8. QED  BY <2>5, <2>6, <2>7 DEF HostInv
<1>4. QED  BY <1>2, <1>3

LEMMA DetachKeepsInv ==
  ASSUME HostInv, NEW m \in PadMessage, running, UNCHANGED running, Detach(m)
  PROVE  HostInv'
<1> DEFINE s == m.slot
           g == m.generation
<1>1. s \in Slots /\ g \in PadGenerations  BY MessageFacts
<1>2. CASE ~Neutralizes(s, g)
  BY <1>2 DEF Detach, Refuse, padHostVars, HostInv, PadHostTypeOK, DevicesAreDrivenInOrder,
              AttachedIsWatched
<1>3. CASE Neutralizes(s, g)
  <2>1. /\ slots' = [slots EXCEPT ![s] = EmptySlot]
        /\ device' = [device EXCEPT ![s] = Neutralized(device[s], g)]
        /\ count' = [count EXCEPT ![s] = Unset]
        /\ active' = TRUE /\ running' = TRUE
        /\ slots[s].attached /\ slots[s].generation = g
    BY <1>3 DEF Detach, Neutralizes, HostInv, PadHostTypeOK
  <2>2. /\ device[s] \in [exists : BOOLEAN, generation : PadGenerations,
                          shows : {"fresh", "neutral", "live"}, misused : BOOLEAN]
        /\ device[s].exists /\ device[s].generation = g /\ ~device[s].misused
    BY <1>1, <2>1 DEF HostInv, PadHostTypeOK, DevicesAreDrivenInOrder
  <2> HIDE DEF s, g
  <2>3. /\ Neutralized(device[s], g) \in
             [exists : BOOLEAN, generation : PadGenerations,
              shows : {"fresh", "neutral", "live"}, misused : BOOLEAN]
        /\ ~Neutralized(device[s], g).exists /\ ~Neutralized(device[s], g).misused
    BY <1>1, <2>2, NeutralizedFacts
  <2>4. EmptySlot \in [attached : BOOLEAN, generation : PadGenerations,
                       sequence : 0..(Modulus - 1) \cup {Unset}]
    BY GamepadAssumption DEF EmptySlot
  <2>5. PadHostTypeOK'
    BY <1>1, <2>1, <2>3, <2>4 DEF HostInv, PadHostTypeOK
  <2>6. DevicesAreDrivenInOrder'
    BY <1>1, <2>1, <2>3 DEF HostInv, PadHostTypeOK, DevicesAreDrivenInOrder, EmptySlot
  <2>7. AttachedIsWatched'  BY <2>1 DEF AttachedIsWatched
  <2>8. QED  BY <2>5, <2>6, <2>7 DEF HostInv
<1>4. QED  BY <1>2, <1>3

LEMMA NeutralizeAllKeepsInv ==
  ASSUME HostInv, running' \in BOOLEAN, active' \in BOOLEAN, NeutralizeAll
  PROVE  HostInv'
<1>1. /\ device' = [s \in Slots |->
           IF slots[s].attached THEN Neutralized(device[s], slots[s].generation) ELSE device[s]]
      /\ slots' = [s \in Slots |-> EmptySlot]
      /\ count' = [s \in Slots |-> Unset]
  BY DEF NeutralizeAll
<1>2. ASSUME NEW s \in Slots
      PROVE  /\ device'[s] \in [exists : BOOLEAN, generation : PadGenerations,
                                shows : {"fresh", "neutral", "live"}, misused : BOOLEAN]
             /\ ~device'[s].exists /\ ~device'[s].misused
  <2>1. /\ device[s] \in [exists : BOOLEAN, generation : PadGenerations,
                          shows : {"fresh", "neutral", "live"}, misused : BOOLEAN]
        /\ slots[s].generation \in PadGenerations
        /\ ~device[s].misused /\ device[s].exists = slots[s].attached
        /\ slots[s].attached => device[s].generation = slots[s].generation
    BY DEF HostInv, PadHostTypeOK, DevicesAreDrivenInOrder
  <2>2. CASE slots[s].attached
    <3>1. device'[s] = Neutralized(device[s], slots[s].generation)  BY <1>1, <2>2
    <3> DEFINE n == Neutralized(device[s], slots[s].generation)
    <3>2. /\ n \in [exists : BOOLEAN, generation : PadGenerations,
                    shows : {"fresh", "neutral", "live"}, misused : BOOLEAN]
          /\ ~n.exists
          /\ (device[s].exists /\ device[s].generation = slots[s].generation
                /\ ~device[s].misused) => ~n.misused
      BY <2>1, NeutralizedFacts
    <3> HIDE DEF n
    <3>3. device'[s] = n  BY <3>1 DEF n
    <3>4. ~n.misused  BY <2>1, <2>2, <3>2
    <3>5. QED  BY <3>2, <3>3, <3>4
  <2>3. CASE ~slots[s].attached  BY <1>1, <2>1, <2>3
  <2>4. QED  BY <2>2, <2>3
<1>3. EmptySlot \in [attached : BOOLEAN, generation : PadGenerations,
                     sequence : 0..(Modulus - 1) \cup {Unset}]
  BY GamepadAssumption DEF EmptySlot
<1>4. PadHostTypeOK'  BY <1>1, <1>2, <1>3 DEF PadHostTypeOK
<1>5. DevicesAreDrivenInOrder' /\ AttachedIsWatched'
  BY <1>1, <1>2 DEF DevicesAreDrivenInOrder, AttachedIsWatched, EmptySlot
<1>6. QED  BY <1>4, <1>5 DEF HostInv

LEMMA HostStep_HostInv == HostInv /\ [PadHostNext]_padHostVars => HostInv'
<1> SUFFICES ASSUME HostInv, [PadHostNext]_padHostVars PROVE HostInv'
  OBVIOUS
<1>1. CASE UNCHANGED padHostVars
  BY <1>1 DEF padHostVars, HostInv, PadHostTypeOK, DevicesAreDrivenInOrder, AttachedIsWatched
<1>2. ASSUME NEW m \in PadMessage, ReceivePad(m) PROVE HostInv'
  BY <1>2, AttachKeepsInv, SubmitKeepsInv, DetachKeepsInv DEF ReceivePad
<1>3. CASE ExpireIdle  BY <1>3, NeutralizeAllKeepsInv DEF ExpireIdle, HostInv, PadHostTypeOK
<1>4. CASE Stop  BY <1>4, NeutralizeAllKeepsInv DEF Stop, HostInv, PadHostTypeOK
<1>5. CASE Abort
  <2>1. /\ running' = FALSE /\ active' = active
        /\ device' = [s \in Slots |-> [device[s] EXCEPT !.exists = FALSE]]
        /\ slots' = [s \in Slots |-> EmptySlot]
        /\ count' = [s \in Slots |-> Unset]
    BY <1>5 DEF Abort
  <2>2. EmptySlot \in [attached : BOOLEAN, generation : PadGenerations,
                       sequence : 0..(Modulus - 1) \cup {Unset}]
    BY GamepadAssumption DEF EmptySlot
  <2>3. PadHostTypeOK'  BY <2>1, <2>2 DEF HostInv, PadHostTypeOK
  <2>4. \A s \in Slots : /\ device'[s].misused = device[s].misused
                         /\ device'[s].exists = FALSE /\ slots'[s].attached = FALSE
    BY <2>1 DEF HostInv, PadHostTypeOK, EmptySlot
  <2>5. DevicesAreDrivenInOrder' /\ AttachedIsWatched'
    BY <2>4 DEF HostInv, PadHostTypeOK, DevicesAreDrivenInOrder, AttachedIsWatched
  <2>6. QED  BY <2>3, <2>5 DEF HostInv
<1>6. QED  BY <1>1, <1>2, <1>3, <1>4, <1>5 DEF PadHostNext

THEOREM HostInvariance == PadHostSpec => []HostInv
<1>1. QED  BY HostInit_HostInv, HostStep_HostInv, PTL DEF PadHostSpec

\* The types of the host, whatever controller messages it is sent.
THEOREM GamepadTypeCorrect == PadHostSpec => []PadHostTypeOK
<1>1. HostInv => PadHostTypeOK  BY DEF HostInv
<1>2. QED  BY <1>1, HostInvariance, PTL

\* Virtual controllers are created, driven, neutralized and destroyed in that
\* order, whatever controller messages arrive.
THEOREM GamepadDevicesInOrder == PadHostSpec => []DevicesAreDrivenInOrder
<1>1. HostInv => DevicesAreDrivenInOrder  BY DEF HostInv
<1>2. QED  BY <1>1, HostInvariance, PTL

\* No controller is attached without an idle deadline running.
THEOREM GamepadIsWatched == PadHostSpec => []AttachedIsWatched
<1>1. HostInv => AttachedIsWatched  BY DEF HostInv
<1>2. QED  BY <1>1, HostInvariance, PTL

-----------------------------------------------------------------------------
(* The circle of sequence numbers. *)

LEMMA WholeTurns ==
  ASSUME NEW n \in Nat \ {0}, NEW a \in Int
  PROVE  a % n \in 0..(n - 1) /\ a = n * (a \div n) + (a % n) /\ (a \div n) \in Int
OBVIOUS

LEMMA Gather ==
  ASSUME NEW n \in Int, NEW a \in Int, NEW b \in Int, NEW c \in Int
  PROVE  n * a - n * b + n * c = n * (a - b + c)
OBVIOUS

\* A number on the wire that is ahead by less than half the circle belongs to a
\* later state, unless the state is more than half the circle old.
LEMMA AheadIsLater ==
  ASSUME NEW c \in Nat, NEW p \in Nat, Newer(Wire(c), Wire(p)), 2 * (p - c) =< Modulus
  PROVE  c > p
<1> DEFINE rc == c % Modulus
           rp == p % Modulus
           qc == c \div Modulus
           qp == p \div Modulus
           d  == (rc - rp) % Modulus
           e  == (rc - rp) \div Modulus
<1>0. Modulus \in Nat \ {0}  BY GamepadAssumption
<1>1. rc \in Int /\ c = Modulus * qc + rc /\ qc \in Int  BY <1>0, WholeTurns
<1>2. rp \in Int /\ p = Modulus * qp + rp /\ qp \in Int  BY <1>0, WholeTurns
<1>3. d # 0 /\ 2 * d < Modulus  BY DEF Newer, Wire
<1> HIDE DEF rc, rp, qc, qp
<1>4. rc - rp \in Int  BY <1>1, <1>2
<1>5. d \in 0..(Modulus - 1) /\ rc - rp = Modulus * e + d /\ e \in Int
  BY <1>0, <1>4, WholeTurns
<1> HIDE DEF d, e
<1> DEFINE k == qc - qp + e
<1>6. k \in Int  BY <1>1, <1>2, <1>5
<1>7. c - p = Modulus * k + d
  <2>1. c - p = Modulus * qc - Modulus * qp + Modulus * e + d  BY <1>0, <1>1, <1>2, <1>5
  <2>2. Modulus * qc - Modulus * qp + Modulus * e = Modulus * k
    BY <1>0, <1>1, <1>2, <1>5, Gather
  <2>3. QED  BY <2>1, <2>2
<1> HIDE DEF k
<1>8. CASE k >= 0
  <2>1. Modulus * k >= 0  BY <1>0, <1>6, <1>8
  <2>2. Modulus * k \in Int  BY <1>0, <1>6
  <2>3. QED  BY <1>3, <1>5, <1>7, <2>1, <2>2
<1>9. CASE k =< -1
  <2>1. Modulus * k =< -Modulus  BY <1>0, <1>6, <1>9
  <2>2. Modulus * k \in Int  BY <1>0, <1>6
  <2>3. QED  BY <1>0, <1>3, <1>5, <1>7, <2>1, <2>2
<1>10. QED  BY <1>6, <1>8, <1>9

-----------------------------------------------------------------------------
(* Sender and host joined. *)

\* What a controller shows is a state its sender sent, under the number it went
\* by on the wire: what makes a comparison of numbers one of states.
ShowsWhatWasSent ==
  /\ \A m \in network : m.kind = "state" => m.sequence = Wire(m.count)
  /\ \A s \in Slots : count[s] # Unset =>
       /\ slots[s].sequence = Wire(count[s])
       /\ \E n \in network : /\ n.kind = "state" /\ n.count = count[s]
                             /\ n.generation = slots[s].generation

GamepadInv == LinkTypeOK /\ mine # 0 /\ HostInv /\ ShowsWhatWasSent

LEMMA WireFacts ==
  ASSUME NEW n \in Nat
  PROVE  Wire(n) \in 0..(Modulus - 1)
BY GamepadAssumption, WholeTurns DEF Wire

LEMMA CountsFacts == Counts \subseteq Nat /\ 0..MaxSends \subseteq Counts /\ MaxSends \in Nat
BY GamepadAssumption, LinkAssumption

LEMMA ControlIsMessage ==
  ASSUME LinkTypeOK
  PROVE  ControlMessage \in PadMessage
<1>1. attachId \in ControlIds /\ DetachId \in ControlIds
  <2>1. attachId \in 1..(MaxRecovers + 2) /\ DetachId \in 1..(MaxRecovers + 2)
    BY LinkAssumption DEF LinkTypeOK, DetachId
  <2>2. QED  BY <2>1, LinkAssumption
<1>2. QED
  BY <1>1, LinkAssumption DEF LinkTypeOK, ControlMessage, PadMessage, Control

LEMMA StateIsMessage ==
  ASSUME LinkTypeOK, NEW what \in {"neutral", "live"}
  PROVE  StateMessage(what) \in PadMessage
<1>1. sent \in Nat /\ sent \in Counts  BY CountsFacts DEF LinkTypeOK
<1>2. Wire(sent) \in 0..(Modulus - 1)  BY <1>1, WireFacts
<1>3. QED  BY <1>1, <1>2, LinkAssumption DEF LinkTypeOK, StateMessage, PadMessage, State

LEMMA GamepadStarts == PadInit => GamepadInv
<1> SUFFICES ASSUME PadInit PROVE GamepadInv
  OBVIOUS
<1>1. HostInv  BY HostInit_HostInv DEF PadInit
<1>2. LinkTypeOK /\ mine # 0  BY <1>1, LinkAssumption DEF PadInit, HostInv, LinkTypeOK
<1>3. ShowsWhatWasSent  BY DEF PadInit, PadHostInit, ShowsWhatWasSent
<1>4. QED  BY <1>1, <1>2, <1>3 DEF GamepadInv

\* The host's part of any step keeps what the host keeps of itself.
LEMMA LinkStepOfHost ==
  ASSUME GamepadInv, [PadNext]_padVars
  PROVE  HostInv'
<1>1. HostInv /\ network \subseteq PadMessage  BY DEF GamepadInv, LinkTypeOK
<1>2. CASE UNCHANGED padHostVars  BY <1>1, <1>2, HostStep_HostInv
<1>3. CASE \E m \in network : DeliverPad(m)
  <2>1. \E m \in PadMessage : ReceivePad(m)  BY <1>1, <1>3 DEF DeliverPad
  <2>2. QED  BY <1>1, <2>1, HostStep_HostInv DEF PadHostNext
<1>4. CASE HostTurn  BY <1>1, <1>4, HostStep_HostInv DEF HostTurn, PadHostNext
<1>5. CASE SenderNext
  <2>1. UNCHANGED padHostVars
    BY <1>5 DEF SenderNext, SendControl, ControlAcked, SendState, Recover, Finish, Fail, RestartSender
  <2>2. QED  BY <1>2, <2>1
<1>6. CASE UNCHANGED padVars  BY <1>2, <1>6 DEF padVars
<1>7. QED  BY <1>3, <1>4, <1>5, <1>6 DEF PadNext

\* The sender's part: what it puts in the network is a message of its own.
LEMMA SenderKeepsInv ==
  ASSUME GamepadInv, SenderNext
  PROVE  /\ LinkTypeOK' /\ mine' # 0 /\ ShowsWhatWasSent'
         /\ UNCHANGED padHostVars
<1>1. LinkTypeOK /\ mine # 0 /\ ShowsWhatWasSent  BY DEF GamepadInv
<1>2. UNCHANGED padHostVars
  BY DEF SenderNext, SendControl, ControlAcked, SendState, Recover, Finish, Fail, RestartSender
<1>3. PadHostTypeOK'  BY <1>1, <1>2 DEF LinkTypeOK, PadHostTypeOK, padHostVars
<1>4. UNCHANGED <<slots, count>>  BY <1>2 DEF padHostVars
<1>5. ASSUME UNCHANGED network PROVE ShowsWhatWasSent'
  BY <1>1, <1>4, <1>5 DEF ShowsWhatWasSent, Wire
<1>6. ASSUME NEW m \in PadMessage, Send(m), m.kind = "state" => m.sequence = Wire(m.count)
      PROVE  /\ network' \subseteq PadMessage /\ sent' \in 0..MaxSends
             /\ ShowsWhatWasSent'
  <2>1. network' = network \cup {m} /\ sent' = sent + 1 /\ sent < MaxSends
    BY <1>6 DEF Send
  <2>2. network' \subseteq PadMessage  BY <1>1, <2>1 DEF LinkTypeOK
  <2>3. sent' \in 0..MaxSends  BY <1>1, <2>1, CountsFacts DEF LinkTypeOK
  <2>4. ShowsWhatWasSent'
    BY <1>1, <1>4, <1>6, <2>1 DEF ShowsWhatWasSent, Wire
  <2>5. QED  BY <2>2, <2>3, <2>4
<1>7. ASSUME NEW what \in {"neutral", "live"}, Send(StateMessage(what))
      PROVE  /\ network' \subseteq PadMessage /\ sent' \in 0..MaxSends
             /\ ShowsWhatWasSent'
  <2>1. StateMessage(what) \in PadMessage  BY <1>1, StateIsMessage
  <2>2. StateMessage(what).sequence = Wire(StateMessage(what).count)
    BY DEF StateMessage
  <2>3. QED  BY <1>6, <1>7, <2>1, <2>2
<1>8. CASE SendControl
  <2>1. ControlMessage \in PadMessage /\ ControlMessage.kind # "state"
    BY <1>1, ControlIsMessage DEF ControlMessage
  <2>2. network' \subseteq PadMessage /\ sent' \in 0..MaxSends /\ ShowsWhatWasSent'
    BY <1>6, <1>8, <2>1 DEF SendControl
  <2>3. QED  BY <1>1, <1>2, <1>3, <1>8, <2>2 DEF SendControl, LinkTypeOK
<1>9. CASE SendState
  <2>1. network' \subseteq PadMessage /\ sent' \in 0..MaxSends /\ ShowsWhatWasSent'
    BY <1>7, <1>9 DEF SendState
  <2>2. QED  BY <1>1, <1>2, <1>3, <1>9, <2>1 DEF SendState, LinkTypeOK
<1>10. CASE Finish
  <2>1. network' \subseteq PadMessage /\ sent' \in 0..MaxSends /\ ShowsWhatWasSent'
    BY <1>7, <1>10 DEF Finish
  <2>2. QED  BY <1>1, <1>2, <1>3, <1>10, <2>1 DEF Finish, LinkTypeOK
<1>11. CASE ControlAcked
  BY <1>1, <1>2, <1>3, <1>5, <1>11 DEF ControlAcked, LinkTypeOK, linkVars
<1>12. CASE Fail
  BY <1>1, <1>2, <1>3, <1>5, <1>12 DEF Fail, LinkTypeOK, linkVars
<1>13. CASE Recover
  <2>1. attachId' \in 1..(MaxRecovers + 1)  BY <1>1, <1>13, LinkAssumption DEF Recover, LinkTypeOK
  <2>2. QED  BY <1>1, <1>2, <1>3, <1>5, <1>13, <2>1 DEF Recover, LinkTypeOK, linkVars
<1>14. CASE RestartSender
  <2>1. mine' \in PadGenerations /\ mine' # 0
    BY <1>1, <1>14, GamepadAssumption DEF RestartSender, LinkTypeOK
  <2>2. attachId' \in 1..(MaxRecovers + 1) /\ sent' \in 0..MaxSends
    BY <1>14, LinkAssumption DEF RestartSender
  <2>3. QED  BY <1>1, <1>2, <1>3, <1>5, <1>14, <2>1, <2>2 DEF RestartSender, LinkTypeOK
<1>15. QED
  BY <1>8, <1>9, <1>10, <1>11, <1>12, <1>13, <1>14 DEF SenderNext

\* What a step may do to the count of a slot that keeps its controller.
Later == \A s \in Slots : (count[s] # Unset /\ count'[s] # Unset) => count'[s] >= count[s]

\* Sweeping, stopping and aborting empty every slot.
LEMMA TurnKeepsInv ==
  ASSUME GamepadInv, HostInv', HostTurn
  PROVE  LinkTypeOK' /\ mine' # 0 /\ ShowsWhatWasSent' /\ Later
<1>1. count' = [s \in Slots |-> Unset]
  BY DEF HostTurn, ExpireIdle, Stop, Abort, NeutralizeAll
<1>2. \A s \in Slots : count'[s] = Unset  BY <1>1
<1>3. UNCHANGED <<phase, mine, attachId, sent, network, acks>>
  BY DEF HostTurn, senderVars, linkVars
<1>4. ShowsWhatWasSent' /\ Later
  BY <1>2, <1>3 DEF GamepadInv, ShowsWhatWasSent, Later, Wire
<1>5. LinkTypeOK' /\ mine' # 0  BY <1>3 DEF GamepadInv, HostInv, LinkTypeOK
<1>6. QED  BY <1>4, <1>5

\* A state that is shown is one from the network, and its number is kept.
LEMMA SubmitShowsWhatWasSent ==
  ASSUME GamepadInv, NEW m \in network, Submit(m), UNCHANGED network
  PROVE  ShowsWhatWasSent'
<1>1. m \in PadMessage  BY DEF GamepadInv, LinkTypeOK
<1>2. m.kind = "state" /\ m.slot \in Slots /\ m.count \in Nat /\ m.sequence = Wire(m.count)
  BY <1>1, MessageFacts, CountsFacts DEF GamepadInv, ShowsWhatWasSent, Submit
<1>3. CASE ~Accepts(m)
  BY <1>3 DEF Submit, Refuse, padHostVars, GamepadInv, ShowsWhatWasSent, Wire
<1>4. CASE Accepts(m)
  <2>1. /\ slots' = [slots EXCEPT ![m.slot].sequence = m.sequence]
        /\ count' = [count EXCEPT ![m.slot] = m.count]
        /\ slots[m.slot].generation = m.generation
    BY <1>4 DEF Submit, Accepts
  <2>2. ASSUME NEW s \in Slots, count'[s] # Unset
        PROVE  /\ slots'[s].sequence = Wire(count'[s])
               /\ \E n \in network : /\ n.kind = "state" /\ n.count = count'[s]
                                     /\ n.generation = slots'[s].generation
    <3>1. CASE s = m.slot
      <4>1. /\ slots'[s].sequence = m.sequence /\ slots'[s].generation = m.generation
            /\ count'[s] = m.count
        BY <1>2, <2>1, <3>1 DEF GamepadInv, HostInv, PadHostTypeOK
      <4>2. QED  BY <1>2, <4>1
    <3>2. CASE s # m.slot
      <4>1. slots'[s] = slots[s] /\ count'[s] = count[s]
        BY <1>2, <2>1, <3>2 DEF GamepadInv, HostInv, PadHostTypeOK
      <4>2. QED  BY <2>2, <4>1 DEF GamepadInv, ShowsWhatWasSent
    <3>3. QED  BY <3>1, <3>2
  <2>3. QED  BY <2>2 DEF GamepadInv, ShowsWhatWasSent, Wire
<1>5. QED  BY <1>3, <1>4

\* A state is shown only if it is ahead of the last on the wire, and then it is
\* later, for it was not held back past half the circle.
LEMMA SubmitGoesForward ==
  ASSUME GamepadInv, NEW m \in network, InTime(m), Submit(m)
  PROVE  Later
<1>1. m \in PadMessage  BY DEF GamepadInv, LinkTypeOK
<1>2. m.kind = "state" /\ m.slot \in Slots /\ m.count \in Nat /\ m.sequence = Wire(m.count)
  BY <1>1, MessageFacts, CountsFacts DEF GamepadInv, ShowsWhatWasSent, Submit
<1>3. \A s \in Slots : count[s] # Unset => count[s] \in Nat
  BY CountsFacts DEF GamepadInv, HostInv, PadHostTypeOK
<1>4. CASE ~Accepts(m)
  BY <1>3, <1>4 DEF Submit, Refuse, padHostVars, Later
<1>5. CASE Accepts(m)
  <2>1. count' = [count EXCEPT ![m.slot] = m.count]  BY <1>5 DEF Submit
  <2>2. ASSUME NEW s \in Slots, count[s] # Unset, count'[s] # Unset
        PROVE  count'[s] >= count[s]
    <3>1. CASE s # m.slot
      BY <1>3, <2>1, <2>2, <3>1 DEF GamepadInv, HostInv, PadHostTypeOK
    <3>2. CASE s = m.slot
      <4>1. count'[s] = m.count  BY <2>1, <3>2 DEF GamepadInv, HostInv, PadHostTypeOK
      <4>2. /\ slots[s].sequence = Wire(count[s])
            /\ \E n \in network : /\ n.kind = "state" /\ n.count = count[s]
                                  /\ n.generation = slots[s].generation
        BY <2>2 DEF GamepadInv, ShowsWhatWasSent
      <4>3. 2 * (count[s] - m.count) =< Modulus
        BY <1>5, <3>2, <4>2 DEF Accepts, InTime
      <4>4. Wire(count[s]) # Unset
        BY <1>3, <2>2, WireFacts, GamepadAssumption DEF Unset
      <4>5. Newer(Wire(m.count), Wire(count[s]))
        BY <1>2, <1>5, <3>2, <4>2, <4>4 DEF Accepts
      <4>6. m.count > count[s]  BY <1>2, <1>3, <2>2, <4>3, <4>5, AheadIsLater
      <4>7. QED  BY <1>2, <1>3, <2>2, <4>1, <4>6
    <3>3. QED  BY <3>1, <3>2
  <2>3. QED  BY <2>2 DEF Later
<1>6. QED  BY <1>4, <1>5

LEMMA DeliverKeepsInv ==
  ASSUME GamepadInv, HostInv', NEW m \in network, DeliverPad(m)
  PROVE  LinkTypeOK' /\ mine' # 0 /\ ShowsWhatWasSent' /\ Later
<1>1. /\ UNCHANGED <<phase, mine, attachId, sent, network>>
      /\ m.kind = "state" => InTime(m)
      /\ Attach(m) \/ Submit(m) \/ Detach(m)
  BY DEF DeliverPad, ReceivePad, senderVars
<1>2. m \in PadMessage  BY DEF GamepadInv, LinkTypeOK
<1>3. acks' \subseteq ControlIds
  BY <1>2 DEF DeliverPad, GamepadInv, LinkTypeOK, PadMessage, Control, State
<1>4. LinkTypeOK' /\ mine' # 0
  BY <1>1, <1>3 DEF GamepadInv, HostInv, LinkTypeOK
<1>5. CASE Submit(m)
  <2>1. m.kind = "state"  BY <1>5 DEF Submit
  <2>2. ShowsWhatWasSent' /\ Later
    BY <1>1, <1>5, <2>1, SubmitShowsWhatWasSent, SubmitGoesForward
  <2>3. QED  BY <1>4, <2>2
<1>6. ASSUME NEW t \in Slots, UNCHANGED <<slots, count>> \/
               (/\ count' = [count EXCEPT ![t] = Unset]
                /\ \A s \in Slots \ {t} : slots'[s] = slots[s])
      PROVE  ShowsWhatWasSent' /\ Later
  <2>1. \A s \in Slots : count[s] # Unset => count[s] \in Nat
    BY CountsFacts DEF GamepadInv, HostInv, PadHostTypeOK
  <2>2. \A s \in Slots : count'[s] # Unset => count'[s] = count[s] /\ slots'[s] = slots[s]
    BY <1>6 DEF GamepadInv, HostInv, PadHostTypeOK
  <2>3. ShowsWhatWasSent'  BY <1>1, <2>2 DEF GamepadInv, ShowsWhatWasSent, Wire
  <2>4. Later  BY <2>1, <2>2 DEF Later
  <2>5. QED  BY <2>3, <2>4
<1>7. CASE Attach(m) \/ Detach(m)
  <2>1. m.slot \in Slots  BY <1>2, MessageFacts
  <2>2. \/ UNCHANGED <<slots, count>>
        \/ /\ count' = [count EXCEPT ![m.slot] = Unset]
           /\ \A s \in Slots \ {m.slot} : slots'[s] = slots[s]
    BY <1>7, <2>1 DEF Attach, Detach, Refuse, padHostVars, GamepadInv, HostInv, PadHostTypeOK
  <2>3. QED  BY <1>4, <1>6, <2>1, <2>2
<1>8. QED  BY <1>1, <1>5, <1>7

LEMMA GamepadStep ==
  ASSUME GamepadInv, [PadNext]_padVars
  PROVE  GamepadInv' /\ Later
<1>1. HostInv'  BY LinkStepOfHost
<1>2. \A s \in Slots : count[s] # Unset => count[s] \in Nat
  BY CountsFacts DEF GamepadInv, HostInv, PadHostTypeOK
<1>3. CASE SenderNext
  <2>1. UNCHANGED count  BY <1>3, SenderKeepsInv DEF padHostVars
  <2>2. Later  BY <1>2, <2>1 DEF Later
  <2>3. QED  BY <1>1, <1>3, <2>2, SenderKeepsInv DEF GamepadInv
<1>4. CASE HostTurn  BY <1>1, <1>4, TurnKeepsInv DEF GamepadInv
<1>5. ASSUME NEW m \in network, DeliverPad(m) PROVE GamepadInv' /\ Later
  BY <1>1, <1>5, DeliverKeepsInv DEF GamepadInv
<1>6. CASE UNCHANGED padVars
  <2>1. /\ UNCHANGED <<phase, mine, attachId, sent, network, acks>>
        /\ UNCHANGED <<slots, count>>
    BY <1>6 DEF padVars, padHostVars, senderVars, linkVars
  <2>2. LinkTypeOK' /\ mine' # 0  BY <1>1, <2>1 DEF GamepadInv, HostInv, LinkTypeOK
  <2>3. ShowsWhatWasSent'  BY <2>1 DEF GamepadInv, ShowsWhatWasSent, Wire
  <2>4. Later  BY <1>2, <2>1 DEF Later
  <2>5. QED  BY <1>1, <2>2, <2>3, <2>4 DEF GamepadInv
<1>7. QED  BY <1>3, <1>4, <1>5, <1>6 DEF PadNext

THEOREM GamepadLinkInvariance == PadSpec => []GamepadInv
<1>1. QED  BY GamepadStarts, GamepadStep, PTL DEF PadSpec

\* Sender, network and host stay well typed, through any number of processes.
THEOREM GamepadLinkTypeCorrect == PadSpec => []LinkTypeOK
<1>1. GamepadInv => LinkTypeOK  BY DEF GamepadInv
<1>2. QED  BY <1>1, GamepadLinkInvariance, PTL

\* Within one life of a virtual controller the states it shows go forward, for
\* a circle of sequence numbers of any size and any number of wraps.
THEOREM GamepadNewestWins == PadSpec => NewestStateWins
<1>1. GamepadInv /\ [PadNext]_padVars =>
        [\A s \in Slots : (count[s] # Unset /\ count'[s] # Unset) => count'[s] >= count[s]]_padVars
  BY GamepadStep DEF Later
<1>2. QED  BY <1>1, GamepadLinkInvariance, PTL DEF PadSpec, NewestStateWins

-----------------------------------------------------------------------------
(***************************************************************************)
(* The array of machine words of DedupBits is the window of Dedup.         *)
(*                                                                         *)
(* Two loops of the code are recursive functions in the model: the slide,  *)
(* which writes the words in place from the lowest up, and settling, which *)
(* slides by one slot for as long as the lowest is set.  What they compute *)
(* is shown by induction over the set of the naturals up to the bound      *)
(* (UpTo); that there is a function of that shape is shown (Repeated).     *)
(***************************************************************************)
Word == SUBSET (0..(WordBits - 1))
Maps == [0..(Words - 1) -> Word]

-----------------------------------------------------------------------------
(* Recursion and induction over the naturals. *)

\* A set of naturals that is not empty has a least element.
LEMMA LeastNatural ==
  ASSUME NEW T \in SUBSET Nat, T # {}
  PROVE  \E n \in T : \A m \in T : n <= m
<1>1. PICK n \in T : \A m \in T : ~(<<m, n>> \in OpToRel(<, Nat))
  BY NatLessThanWellFounded, WFMin
<1>2. ASSUME NEW m \in T PROVE n <= m
  <2>1. ~(m < n)  BY <1>1 DEF OpToRel
  <2>2. QED  BY <2>1
<1>3. QED  BY <1>2

\* Induction up to a bound, over the set of the naturals that have a property.
LEMMA UpTo ==
  ASSUME NEW N \in Nat, NEW T, 0 \in T, \A n \in T : n < N => n + 1 \in T
  PROVE  \A n \in 0..N : n \in T
<1> DEFINE bad == {n \in 0..N : n \notin T}
<1>1. SUFFICES ASSUME bad # {} PROVE FALSE  OBVIOUS
<1>2. PICK x \in bad : \A y \in bad : x <= y
  <2>1. bad \in SUBSET Nat  OBVIOUS
  <2> HIDE DEF bad
  <2>2. QED  BY <1>1, <2>1, LeastNatural
<1>3. x \in Nat /\ x # 0 /\ x <= N /\ x \notin T  BY <1>2
<1>4. x - 1 \in 0..N  BY <1>3
<1>5. x - 1 \in T
  <2>1. ~(x <= x - 1)  BY <1>3
  <2>2. QED  BY <1>2, <1>4, <2>1
<1>6. (x - 1) + 1 = x /\ x - 1 < N  BY <1>3
<1>7. QED  BY <1>3, <1>5, <1>6

\* What is done again and again to a value has a result after every time.
Repeats(g, N, V, start, step) ==
    g \in [0..N -> V] /\ g[0] = start /\ \A n \in 1..N : g[n] = step[<<n, g[n - 1]>>]

LEMMA Repeated ==
  ASSUME NEW N \in Nat, NEW V, NEW start \in V, NEW step \in [(1..N) \X V -> V]
  PROVE  \E g : Repeats(g, N, V, start, step)
<1> DEFINE Upto(g, k) == g[0] = start /\ \A n \in 1..k : g[n] = step[<<n, g[n - 1]>>]
           T == {k \in 0..N : \E g \in [0..N -> V] : Upto(g, k)}
<1>1. 0 \in T
  <2> DEFINE g == [n \in 0..N |-> start]
  <2>1. g \in [0..N -> V] /\ 0 \in 0..N  OBVIOUS
  <2>2. Upto(g, 0)  BY <2>1
  <2> HIDE DEF g, Upto
  <2>3. QED  BY <2>1, <2>2
<1>2. ASSUME NEW k \in T, k < N PROVE k + 1 \in T
  <2>1. PICK g \in [0..N -> V] : Upto(g, k)  OBVIOUS
  <2> DEFINE h == [n \in 0..N |-> IF n = k + 1 THEN step[<<k + 1, g[k]>>] ELSE g[n]]
  <2>2. k \in 0..N /\ k + 1 \in 1..N /\ k + 1 \in 0..N  BY <1>2
  <2>3. h \in [0..N -> V]
    <3>1. step[<<k + 1, g[k]>>] \in V  BY <2>2
    <3>2. QED  BY <3>1
  <2>4. Upto(h, k + 1)
    <3>1. h[0] = start  BY <2>1, <2>2
    <3>2. ASSUME NEW n \in 1..(k + 1) PROVE h[n] = step[<<n, h[n - 1]>>]
      <4>1. n - 1 \in 0..N /\ n \in 0..N /\ n - 1 # k + 1 /\ h[n - 1] = g[n - 1]  BY <2>2
      <4>2. CASE n = k + 1
        <5>1. n - 1 = k /\ h[n] = step[<<k + 1, g[k]>>]  BY <2>2, <4>1, <4>2
        <5>2. QED  BY <4>1, <4>2, <5>1
      <4>3. CASE n # k + 1
        <5>1. n \in 1..k /\ h[n] = g[n]  BY <2>2, <4>1, <4>3
        <5>2. QED  BY <2>1, <4>1, <5>1
      <4>4. QED  BY <4>2, <4>3
    <3>3. QED  BY <3>1, <3>2
  <2> HIDE DEF h, Upto
  <2>5. QED  BY <2>2, <2>3, <2>4
<1> HIDE DEF T
<1>3. \A n \in 0..N : n \in T  BY <1>1, <1>2, UpTo
<1>4. N \in T  BY <1>3
<1>5. QED  BY <1>4 DEF T, Repeats

-----------------------------------------------------------------------------
(* Places in the array. *)

\* A slot is a bit of a word, one way only; it is in the array when its word is.
LEMMA Places ==
  /\ BitmapBits \in Nat \ {0}
  /\ \A w \in Nat, b \in 0..(WordBits - 1) :
       /\ w * WordBits + b \in Nat
       /\ (w * WordBits + b) \div WordBits = w /\ (w * WordBits + b) % WordBits = b
       /\ w * WordBits + b < BitmapBits <=> w < Words
  /\ \A o \in Nat :
       /\ o \div WordBits \in Nat /\ o % WordBits \in 0..(WordBits - 1)
       /\ o = (o \div WordBits) * WordBits + (o % WordBits)
       /\ o < BitmapBits <=> o \div WordBits < Words
<1>1. WordBits \in Nat /\ WordBits >= 1 /\ Words \in Nat /\ Words >= 1  BY BitsAssumption
<1>2. BitmapBits = WordBits * Words  BY DEF BitmapBits
<1>3. BitmapBits \in Nat \ {0}  BY <1>1, <1>2
<1>4. ASSUME NEW w \in Nat, NEW b \in 0..(WordBits - 1)
      PROVE  /\ w * WordBits + b \in Nat
             /\ (w * WordBits + b) \div WordBits = w /\ (w * WordBits + b) % WordBits = b
             /\ w * WordBits + b < BitmapBits <=> w < Words
  <2>1. w * WordBits + b \in Nat  BY <1>1
  <2>2. (w * WordBits + b) \div WordBits = w /\ (w * WordBits + b) % WordBits = b  BY <1>1
  <2>3. w < Words => w * WordBits + b < BitmapBits
    <3>1. w < Words => (w + 1) * WordBits <= Words * WordBits  BY <1>1
    <3>2. (w + 1) * WordBits = w * WordBits + WordBits  BY <1>1
    <3>3. QED  BY <1>1, <1>2, <3>1, <3>2
  <2>4. ~(w < Words) => ~(w * WordBits + b < BitmapBits)
    <3>1. w >= Words => w * WordBits >= Words * WordBits  BY <1>1
    <3>2. QED  BY <1>1, <1>2, <3>1
  <2>5. QED  BY <2>1, <2>2, <2>3, <2>4
<1>5. ASSUME NEW o \in Nat
      PROVE  /\ o \div WordBits \in Nat /\ o % WordBits \in 0..(WordBits - 1)
             /\ o = (o \div WordBits) * WordBits + (o % WordBits)
             /\ o < BitmapBits <=> o \div WordBits < Words
  <2> DEFINE w == o \div WordBits
             b == o % WordBits
  <2>1. w \in Nat /\ b \in 0..(WordBits - 1)  BY <1>1
  <2>2. o = WordBits * w + b  BY <1>1
  <2> HIDE DEF w, b
  <2>3. o = w * WordBits + b  BY <1>1, <2>1, <2>2
  <2>4. w * WordBits + b < BitmapBits <=> w < Words  BY <1>4, <2>1
  <2>5. w \in Nat /\ b \in 0..(WordBits - 1) /\ o = w * WordBits + b /\ (o < BitmapBits <=> w < Words)
    BY <2>1, <2>3, <2>4
  <2>6. QED  BY <2>5 DEF w, b
<1>6. QED  BY <1>3, <1>4, <1>5

-----------------------------------------------------------------------------
(* The slide, in place. *)

\* What one word is written from: the words of the array as it then is.
Written(map, index, shift) ==
    LET source == index + shift \div WordBits
        bits   == shift % WordBits
    IN  (IF source < Words THEN ShiftRight(map[source], bits) ELSE {})
        \cup (IF bits > 0 /\ source + 1 < Words
              THEN ShiftLeft(map[source + 1], WordBits - bits) ELSE {})

Moves(map, shift, g) ==
    [n \in 0..Words |-> IF n = 0 THEN map
                        ELSE [g[n - 1] EXCEPT ![n - 1] = Written(g[n - 1], n - 1, shift)]]

\* The slide is the fixed point its recursive definition names.
LEMMA SlideIsRecursion ==
  ASSUME NEW map, NEW shift
  PROVE  Slide(map, shift) = IF shift >= BitmapBits THEN Zeros
                             ELSE (CHOOSE g : g = Moves(map, shift, g))[Words]
BY DEF Slide, Moves, Written

\* What is written into a word is a word.
LEMMA WrittenIsWord ==
  ASSUME NEW map \in Maps, NEW index \in Nat, NEW shift \in Nat
  PROVE  Written(map, index, shift) \in Word
<1>1. WordBits \in Nat \ {0} /\ Words \in Nat \ {0}  BY BitsAssumption
<1>2. shift \div WordBits \in Nat /\ shift % WordBits \in 0..(WordBits - 1)  BY Places
<1> DEFINE source == index + shift \div WordBits
           bits == shift % WordBits
<1>3. source \in Nat /\ bits \in Nat /\ bits < WordBits  BY <1>1, <1>2
<1> HIDE DEF source, bits
<1>4. \A i \in Nat : i < Words => map[i] \subseteq 0..(WordBits - 1)  BY <1>1 DEF Maps, Word
<1>5. source < Words => ShiftRight(map[source], bits) \subseteq 0..(WordBits - 1)
  <2>1. ASSUME source < Words, NEW b \in ShiftRight(map[source], bits) PROVE b \in 0..(WordBits - 1)
    <3>1. PICK c \in map[source] : c >= bits /\ b = c - bits  BY DEF ShiftRight
    <3>2. c \in 0..(WordBits - 1)  BY <1>3, <1>4, <2>1
    <3>3. QED  BY <1>1, <1>3, <3>1, <3>2
  <2>2. QED  BY <2>1
<1>6. source + 1 < Words => ShiftLeft(map[source + 1], WordBits - bits) \subseteq 0..(WordBits - 1)
  <2>1. ASSUME source + 1 < Words, NEW b \in ShiftLeft(map[source + 1], WordBits - bits)
        PROVE b \in 0..(WordBits - 1)
    <3>1. PICK c \in map[source + 1] : c + (WordBits - bits) < WordBits /\ b = c + (WordBits - bits)
      BY DEF ShiftLeft
    <3>2. source + 1 \in Nat  BY <1>3
    <3>3. c \in 0..(WordBits - 1)  BY <1>4, <2>1, <3>2
    <3>4. QED  BY <1>1, <1>3, <3>1, <3>3
  <2>2. QED  BY <2>1
<1>7. Written(map, index, shift) =
        (IF source < Words THEN ShiftRight(map[source], bits) ELSE {})
        \cup (IF bits > 0 /\ source + 1 < Words THEN ShiftLeft(map[source + 1], WordBits - bits) ELSE {})
  BY DEF Written, source, bits
<1>8. QED  BY <1>5, <1>6, <1>7 DEF Word

\* Every word is written from the array as it was before the slide, although it is
\* read from the array under way: what lies ahead is not overwritten yet.
LEMMA SlideWords ==
  ASSUME NEW map \in Maps, NEW shift \in Nat, shift < BitmapBits
  PROVE  /\ Slide(map, shift) \in Maps
         /\ \A index \in 0..(Words - 1) : Slide(map, shift)[index] = Written(map, index, shift)
<1>1. WordBits \in Nat \ {0} /\ Words \in Nat \ {0} /\ BitmapBits \in Nat  BY Places, BitsAssumption
<1> DEFINE step == [p \in (1..Words) \X Maps |->
                      [p[2] EXCEPT ![p[1] - 1] = Written(p[2], p[1] - 1, shift)]]
<1>2. step \in [(1..Words) \X Maps -> Maps]
  <2>1. ASSUME NEW n \in 1..Words, NEW m \in Maps
        PROVE  [m EXCEPT ![n - 1] = Written(m, n - 1, shift)] \in Maps
    <3>1. n - 1 \in Nat /\ n - 1 \in 0..(Words - 1)  BY <1>1
    <3>2. Written(m, n - 1, shift) \in Word  BY <3>1, WrittenIsWord
    <3> HIDE DEF step
    <3>3. QED  BY <3>1, <3>2 DEF Maps
  <2>2. ASSUME NEW p \in (1..Words) \X Maps PROVE step[p] \in Maps
    <3>1. p[1] \in 1..Words /\ p[2] \in Maps  OBVIOUS
    <3>2. QED  BY <2>1, <3>1
  <2>3. QED  BY <2>2
<1>b. \E h : Repeats(h, Words, Maps, map, step)
  <2> HIDE DEF step
  <2>1. Words \in Nat  BY <1>1
  <2>2. QED  BY <1>2, <2>1, Repeated
<1>3. PICK h \in [0..Words -> Maps] : h[0] = map /\ \A n \in 1..Words : h[n] = step[<<n, h[n - 1]>>]
  <2> HIDE DEF step
  <2>1. QED  BY <1>b DEF Repeats
<1>4. h = Moves(map, shift, h)
  <2>1. ASSUME NEW n \in 1..Words
        PROVE  h[n] = [h[n - 1] EXCEPT ![n - 1] = Written(h[n - 1], n - 1, shift)]
    <3>1. n - 1 \in 0..Words  BY <1>1
    <3>2. h[n - 1] \in Maps  BY <3>1
    <3>3. h[n] = step[<<n, h[n - 1]>>]  BY <1>3
    <3>4. <<n, h[n - 1]>> \in (1..Words) \X Maps  BY <3>2
    <3>5. QED  BY <3>3, <3>4
  <2> HIDE DEF step
  <2>2. \A n \in 0..Words : n # 0 => n \in 1..Words  BY <1>1
  <2>3. \A n \in 0..Words : h[n] = Moves(map, shift, h)[n]  BY <1>3, <2>1, <2>2 DEF Moves
  <2>4. DOMAIN Moves(map, shift, h) = 0..Words  BY DEF Moves
  <2>5. h = [n \in 0..Words |-> h[n]]  OBVIOUS
  <2>6. Moves(map, shift, h) = [n \in 0..Words |-> Moves(map, shift, h)[n]]  BY DEF Moves
  <2>7. QED  BY <2>3, <2>5, <2>6
<1> DEFINE g == CHOOSE x : x = Moves(map, shift, x)
<1>5. g = Moves(map, shift, g)  BY <1>4
<1>6. Slide(map, shift) = g[Words]
  <2>1. ~(shift >= BitmapBits)  BY <1>1
  <2>2. QED  BY <2>1, SlideIsRecursion
<1> HIDE DEF g, step
<1>7. /\ g[0] = map
      /\ \A n \in 1..Words : g[n] = [g[n - 1] EXCEPT ![n - 1] = Written(g[n - 1], n - 1, shift)]
  <2>1. \A n \in 0..Words : g[n] = IF n = 0 THEN map
                                   ELSE [g[n - 1] EXCEPT ![n - 1] = Written(g[n - 1], n - 1, shift)]
    BY <1>5 DEF Moves
  <2>2. 0 \in 0..Words /\ \A n \in 1..Words : n \in 0..Words /\ n # 0  BY <1>1
  <2>3. QED  BY <2>1, <2>2
<1> DEFINE Done(n) == /\ g[n] \in Maps
                      /\ \A i \in 0..(Words - 1) :
                           g[n][i] = IF i < n THEN Written(map, i, shift) ELSE map[i]
           T == {n \in 0..Words : Done(n)}
<1>8. 0 \in T
  <2>1. \A i \in 0..(Words - 1) : ~(i < 0)  OBVIOUS
  <2>2. Done(0)  BY <1>7, <2>1
  <2> HIDE DEF Done
  <2>3. 0 \in 0..Words  BY <1>1
  <2>4. QED  BY <2>2, <2>3
<1>9. ASSUME NEW n \in T, n < Words PROVE n + 1 \in T
  <2>1. n \in Nat /\ n \in 0..(Words - 1) /\ n + 1 \in 1..Words /\ (n + 1) - 1 = n /\ n + 1 \in 0..Words
    BY <1>1, <1>9
  <2>2. Done(n)  OBVIOUS
  <2>3. g[n + 1] = [g[n] EXCEPT ![n] = Written(g[n], n, shift)]  BY <1>7, <2>1
  <2>4. Written(g[n], n, shift) \in Word  BY <2>1, <2>2, WrittenIsWord
  <2>5. g[n + 1] \in Maps  BY <2>1, <2>2, <2>3, <2>4 DEF Maps
  <2>6. Written(g[n], n, shift) = Written(map, n, shift)
    <3> DEFINE source == n + shift \div WordBits
    <3>1. source \in Nat /\ source >= n
      <4>1. shift \div WordBits \in Nat  BY Places
      <4>2. QED  BY <2>1, <4>1
    <3> HIDE DEF source
    <3>2. source < Words => g[n][source] = map[source]
      <4>1. source < Words => source \in 0..(Words - 1) /\ ~(source < n)  BY <1>1, <2>1, <3>1
      <4>2. QED  BY <2>2, <4>1
    <3>3. source + 1 < Words => g[n][source + 1] = map[source + 1]
      <4>1. source + 1 < Words => source + 1 \in 0..(Words - 1) /\ ~(source + 1 < n)
        BY <1>1, <2>1, <3>1
      <4>2. QED  BY <2>2, <4>1
    <3>4. QED  BY <3>2, <3>3 DEF Written, source
  <2>7. ASSUME NEW i \in 0..(Words - 1)
        PROVE  g[n + 1][i] = IF i < n + 1 THEN Written(map, i, shift) ELSE map[i]
    <3>1. g[n + 1][i] = IF i = n THEN Written(map, n, shift) ELSE g[n][i]
      BY <2>1, <2>2, <2>3, <2>6 DEF Maps
    <3>2. g[n][i] = IF i < n THEN Written(map, i, shift) ELSE map[i]  BY <2>2
    <3>3. (i < n + 1) <=> (i < n \/ i = n)  BY <2>1
    <3>4. QED  BY <3>1, <3>2, <3>3
  <2>8. Done(n + 1)  BY <2>5, <2>7
  <2> HIDE DEF Done
  <2>9. QED  BY <2>1, <2>8
<1>10. \A n \in 0..Words : n \in T
  <2> HIDE DEF T
  <2>1. Words \in Nat  BY <1>1
  <2>2. QED  BY <1>8, <1>9, <2>1, UpTo
<1>11. Done(Words)
  <2>1. Words \in 0..Words  BY <1>1
  <2> HIDE DEF Done
  <2>2. QED  BY <1>10, <2>1
<1>12. \A i \in 0..(Words - 1) : i < Words  BY <1>1
<1>13. QED  BY <1>6, <1>11, <1>12

\* Bit by bit: a slide moves every slot down, across the words.
LEMMA SlideBits ==
  ASSUME NEW map \in Maps, NEW shift \in Nat
  PROVE  /\ Slide(map, shift) \in Maps
         /\ \A o \in 0..(BitmapBits - 1) :
              Get(Slide(map, shift), o) <=> o + shift < BitmapBits /\ Get(map, o + shift)
<1>1. WordBits \in Nat \ {0} /\ Words \in Nat \ {0} /\ BitmapBits \in Nat  BY Places, BitsAssumption
<1>2. CASE shift >= BitmapBits
  <2>1. Slide(map, shift) = Zeros  BY <1>2, SlideIsRecursion
  <2>2. Zeros \in Maps /\ \A w \in 0..(Words - 1) : Zeros[w] = {}  BY DEF Zeros, Maps, Word
  <2>3. ASSUME NEW o \in 0..(BitmapBits - 1)
        PROVE  ~Get(Zeros, o) /\ ~(o + shift < BitmapBits)
    <3>1. o \in Nat /\ o < BitmapBits  BY <1>1
    <3>2. o \div WordBits \in Nat /\ o \div WordBits < Words  BY <3>1, Places
    <3>3. o \div WordBits \in 0..(Words - 1)  BY <1>1, <3>2
    <3>4. QED  BY <1>1, <1>2, <2>2, <3>1, <3>3 DEF Get
  <2>4. QED  BY <2>1, <2>2, <2>3
<1>3. CASE shift < BitmapBits
  <2>1. Slide(map, shift) \in Maps
        /\ \A index \in 0..(Words - 1) : Slide(map, shift)[index] = Written(map, index, shift)
    BY <1>3, SlideWords
  <2>2. ASSUME NEW o \in 0..(BitmapBits - 1)
        PROVE  Get(Slide(map, shift), o) <=> o + shift < BitmapBits /\ Get(map, o + shift)
    <3> DEFINE w == o \div WordBits
               b == o % WordBits
               sw == shift \div WordBits
               sb == shift % WordBits
               source == w + sw
    <3>1. o \in Nat /\ o < BitmapBits  BY <1>1
    <3>2. w \in Nat /\ b \in 0..(WordBits - 1) /\ o = w * WordBits + b /\ w < Words
      BY <3>1, Places
    <3>3. sw \in Nat /\ sb \in 0..(WordBits - 1) /\ shift = sw * WordBits + sb  BY Places
    <3>4. Get(Slide(map, shift), o) <=> b \in Written(map, w, shift)
      <4>1. w \in 0..(Words - 1)  BY <1>1, <3>2
      <4>2. QED  BY <2>1, <4>1 DEF Get
    <3>5. Written(map, w, shift) =
            (IF source < Words THEN ShiftRight(map[source], sb) ELSE {})
            \cup (IF sb > 0 /\ source + 1 < Words THEN ShiftLeft(map[source + 1], WordBits - sb) ELSE {})
      BY DEF Written
    <3>6. Get(map, o + shift) <=> (o + shift) % WordBits \in map[(o + shift) \div WordBits]  BY DEF Get
    <3> HIDE DEF w, b, sw, sb
    <3>7. source \in Nat  BY <3>2, <3>3
    <3>8. o + shift = source * WordBits + (b + sb)
      <4>1. w * WordBits + sw * WordBits = (w + sw) * WordBits  BY <1>1, <3>2, <3>3
      <4>2. w * WordBits \in Nat /\ sw * WordBits \in Nat  BY <1>1, <3>2, <3>3
      <4>3. QED  BY <1>1, <3>2, <3>3, <4>1, <4>2
    <3> HIDE DEF source
    <3>9. \A i \in Nat : i < Words => map[i] \subseteq 0..(WordBits - 1)  BY <1>1 DEF Maps, Word
    <3>10. source < Words => (b \in ShiftRight(map[source], sb) <=> b + sb \in map[source])
      <4>1. ASSUME source < Words, b \in ShiftRight(map[source], sb) PROVE b + sb \in map[source]
        <5>1. PICK c \in map[source] : c >= sb /\ b = c - sb  BY <4>1 DEF ShiftRight
        <5>2. c \in 0..(WordBits - 1)  BY <3>7, <3>9, <4>1
        <5>3. b + sb = c  BY <1>1, <3>3, <5>1, <5>2
        <5>4. QED  BY <5>3
      <4>2. ASSUME source < Words, b + sb \in map[source] PROVE b \in ShiftRight(map[source], sb)
        <5>1. b + sb >= sb /\ (b + sb) - sb = b  BY <1>1, <3>2, <3>3
        <5>2. QED  BY <4>2, <5>1 DEF ShiftRight
      <4>3. QED  BY <4>1, <4>2
    <3>11. source + 1 < Words => (b \in ShiftLeft(map[source + 1], WordBits - sb)
                                  <=> (b + sb) - WordBits \in map[source + 1])
      <4>1. ASSUME source + 1 < Words, b \in ShiftLeft(map[source + 1], WordBits - sb)
            PROVE  (b + sb) - WordBits \in map[source + 1]
        <5>1. PICK c \in map[source + 1] : c + (WordBits - sb) < WordBits /\ b = c + (WordBits - sb)
          BY <4>1 DEF ShiftLeft
        <5>2. source + 1 \in Nat  BY <3>7
        <5>3. c \in 0..(WordBits - 1)  BY <3>9, <4>1, <5>2
        <5>4. (b + sb) - WordBits = c  BY <1>1, <3>3, <5>1, <5>3
        <5>5. QED  BY <5>4
      <4>2. ASSUME source + 1 < Words, (b + sb) - WordBits \in map[source + 1]
            PROVE  b \in ShiftLeft(map[source + 1], WordBits - sb)
        <5> DEFINE c == (b + sb) - WordBits
        <5>1. c + (WordBits - sb) = b /\ b < WordBits  BY <1>1, <3>2, <3>3
        <5>2. c \in map[source + 1]  BY <4>2
        <5> HIDE DEF c
        <5>3. QED  BY <5>1, <5>2 DEF ShiftLeft
      <4>3. QED  BY <4>1, <4>2
    <3>12. CASE b + sb < WordBits
      <4>1. b + sb \in 0..(WordBits - 1)  BY <1>1, <3>2, <3>3, <3>12
      <4>2. /\ (o + shift) \div WordBits = source /\ (o + shift) % WordBits = b + sb
            /\ o + shift < BitmapBits <=> source < Words
        BY <3>7, <3>8, <4>1, Places
      <4>3. source + 1 < Words => (b + sb) - WordBits \notin map[source + 1]
        <5>1. source + 1 \in Nat /\ ~((b + sb) - WordBits \in 0..(WordBits - 1))
          BY <1>1, <3>2, <3>3, <3>7, <3>12
        <5>2. QED  BY <3>9, <5>1
      <4>4. QED  BY <3>4, <3>5, <3>6, <3>10, <3>11, <4>2, <4>3
    <3>13. CASE ~(b + sb < WordBits)
      <4>1. (b + sb) - WordBits \in 0..(WordBits - 1) /\ source + 1 \in Nat /\ sb > 0
        BY <1>1, <3>2, <3>3, <3>7, <3>13
      <4>2. o + shift = (source + 1) * WordBits + ((b + sb) - WordBits)
        <5>1. (source + 1) * WordBits = source * WordBits + WordBits  BY <1>1, <3>7
        <5>2. source * WordBits \in Nat  BY <1>1, <3>7
        <5>3. QED  BY <1>1, <3>2, <3>3, <3>8, <5>1, <5>2
      <4>3. /\ (o + shift) \div WordBits = source + 1 /\ (o + shift) % WordBits = (b + sb) - WordBits
            /\ o + shift < BitmapBits <=> source + 1 < Words
        <5> DEFINE next == source + 1
                   rest == (b + sb) - WordBits
        <5>1. next \in Nat /\ rest \in 0..(WordBits - 1) /\ o + shift = next * WordBits + rest
          BY <4>1, <4>2
        <5> HIDE DEF next, rest
        <5>2. /\ (o + shift) \div WordBits = next /\ (o + shift) % WordBits = rest
              /\ o + shift < BitmapBits <=> next < Words
          BY <5>1, Places
        <5>3. QED  BY <5>2 DEF next, rest
      <4>4. source < Words => b + sb \notin map[source]
        <5>1. ~(b + sb \in 0..(WordBits - 1))  BY <1>1, <3>2, <3>3, <3>13
        <5>2. QED  BY <3>7, <3>9, <5>1
      <4>5. QED  BY <3>4, <3>5, <3>6, <3>10, <3>11, <4>1, <4>3, <4>4
    <3>14. QED  BY <3>12, <3>13
  <2>3. QED  BY <2>1, <2>2
<1>4. QED  BY <1>1, <1>2, <1>3

\* Setting one bit sets that slot only.
LEMMA SetBits ==
  ASSUME NEW map \in Maps, NEW offset \in 0..(BitmapBits - 1)
  PROVE  /\ Set(map, offset) \in Maps
         /\ \A o \in 0..(BitmapBits - 1) : Get(Set(map, offset), o) <=> Get(map, o) \/ o = offset
<1>1. WordBits \in Nat \ {0} /\ Words \in Nat \ {0} /\ BitmapBits \in Nat  BY Places, BitsAssumption
<1> DEFINE v == offset \div WordBits
           c == offset % WordBits
<1>2. v \in 0..(Words - 1) /\ c \in 0..(WordBits - 1) /\ offset = v * WordBits + c
  <2>1. offset \in Nat /\ offset < BitmapBits  BY <1>1
  <2>2. v \in Nat /\ c \in 0..(WordBits - 1) /\ offset = v * WordBits + c /\ v < Words  BY <2>1, Places
  <2>3. QED  BY <1>1, <2>2
<1>3. Set(map, offset) = [map EXCEPT ![v] = @ \cup {c}]  BY DEF Set
<1> HIDE DEF v, c
<1>4. Set(map, offset) \in Maps  BY <1>2, <1>3 DEF Maps, Word
<1>5. ASSUME NEW o \in 0..(BitmapBits - 1)
      PROVE  Get(Set(map, offset), o) <=> Get(map, o) \/ o = offset
  <2> DEFINE w == o \div WordBits
             b == o % WordBits
  <2>1. o \in Nat /\ o < BitmapBits  BY <1>1
  <2>2. w \in 0..(Words - 1) /\ b \in 0..(WordBits - 1) /\ o = w * WordBits + b
    <3>1. w \in Nat /\ b \in 0..(WordBits - 1) /\ o = w * WordBits + b /\ w < Words  BY <2>1, Places
    <3>2. QED  BY <1>1, <3>1
  <2>3. (Get(map, o) <=> b \in map[w]) /\ (Get(Set(map, offset), o) <=> b \in Set(map, offset)[w])
    BY DEF Get
  <2>4. o = offset <=> w = v /\ b = c
    <3>1. o = offset => w = v /\ b = c  BY DEF v, c
    <3> HIDE DEF w, b
    <3>2. w = v /\ b = c => o = offset  BY <1>2, <2>2
    <3>3. QED  BY <3>1, <3>2
  <2> HIDE DEF w, b
  <2>5. b \in Set(map, offset)[w] <=> b \in map[w] \/ (w = v /\ b = c)  BY <1>2, <1>3, <2>2 DEF Maps
  <2>6. QED  BY <2>3, <2>4, <2>5
<1>6. QED  BY <1>4, <1>5

-----------------------------------------------------------------------------
(* The ids an array stands for, and what settling does to them. *)

Ids(map, low) == {low + o : o \in {p \in 0..(BitmapBits - 1) : Get(map, p)}}

\* An id is held when its slot is in the array and set.
LEMMA IdsMember ==
  ASSUME NEW map, NEW low \in Int, NEW i \in Int
  PROVE  i \in Ids(map, low) <=> i - low \in 0..(BitmapBits - 1) /\ Get(map, i - low)
<1>1. BitmapBits \in Nat  BY Places
<1>2. ASSUME i \in Ids(map, low) PROVE i - low \in 0..(BitmapBits - 1) /\ Get(map, i - low)
  <2>1. PICK o \in 0..(BitmapBits - 1) : Get(map, o) /\ i = low + o  BY <1>2 DEF Ids
  <2>2. i - low = o  BY <1>1, <2>1
  <2>3. QED  BY <2>1, <2>2
<1>3. ASSUME i - low \in 0..(BitmapBits - 1), Get(map, i - low) PROVE i \in Ids(map, low)
  <2>1. low + (i - low) = i  OBVIOUS
  <2>2. QED  BY <1>3, <2>1 DEF Ids
<1>4. QED  BY <1>2, <1>3

\* The ids held lie within one window of the base.
LEMMA IdsTyped ==
  ASSUME NEW map, NEW low \in Int
  PROVE  \A i \in Ids(map, low) : i \in Int /\ i >= low /\ i < low + BitmapBits
<1>1. BitmapBits \in Nat  BY Places
<1>2. ASSUME NEW i \in Ids(map, low) PROVE i \in Int /\ i >= low /\ i < low + BitmapBits
  <2>1. PICK o \in 0..(BitmapBits - 1) : i = low + o  BY DEF Ids
  <2>2. QED  BY <1>1, <2>1
<1>3. QED  BY <1>2

\* Sliding, the base following, drops the ids below the new base and no other.
LEMMA IdsSlid ==
  ASSUME NEW map \in Maps, NEW low \in Int, NEW shift \in Nat
  PROVE  Ids(Slide(map, shift), low + shift) = {i \in Ids(map, low) : i >= low + shift}
<1>1. BitmapBits \in Nat  BY Places
<1>2. ASSUME NEW i \in Int
      PROVE  i \in Ids(Slide(map, shift), low + shift) <=> i \in Ids(map, low) /\ i >= low + shift
  <2> DEFINE from == low + shift
             o == i - from
  <2>1. from \in Int /\ o \in Int /\ o + shift = i - low  OBVIOUS
  <2>2. i \in Ids(Slide(map, shift), from) <=> o \in 0..(BitmapBits - 1) /\ Get(Slide(map, shift), o)
    BY <2>1, IdsMember
  <2>3. i \in Ids(map, low) <=> i - low \in 0..(BitmapBits - 1) /\ Get(map, i - low)  BY IdsMember
  <2>4. o \in 0..(BitmapBits - 1) =>
          (Get(Slide(map, shift), o) <=> o + shift < BitmapBits /\ Get(map, o + shift))
    BY SlideBits
  <2>5. i >= from <=> o >= 0  OBVIOUS
  <2> HIDE DEF o
  <2>6. o >= 0 => (i - low \in 0..(BitmapBits - 1) <=> o + shift < BitmapBits /\ o \in 0..(BitmapBits - 1))
    BY <1>1, <2>1
  <2>7. o \in 0..(BitmapBits - 1) => o >= 0  BY <1>1
  <2>8. QED  BY <2>1, <2>2, <2>3, <2>4, <2>5, <2>6, <2>7
<1>3. \A i \in Ids(Slide(map, shift), low + shift) : i \in Int
  <2>1. low + shift \in Int  OBVIOUS
  <2>2. QED  BY <2>1, IdsTyped
<1>4. \A i \in Ids(map, low) : i \in Int  BY IdsTyped
<1>5. QED  BY <1>2, <1>3, <1>4

LEMMA IdsSlidByOne ==
  ASSUME NEW map \in Maps, NEW low \in Int
  PROVE  Ids(Slide(map, 1), low + 1) = {i \in Ids(map, low) : i >= low + 1}
<1>1. 1 \in Nat  OBVIOUS
<1>2. QED  BY <1>1, IdsSlid

Turns(map, low, g) ==
    [n \in 0..BitmapBits |->
       IF n = 0 THEN [map |-> map, base |-> low]
       ELSE IF Get(g[n - 1].map, 0)
         THEN [map |-> Slide(g[n - 1].map, 1), base |-> g[n - 1].base + 1]
         ELSE g[n - 1]]

\* Settling is the fixed point its recursive definition names.
LEMMA SettledIsRecursion ==
  ASSUME NEW map, NEW low
  PROVE  Settled(map, low) = (CHOOSE g : g = Turns(map, low, g))[BitmapBits]
BY DEF Settled, Turns

\* Settling goes to the lowest id that is not held, and keeps those above it.
LEMMA SettledFacts ==
  ASSUME NEW map \in Maps, NEW low \in Nat
  PROVE  LET ids == Ids(map, low)
             s == Settled(map, low)
         IN  /\ s.map \in Maps /\ s.base \in low..(low + BitmapBits)
             /\ s.base \notin ids /\ \A i \in low..(s.base - 1) : i \in ids
             /\ Ids(s.map, s.base) = {i \in ids : i > s.base}
<1> DEFINE ids == Ids(map, low)
           V == [map : Maps, base : Nat]
           Turn(v) == IF Get(v.map, 0) THEN [map |-> Slide(v.map, 1), base |-> v.base + 1] ELSE v
           step == [p \in (1..BitmapBits) \X V |-> Turn(p[2])]
           start == [map |-> map, base |-> low]
<1>1. BitmapBits \in Nat \ {0}  BY Places
<1>2. \A v \in V : Turn(v) \in V
  <2>1. ASSUME NEW v \in V PROVE Turn(v) \in V
    <3>1. Slide(v.map, 1) \in Maps  BY SlideBits
    <3>2. QED  BY <3>1
  <2>2. QED  BY <2>1
<1>3. step \in [(1..BitmapBits) \X V -> V] /\ start \in V
  <2> HIDE DEF V, Turn
  <2>1. step \in [(1..BitmapBits) \X V -> V]  BY <1>2
  <2>2. start \in V  BY DEF V
  <2>3. QED  BY <2>1, <2>2
<1>4. PICK h : Repeats(h, BitmapBits, V, start, step)
  <2> HIDE DEF V, step, start
  <2>1. BitmapBits \in Nat  BY <1>1
  <2>2. QED  BY <1>3, <2>1, Repeated
<1>5. h = Turns(map, low, h)
  <2>1. /\ h \in [0..BitmapBits -> V] /\ h[0] = start
        /\ \A n \in 1..BitmapBits : h[n] = step[<<n, h[n - 1]>>]
    BY <1>4 DEF Repeats
  <2>2. ASSUME NEW n \in 1..BitmapBits PROVE h[n] = Turn(h[n - 1])
    <3> HIDE DEF V, Turn
    <3>1. n - 1 \in 0..BitmapBits  BY <1>1
    <3>2. <<n, h[n - 1]>> \in (1..BitmapBits) \X V  BY <2>1, <3>1
    <3>3. QED  BY <2>1, <3>2
  <2> HIDE DEF step, V
  <2>3. \A n \in 0..BitmapBits : n # 0 => n \in 1..BitmapBits  BY <1>1
  <2>4. \A n \in 0..BitmapBits : h[n] = Turns(map, low, h)[n]  BY <2>1, <2>2, <2>3 DEF Turns
  <2>5. h = [n \in 0..BitmapBits |-> h[n]]  BY <2>1
  <2>6. Turns(map, low, h) = [n \in 0..BitmapBits |-> Turns(map, low, h)[n]]  BY DEF Turns
  <2>7. QED  BY <2>4, <2>5, <2>6
<1> DEFINE g == CHOOSE x : x = Turns(map, low, x)
<1>6. g = Turns(map, low, g)  BY <1>5
<1>7. Settled(map, low) = g[BitmapBits]  BY SettledIsRecursion
<1> HIDE DEF g
<1>8. g[0] = start /\ \A n \in 1..BitmapBits : g[n] = Turn(g[n - 1])
  <2>1. \A n \in 0..BitmapBits : g[n] = IF n = 0 THEN start ELSE Turn(g[n - 1])
    BY <1>6 DEF Turns
  <2>2. 0 \in 0..BitmapBits /\ \A n \in 1..BitmapBits : n \in 0..BitmapBits /\ n # 0  BY <1>1
  <2> HIDE DEF Turn, start
  <2>3. QED  BY <2>1, <2>2
<1> DEFINE Done(n) ==
             /\ g[n] \in V
             /\ g[n].base >= low /\ g[n].base <= low + n
             /\ \A i \in low..(g[n].base - 1) : i \in ids
             /\ Ids(g[n].map, g[n].base) = {i \in ids : i >= g[n].base}
             /\ g[n].base = low + n \/ g[n].base \notin ids
           T == {n \in 0..BitmapBits : Done(n)}
<1> HIDE DEF step
<1>9. \A i \in ids : i \in Int /\ i >= low /\ i < low + BitmapBits  BY IdsTyped
<1>10. 0 \in T
  <2>1. g[0].map = map /\ g[0].base = low /\ g[0] \in V  BY <1>3, <1>8
  <2> HIDE DEF V, ids
  <2>2. low..(low - 1) = {} /\ low >= low /\ low <= low + 0 /\ low + 0 = low  OBVIOUS
  <2>3. {i \in ids : i >= low} = ids  BY <1>9
  <2>4. Ids(g[0].map, g[0].base) = ids  BY <2>1 DEF ids
  <2>5. Done(0)  BY <2>1, <2>2, <2>3, <2>4
  <2> HIDE DEF Done
  <2>6. 0 \in 0..BitmapBits  BY <1>1
  <2>7. QED  BY <2>5, <2>6
<1>11. ASSUME NEW n \in T, n < BitmapBits PROVE n + 1 \in T
  <2>1. n \in Nat /\ n + 1 \in 1..BitmapBits /\ (n + 1) - 1 = n /\ n + 1 \in 0..BitmapBits
    BY <1>1, <1>11
  <2>2. Done(n)  OBVIOUS
  <2>3. g[n + 1] = Turn(g[n])  BY <1>8, <2>1
  <2> DEFINE m == g[n].map
             b == g[n].base
  <2>4. m \in Maps /\ b \in Nat /\ b >= low /\ b <= low + n  BY <2>2
  <2>5. g[n + 1] \in V  BY <1>2, <2>2, <2>3
  <2>6. b \in Ids(m, b) <=> Get(m, 0)
    <3> HIDE DEF m, b
    <3>1. b \in Ids(m, b) <=> b - b \in 0..(BitmapBits - 1) /\ Get(m, b - b)  BY <2>4, IdsMember
    <3>2. b - b = 0 /\ 0 \in 0..(BitmapBits - 1)  BY <1>1, <2>4
    <3>3. QED  BY <3>1, <3>2
  <2>7. b \in Ids(m, b) <=> b \in ids
    <3>1. Ids(m, b) = {i \in ids : i >= b}  BY <2>2
    <3>2. b >= b  BY <2>4
    <3> HIDE DEF ids, m, b
    <3>3. QED  BY <3>1, <3>2
  <2>8. CASE Get(m, 0)
    <3>1. b \in ids /\ b = low + n  BY <2>2, <2>6, <2>7, <2>8
    <3>2. g[n + 1] = [map |-> Slide(m, 1), base |-> b + 1]  BY <2>3, <2>8
    <3>3. Ids(Slide(m, 1), b + 1) = {i \in Ids(m, b) : i >= b + 1}
      <4> HIDE DEF m, b
      <4>1. b \in Int  BY <2>4
      <4>2. QED  BY <2>4, <4>1, IdsSlidByOne
    <3>4. Ids(m, b) = {i \in ids : i >= b} /\ \A i \in low..(b - 1) : i \in ids  BY <2>2
    <3> HIDE DEF m, b, ids
    <3>5. Ids(Slide(m, 1), b + 1) = {i \in ids : i >= b + 1}  BY <1>9, <2>4, <3>3, <3>4
    <3>6. \A i \in low..((b + 1) - 1) : i \in ids
      <4>1. \A i \in low..((b + 1) - 1) : i = b \/ i \in low..(b - 1)  BY <2>4
      <4>2. QED  BY <3>1, <3>4, <4>1
    <3>7. b + 1 >= low /\ b + 1 <= low + (n + 1) /\ b + 1 = low + (n + 1)  BY <2>1, <2>4, <3>1
    <3>8. g[n + 1].map = Slide(m, 1) /\ g[n + 1].base = b + 1  BY <3>2
    <3> HIDE DEF V
    <3>9. Done(n + 1)  BY <2>5, <3>5, <3>6, <3>7, <3>8
    <3> HIDE DEF Done
    <3>10. QED  BY <2>1, <3>9
  <2>9. CASE ~Get(m, 0)
    <3>1. b \notin ids  BY <2>6, <2>7, <2>9
    <3>2. g[n + 1] = g[n]  BY <2>3, <2>9
    <3>3. b <= low + (n + 1)  BY <2>1, <2>4
    <3> HIDE DEF V, ids
    <3>4. Done(n + 1)  BY <2>2, <3>1, <3>2, <3>3
    <3> HIDE DEF Done
    <3>5. QED  BY <2>1, <3>4
  <2>10. QED  BY <2>8, <2>9
<1>12. Done(BitmapBits)
  <2>1. BitmapBits \in Nat /\ BitmapBits \in 0..BitmapBits  BY <1>1
  <2> HIDE DEF T
  <2>2. \A n \in 0..BitmapBits : n \in T  BY <1>10, <1>11, <2>1, UpTo
  <2>3. BitmapBits \in T  BY <2>1, <2>2
  <2> HIDE DEF Done
  <2>4. QED  BY <2>3 DEF T
<1> DEFINE s == Settled(map, low)
<1>13. /\ s \in V /\ s.base >= low /\ s.base <= low + BitmapBits
       /\ \A i \in low..(s.base - 1) : i \in ids
       /\ Ids(s.map, s.base) = {i \in ids : i >= s.base}
       /\ s.base = low + BitmapBits \/ s.base \notin ids
  BY <1>7, <1>12
<1>14. s.map \in Maps /\ s.base \in Nat  BY <1>13
<1> HIDE DEF V, ids, s, Done, T
<1>15. s.base \notin ids  BY <1>1, <1>9, <1>13, <1>14
<1>16. {i \in ids : i >= s.base} = {i \in ids : i > s.base}  BY <1>9, <1>14, <1>15
<1>17. s.base \in low..(low + BitmapBits)  BY <1>1, <1>13, <1>14
<1>18. QED  BY <1>13, <1>14, <1>15, <1>16, <1>17 DEF ids, s

-----------------------------------------------------------------------------
(* Marking. *)

WordsInv ==
    /\ bitmap \in Maps /\ base \in Nat \cup {D!None}
    /\ base = D!None => bitmap = Zeros
    /\ base = window.base /\ fresh = novel
    /\ Ids(bitmap, base) = window.applied

\* The array of a new session holds no id.
LEMMA ZerosHoldNone ==
  ASSUME NEW low \in Int
  PROVE  Zeros \in Maps /\ Ids(Zeros, low) = {}
<1>1. BitmapBits \in Nat /\ WordBits \in Nat \ {0} /\ Words \in Nat  BY Places, BitsAssumption
<1>2. Zeros \in Maps  BY DEF Zeros, Maps, Word
<1>3. ASSUME NEW o \in 0..(BitmapBits - 1) PROVE ~Get(Zeros, o)
  <2>1. o \in Nat /\ o < BitmapBits  BY <1>1
  <2>2. o \div WordBits \in Nat /\ o \div WordBits < Words  BY <2>1, Places
  <2>3. o \div WordBits \in 0..(Words - 1)  BY <1>1, <2>2
  <2>4. Zeros[o \div WordBits] = {}  BY <2>3 DEF Zeros
  <2>5. QED  BY <2>4 DEF Get
<1>4. QED  BY <1>2, <1>3 DEF Ids

\* A new session begins with an empty window.
LEMMA WordsStart == ASSUME BitsInit PROVE WordsInv
<1>1. base = D!None /\ bitmap = Zeros /\ fresh = FALSE /\ novel = FALSE
      /\ window.base = D!None /\ window.applied = {}
  BY DEF BitsInit, D!EmptyDedup
<1>2. D!None \in Int  BY DEF D!None
<1>3. Zeros \in Maps /\ Ids(Zeros, D!None) = {}  BY <1>2, ZerosHoldNone
<1>4. QED  BY <1>1, <1>3 DEF WordsInv

\* The array with room for an id holds what the window keeps of its ids.
LEMMA RoomFacts ==
  ASSUME WordsInv, NEW id \in Nat, id >= Lowest(id)
  PROVE  LET low == Lowest(id) + Shift(id)
         IN  /\ low \in Nat /\ Shift(id) \in Nat /\ low = D!Slid(window, id)
             /\ Room(id) \in Maps
             /\ Ids(Room(id), low) = {i \in window.applied : i >= low}
             /\ Offset(id) \in 0..(BitmapBits - 1) /\ Offset(id) = id - low
             /\ Get(Room(id), Offset(id)) <=> id \in window.applied
             /\ id \in window.applied => Shift(id) = 0
             /\ base # D!None => Lowest(id) = base
             /\ \A i \in window.applied : i \in Int
<1> DEFINE L == Lowest(id)
           sh == Shift(id)
           low == L + sh
<1>1. BitmapBits \in Nat \ {0}  BY Places
<1>2. D!None = -1 /\ base \in Int  BY DEF D!None, WordsInv
<1>3. L = (IF base # D!None THEN base ELSE IF id < BitmapBits THEN 0 ELSE id - (BitmapBits - 1))
      /\ sh = IF id - L >= BitmapBits THEN id - L - (BitmapBits - 1) ELSE 0
  BY DEF Lowest, Shift
<1>4. D!Floor(window, id) = L
  BY <1>3 DEF WordsInv, D!Floor
<1>5. D!Slid(window, id) = IF id - L >= BitmapBits THEN id - (BitmapBits - 1) ELSE L
  BY <1>4 DEF D!Slid
<1>6. Room(id) = (IF sh > 0 THEN Slide(bitmap, sh) ELSE bitmap) /\ Offset(id) = id - L - sh
  BY DEF Room, Offset
<1>7. id >= L  OBVIOUS
<1>8. bitmap \in Maps /\ (base # D!None => base \in Nat) /\ (base = D!None => bitmap = Zeros)
      /\ Ids(bitmap, base) = window.applied
  BY DEF WordsInv
<1> HIDE DEF L, sh
<1>9. L \in Nat  BY <1>1, <1>3, <1>8
<1>10. sh \in Nat  BY <1>1, <1>3, <1>9
<1>11. low \in Nat /\ low = D!Slid(window, id)  BY <1>1, <1>3, <1>5, <1>9, <1>10
<1>12. id - low \in 0..(BitmapBits - 1) /\ (sh > 0 => id >= L + BitmapBits)
  BY <1>1, <1>3, <1>7, <1>9, <1>10
<1>13. Ids(bitmap, L) = window.applied
  <2>1. CASE base # D!None
    <3>1. L = base  BY <1>3, <2>1
    <3>2. QED  BY <1>8, <3>1
  <2>2. CASE base = D!None
    <3>1. bitmap = Zeros  BY <1>8, <2>2
    <3>2. Ids(Zeros, L) = {} /\ Ids(Zeros, base) = {}  BY <1>2, <1>9, ZerosHoldNone
    <3>3. QED  BY <1>8, <3>1, <3>2
  <2>3. QED  BY <2>1, <2>2
<1>14. \A i \in window.applied : i \in Int /\ i >= L /\ i < L + BitmapBits
  <2>1. L \in Int  BY <1>9
  <2>2. \A i \in Ids(bitmap, L) : i \in Int /\ i >= L /\ i < L + BitmapBits  BY <2>1, IdsTyped
  <2>3. QED  BY <1>13, <2>2
<1>15. Room(id) \in Maps /\ Ids(Room(id), low) = {i \in window.applied : i >= low}
  <2>1. CASE sh > 0
    <3>1. L \in Int  BY <1>9
    <3>2. Slide(bitmap, sh) \in Maps /\ Ids(Slide(bitmap, sh), L + sh) = {i \in Ids(bitmap, L) : i >= L + sh}
      BY <1>8, <1>10, <3>1, SlideBits, IdsSlid
    <3>3. QED  BY <1>6, <1>13, <2>1, <3>2
  <2>2. CASE ~(sh > 0)
    <3>1. sh = 0 /\ low = L  BY <1>9, <1>10, <2>2
    <3>2. {i \in window.applied : i >= low} = window.applied  BY <1>14, <3>1
    <3>3. QED  BY <1>6, <1>8, <1>13, <2>2, <3>1, <3>2
  <2>3. QED  BY <2>1, <2>2
<1>16. Offset(id) = id - low  BY <1>6, <1>9, <1>10
<1>17. Get(Room(id), Offset(id)) <=> id \in window.applied
  <2>1. id \in Ids(Room(id), low) <=> id - low \in 0..(BitmapBits - 1) /\ Get(Room(id), id - low)
    <3>1. low \in Int /\ id \in Int  BY <1>11
    <3> HIDE DEF low
    <3>2. QED  BY <3>1, IdsMember
  <2>2. id >= low  BY <1>1, <1>11, <1>12
  <2>3. id \in Ids(Room(id), low) <=> id \in window.applied  BY <1>15, <2>2
  <2> HIDE DEF low
  <2>4. QED  BY <1>12, <1>16, <2>1, <2>3
<1>18. id \in window.applied => sh = 0
  <2>1. id \in window.applied => id < L + BitmapBits  BY <1>14
  <2>2. QED  BY <1>1, <1>9, <1>10, <1>12, <2>1
<1>19. base # D!None => L = base  BY <1>3
<1>20. QED  BY <1>10, <1>11, <1>12, <1>14, <1>15, <1>16, <1>17, <1>18, <1>19 DEF L, sh

\* Marking any id keeps array and window together, by each of its outcomes: the
\* id is below the window, set already, or new, when the array settles.
LEMMA MarkKeepsWords ==
  ASSUME WordsInv, NEW id \in Nat, MarkWords(id)
  PROVE  WordsInv'
<1>1. BitmapBits \in Nat \ {0}  BY Places
<1>2. window' = D!Mark(window, id) /\ novel' = ~D!Knows(window, id)  BY DEF MarkWords
<1>3. D!Knows(window, id) <=> base # D!None /\ (id < base \/ id \in window.applied)
  BY DEF D!Knows, WordsInv
<1>4. base \in Nat \cup {-1} /\ D!None = -1  BY DEF WordsInv, D!None
<1>5. CASE MarkBelow(id)
  <2>1. D!Knows(window, id)  BY <1>3, <1>5 DEF MarkBelow
  <2>2. window' = window /\ novel' = FALSE  BY <1>2, <2>1 DEF D!Mark
  <2>3. QED  BY <1>5, <2>2 DEF MarkBelow, WordsInv
<1>6. CASE MarkSeen(id)
  <2>1. id >= Lowest(id) /\ id \in window.applied /\ Shift(id) = 0  BY <1>6, RoomFacts DEF MarkSeen
  <2>2. base # D!None
    <3>1. SUFFICES ASSUME base = D!None PROVE FALSE  OBVIOUS
    <3>2. bitmap = Zeros /\ Ids(bitmap, base) = window.applied /\ base \in Int  BY <1>4, <3>1 DEF WordsInv
    <3>3. window.applied = {}  BY <3>2, ZerosHoldNone
    <3>4. QED  BY <2>1, <3>3
  <2>3. window' = window /\ novel' = FALSE  BY <1>2, <1>3, <2>1, <2>2 DEF D!Mark
  <2>4. base' = base /\ bitmap' = bitmap /\ fresh' = FALSE
    <3>1. Lowest(id) = base /\ ~(Shift(id) > 0)  BY <2>1, <2>2, RoomFacts
    <3>2. base' = base + 0 /\ bitmap' = bitmap /\ fresh' = FALSE
      BY <1>6, <2>1, <3>1 DEF MarkSeen, Room
    <3>3. QED  BY <1>4, <3>2
  <2>5. QED  BY <2>3, <2>4 DEF WordsInv
<1>7. CASE MarkFresh(id)
  <2> DEFINE low == Lowest(id) + Shift(id)
             map == Set(Room(id), Offset(id))
             kept == {i \in window.applied : i >= low} \cup {id}
             s == Settled(map, low)
  <2>1. /\ id >= Lowest(id) /\ fresh' = TRUE /\ bitmap' = s.map /\ base' = s.base
        /\ ~Get(Room(id), Offset(id))
    BY <1>7 DEF MarkFresh
  <2>2. /\ low \in Nat /\ low = D!Slid(window, id) /\ Room(id) \in Maps
        /\ Ids(Room(id), low) = {i \in window.applied : i >= low}
        /\ Offset(id) \in 0..(BitmapBits - 1) /\ Offset(id) = id - low
        /\ id \notin window.applied
        /\ base # D!None => Lowest(id) = base
        /\ \A i \in window.applied : i \in Int
    BY <2>1, RoomFacts
  <2>3. ~D!Knows(window, id)  BY <1>3, <1>4, <2>1, <2>2
  <2>4. map \in Maps /\ Ids(map, low) = kept
    <3>1. map \in Maps
          /\ \A o \in 0..(BitmapBits - 1) : Get(map, o) <=> Get(Room(id), o) \/ o = Offset(id)
      BY <2>2, SetBits
    <3>2. ASSUME NEW i \in Int PROVE i \in Ids(map, low) <=> i \in Ids(Room(id), low) \/ i = id
      <4> DEFINE o == i - low
      <4>1. low \in Int /\ o \in Int /\ (o = Offset(id) <=> i = id)
        <5> HIDE DEF low
        <5>1. QED  BY <2>2
      <4> HIDE DEF map, low
      <4>2. i \in Ids(map, low) <=> i - low \in 0..(BitmapBits - 1) /\ Get(map, i - low)
        BY <4>1, IdsMember
      <4>3. i \in Ids(Room(id), low) <=> i - low \in 0..(BitmapBits - 1) /\ Get(Room(id), i - low)
        BY <4>1, IdsMember
      <4> HIDE DEF o
      <4>4. o = i - low  BY DEF o
      <4>5. QED  BY <2>2, <3>1, <4>1, <4>2, <4>3, <4>4
    <3>3. \A i \in Ids(map, low) : i \in Int
      <4>1. low \in Int  BY <2>2
      <4> HIDE DEF map, low
      <4>2. QED  BY <4>1, IdsTyped
    <3> HIDE DEF map, low
    <3>4. \A i \in kept : i \in Int  BY <2>2
    <3>5. QED  BY <2>2, <3>1, <3>2, <3>3, <3>4
  <2> HIDE DEF map, kept
  <2>5. /\ s.map \in Maps /\ s.base \in low..(low + BitmapBits)
        /\ s.base \notin kept /\ \A i \in low..(s.base - 1) : i \in kept
        /\ Ids(s.map, s.base) = {i \in kept : i > s.base}
    <3>1. low \in Nat  BY <2>2
    <3> HIDE DEF low, s
    <3>2. QED  BY <2>4, <3>1, SettledFacts DEF s
  <2> HIDE DEF s
  <2>6. D!Frontier(low, kept) = s.base
    <3> HIDE DEF low
    <3> DEFINE Is(n) == n \notin kept /\ \A i \in low..(n - 1) : i \in kept
    <3>1. s.base \in low..(low + BitmapBits) /\ Is(s.base)  BY <2>5
    <3>2. ASSUME NEW n \in low..(low + BitmapBits), Is(n) PROVE n = s.base
      <4>1. low \in Nat /\ n \in Int /\ s.base \in Int  BY <1>1, <2>2, <3>1
      <4>2. n < s.base => n \in low..(s.base - 1)  BY <1>1, <3>1, <4>1
      <4>3. s.base < n => s.base \in low..(n - 1)  BY <1>1, <3>1, <4>1
      <4>4. QED  BY <3>1, <3>2, <4>1, <4>2, <4>3
    <3>3. D!Frontier(low, kept) = CHOOSE n \in low..(low + BitmapBits) : Is(n)  BY DEF D!Frontier
    <3> HIDE DEF Is
    <3>4. QED  BY <3>1, <3>2, <3>3
  <2>7. D!Mark(window, id) = [base |-> s.base, applied |-> {i \in kept : i > s.base}]
    BY <2>2, <2>3, <2>6 DEF D!Mark, kept
  <2>8. window'.base = s.base /\ window'.applied = {i \in kept : i > s.base} /\ novel' = TRUE
    <3> HIDE DEF low
    <3>1. window' = [base |-> s.base, applied |-> {i \in kept : i > s.base}]  BY <1>2, <2>7
    <3>2. novel' = TRUE  BY <1>2, <2>3
    <3>3. QED  BY <3>1, <3>2
  <2>9. s.base \in Nat
    <3> HIDE DEF low
    <3>1. QED  BY <1>1, <2>2, <2>5
  <2>10. s.base # D!None  BY <1>4, <2>9
  <2>11. QED  BY <2>1, <2>5, <2>8, <2>9, <2>10 DEF WordsInv
<1>8. QED  BY <1>5, <1>6, <1>7 DEF MarkWords

-----------------------------------------------------------------------------
(* The acknowledgement. *)

\* A set of numbers of a range has a least and a greatest element.
LEMMA Ends ==
  ASSUME NEW n \in Nat, NEW S \in SUBSET (0..(n - 1)), S # {}
  PROVE  /\ \E x \in S : \A y \in S : x <= y
         /\ \E x \in S : \A y \in S : y <= x
<1>1. \E x \in S : \A y \in S : x <= y
  <2>1. S \in SUBSET Nat  OBVIOUS
  <2>2. QED  BY <2>1, LeastNatural
<1>2. \E x \in S : \A y \in S : y <= x
  <2> DEFINE T == {k \in Nat : n - k \in S}
  <2>1. T # {}
    <3>1. PICK x \in S : TRUE  OBVIOUS
    <3>2. n - x \in Nat /\ n - (n - x) = x  BY <3>1
    <3>3. n - x \in T  BY <3>2
    <3>4. QED  BY <3>3
  <2>2. T \in SUBSET Nat  OBVIOUS
  <2> HIDE DEF T
  <2>3. PICK k \in T : \A m \in T : k <= m  BY <2>1, <2>2, LeastNatural
  <2>4. k \in Nat /\ n - k \in S  BY DEF T
  <2>5. ASSUME NEW y \in S PROVE y <= n - k
    <3>1. y \in Nat /\ y <= n /\ n - y \in Nat /\ n - (n - y) = y  OBVIOUS
    <3>2. n - y \in T  BY <3>1 DEF T
    <3>3. k <= n - y  BY <2>3, <3>2
    <3>4. QED  BY <2>4, <3>1, <3>3
  <2>6. QED  BY <2>4, <2>5
<1>3. QED  BY <1>1, <1>2

\* Word after word, the bits set are the slots held.
LEMMA SlotsOfWords ==
  ASSUME bitmap \in Maps
  PROVE  \A w \in 0..(Words - 1), b \in 0..(WordBits - 1) :
           b \in bitmap[w] <=> w * WordBits + b \in SetOffsets
<1>1. BitmapBits \in Nat \ {0} /\ Words \in Nat /\ WordBits \in Nat \ {0}  BY Places, BitsAssumption
<1>2. ASSUME NEW w \in 0..(Words - 1), NEW b \in 0..(WordBits - 1)
      PROVE  b \in bitmap[w] <=> w * WordBits + b \in SetOffsets
  <2>1. w \in Nat /\ w < Words  BY <1>1
  <2> DEFINE o == w * WordBits + b
  <2>2. o \in Nat /\ o \div WordBits = w /\ o % WordBits = b /\ o < BitmapBits  BY <2>1, Places
  <2> HIDE DEF o
  <2>3. o \in 0..(BitmapBits - 1)  BY <1>1, <2>2
  <2>4. QED  BY <2>2, <2>3 DEF SetOffsets, Get, o
<1>3. QED  BY <1>2

\* The scans from both ends find the newest and the oldest slot held.
LEMMA SlotsFacts ==
  ASSUME bitmap \in Maps
  PROVE  /\ SetOffsets \subseteq 0..(BitmapBits - 1)
         /\ AnySet <=> SetOffsets # {}
         /\ AnySet => /\ NewestHeld \in SetOffsets /\ \A o \in SetOffsets : o <= NewestHeld
                      /\ OldestHeld \in SetOffsets /\ \A o \in SetOffsets : OldestHeld <= o
<1>1. BitmapBits \in Nat \ {0} /\ Words \in Nat \ {0} /\ WordBits \in Nat \ {0}  BY Places, BitsAssumption
<1>2. SetOffsets \subseteq 0..(BitmapBits - 1)  BY DEF SetOffsets
<1>3. ASSUME NEW o \in SetOffsets
      PROVE  /\ o \div WordBits \in 0..(Words - 1) /\ o % WordBits \in 0..(WordBits - 1)
             /\ o % WordBits \in bitmap[o \div WordBits]
             /\ o = (o \div WordBits) * WordBits + (o % WordBits)
  <2>1. o \in Nat /\ o < BitmapBits /\ Get(bitmap, o)  BY <1>1 DEF SetOffsets
  <2>2. /\ o \div WordBits \in Nat /\ o % WordBits \in 0..(WordBits - 1)
        /\ o = (o \div WordBits) * WordBits + (o % WordBits) /\ o \div WordBits < Words
    BY <2>1, Places
  <2>3. o \div WordBits \in 0..(Words - 1)  BY <1>1, <2>2
  <2>4. QED  BY <2>1, <2>2, <2>3 DEF Get
<1>4. AnySet <=> SetOffsets # {}
  <2>1. ASSUME AnySet PROVE SetOffsets # {}
    <3>1. PICK w \in 0..(Words - 1) : bitmap[w] # {}  BY <2>1 DEF AnySet
    <3>2. PICK b \in bitmap[w] : TRUE  BY <3>1
    <3>3. b \in 0..(WordBits - 1)  BY DEF Maps, Word
    <3>4. w * WordBits + b \in SetOffsets  BY <3>2, <3>3, SlotsOfWords
    <3>5. QED  BY <3>4
  <2>2. ASSUME SetOffsets # {} PROVE AnySet
    <3>1. PICK o \in SetOffsets : TRUE  BY <2>2
    <3>2. QED  BY <1>3 DEF AnySet
  <2>3. QED  BY <2>1, <2>2
<1> DEFINE Full == {w \in 0..(Words - 1) : bitmap[w] # {}}
           Hi(w) == bitmap[w] # {} /\ \A j \in (w + 1)..(Words - 1) : bitmap[j] = {}
           Lo(w) == bitmap[w] # {} /\ \A j \in 0..(w - 1) : bitmap[j] = {}
<1>5. ASSUME AnySet
      PROVE  /\ NewestHeld \in SetOffsets /\ \A o \in SetOffsets : o <= NewestHeld
             /\ OldestHeld \in SetOffsets /\ \A o \in SetOffsets : OldestHeld <= o
  <2>1. Full \in SUBSET (0..(Words - 1)) /\ Full # {}  BY <1>5 DEF AnySet
  <2>2. \E w \in 0..(Words - 1) : Hi(w)
    <3>1. PICK w \in Full : \A j \in Full : j <= w
      <4> HIDE DEF Full
      <4>1. QED  BY <1>1, <2>1, Ends
    <3>2. \A j \in (w + 1)..(Words - 1) : j \in 0..(Words - 1) /\ ~(j <= w)  BY <1>1
    <3>3. QED  BY <3>1, <3>2
  <2>3. \E w \in 0..(Words - 1) : Lo(w)
    <3>1. PICK w \in Full : \A j \in Full : w <= j
      <4> HIDE DEF Full
      <4>1. QED  BY <1>1, <2>1, Ends
    <3>2. \A j \in 0..(w - 1) : j \in 0..(Words - 1) /\ ~(w <= j)  BY <1>1
    <3>3. QED  BY <3>1, <3>2
  <2> DEFINE hi == CHOOSE i \in 0..(Words - 1) : Hi(i)
             lo == CHOOSE i \in 0..(Words - 1) : Lo(i)
             hb == CHOOSE b \in bitmap[hi] : \A c \in bitmap[hi] : c =< b
             lb == CHOOSE b \in bitmap[lo] : \A c \in bitmap[lo] : b =< c
  <2>4. NewestHeld = hi * WordBits + hb /\ OldestHeld = lo * WordBits + lb  BY DEF NewestHeld, OldestHeld
  <2>5. hi \in 0..(Words - 1) /\ Hi(hi) /\ lo \in 0..(Words - 1) /\ Lo(lo)
    <3> HIDE DEF Hi, Lo
    <3>1. QED  BY <2>2, <2>3
  <2> HIDE DEF hi, lo
  <2>6. \A w \in 0..(Words - 1) : bitmap[w] \in SUBSET (0..(WordBits - 1))  BY DEF Maps, Word
  <2>7. hb \in bitmap[hi] /\ \A c \in bitmap[hi] : c =< hb
    <3>1. bitmap[hi] # {} /\ bitmap[hi] \in SUBSET (0..(WordBits - 1))  BY <2>5, <2>6
    <3>2. \E b \in bitmap[hi] : \A c \in bitmap[hi] : c =< b  BY <1>1, <3>1, Ends
    <3>3. QED  BY <3>2
  <2>8. lb \in bitmap[lo] /\ \A c \in bitmap[lo] : lb =< c
    <3>1. bitmap[lo] # {} /\ bitmap[lo] \in SUBSET (0..(WordBits - 1))  BY <2>5, <2>6
    <3>2. \E b \in bitmap[lo] : \A c \in bitmap[lo] : b =< c  BY <1>1, <3>1, Ends
    <3>3. QED  BY <3>2
  <2> HIDE DEF hb, lb
  <2>9. NewestHeld \in SetOffsets /\ OldestHeld \in SetOffsets
    <3>1. hb \in 0..(WordBits - 1) /\ lb \in 0..(WordBits - 1)  BY <2>5, <2>6, <2>7, <2>8
    <3>2. QED  BY <2>4, <2>5, <2>7, <2>8, <3>1, SlotsOfWords
  <2>10. ASSUME NEW o \in SetOffsets PROVE o <= NewestHeld /\ OldestHeld <= o
    <3> DEFINE w == o \div WordBits
               b == o % WordBits
    <3>1. w \in 0..(Words - 1) /\ b \in 0..(WordBits - 1) /\ b \in bitmap[w] /\ o = w * WordBits + b
      BY <1>3
    <3> HIDE DEF w, b
    <3>2. hb \in 0..(WordBits - 1) /\ lb \in 0..(WordBits - 1)  BY <2>5, <2>6, <2>7, <2>8
    <3>3. w <= hi
      <4>1. ~(w \in (hi + 1)..(Words - 1))  BY <2>5, <3>1
      <4>2. QED  BY <1>1, <2>5, <3>1, <4>1
    <3>4. lo <= w
      <4>1. ~(w \in 0..(lo - 1))  BY <2>5, <3>1
      <4>2. QED  BY <1>1, <2>5, <3>1, <4>1
    <3>5. \A x, y \in Nat, c, d \in 0..(WordBits - 1) :
            x < y => x * WordBits + c <= y * WordBits + d
      <4>1. ASSUME NEW x \in Nat, NEW y \in Nat, NEW c \in 0..(WordBits - 1), NEW d \in 0..(WordBits - 1), x < y
            PROVE  x * WordBits + c <= y * WordBits + d
        <5>1. (x + 1) * WordBits <= y * WordBits  BY <1>1, <4>1
        <5>2. (x + 1) * WordBits = x * WordBits + WordBits  BY <1>1
        <5>3. x * WordBits \in Nat /\ y * WordBits \in Nat  BY <1>1
        <5>4. QED  BY <1>1, <5>1, <5>2, <5>3
      <4>2. QED  BY <4>1
    <3>6. w \in Nat /\ hi \in Nat /\ lo \in Nat  BY <1>1, <2>5, <3>1
    <3>7. w = hi => o <= NewestHeld
      <4>1. w = hi => b <= hb  BY <2>7, <3>1
      <4>2. hi * WordBits \in Nat  BY <1>1, <3>6
      <4>3. QED  BY <1>1, <2>4, <3>1, <3>2, <4>1, <4>2
    <3>8. w = lo => OldestHeld <= o
      <4>1. w = lo => lb <= b  BY <2>8, <3>1
      <4>2. lo * WordBits \in Nat  BY <1>1, <3>6
      <4>3. QED  BY <1>1, <2>4, <3>1, <3>2, <4>1, <4>2
    <3>9. w < hi => o <= NewestHeld  BY <2>4, <3>1, <3>2, <3>5, <3>6
    <3>10. lo < w => OldestHeld <= o  BY <2>4, <3>1, <3>2, <3>5, <3>6
    <3>11. QED  BY <3>3, <3>4, <3>6, <3>7, <3>8, <3>9, <3>10
  <2>11. QED  BY <2>9, <2>10
<1>6. QED  BY <1>2, <1>4, <1>5

-----------------------------------------------------------------------------
(* What the words hold, and the acknowledgement read out of them. *)

\* The invariant says what the words hold.
LEMMA WordsAreTheWindow == ASSUME WordsInv PROVE WordsHold
<1>1. Ids(bitmap, base) = {base + o : o \in SetOffsets}  BY DEF Ids, SetOffsets
<1>2. \A w \in 0..(Words - 1) : bitmap[w] \subseteq 0..(WordBits - 1)  BY DEF WordsInv, Maps, Word
<1>3. QED  BY <1>1, <1>2 DEF WordsInv, WordsHold

\* TopHeld and missing ids read from the words are those of the window.
LEMMA AcksAreTheWindows == ASSUME WordsInv PROVE AcksAgree
<1> SUFFICES ASSUME D!HasTop(window)
             PROVE  /\ base # D!None /\ TopHeld = D!Top(window)
                    /\ {TopHeld - (b + 1) : b \in MissingBits} = D!Missing(window)
  BY DEF AcksAgree
<1>1. BitmapBits \in Nat \ {0} /\ AckBits \in Nat \ {0}  BY Places, BitsAssumption
<1>2. /\ bitmap \in Maps /\ base \in Nat /\ base # D!None
      /\ window.base = base /\ window.applied = Ids(bitmap, base)
  BY DEF WordsInv, D!HasTop
<1> DEFINE applied == window.applied
           oldest == IF AnySet THEN base + OldestHeld ELSE base
<1>3. applied = {base + o : o \in SetOffsets}  BY <1>2 DEF Ids, SetOffsets
<1>4. /\ SetOffsets \subseteq 0..(BitmapBits - 1)
      /\ AnySet <=> SetOffsets # {}
      /\ AnySet => /\ NewestHeld \in SetOffsets /\ \A o \in SetOffsets : o <= NewestHeld
                   /\ OldestHeld \in SetOffsets /\ \A o \in SetOffsets : OldestHeld <= o
  BY <1>2, SlotsFacts
<1> HIDE DEF applied
<1>5. AnySet <=> applied # {}  BY <1>3, <1>4
<1>6. ASSUME AnySet
      PROVE  /\ D!Max(applied) = base + NewestHeld /\ D!Min(applied) = base + OldestHeld
             /\ NewestHeld \in 0..(BitmapBits - 1) /\ OldestHeld \in 0..(BitmapBits - 1)
  <2>1. /\ NewestHeld \in 0..(BitmapBits - 1) /\ OldestHeld \in 0..(BitmapBits - 1)
        /\ base + NewestHeld \in applied /\ base + OldestHeld \in applied
    BY <1>3, <1>4, <1>6
  <2>2. ASSUME NEW i \in applied PROVE i \in Nat /\ i <= base + NewestHeld /\ base + OldestHeld <= i
    <3>1. PICK o \in SetOffsets : i = base + o  BY <1>3
    <3>2. o \in 0..(BitmapBits - 1) /\ o <= NewestHeld /\ OldestHeld <= o  BY <1>4, <1>6
    <3>3. QED  BY <1>1, <1>2, <2>1, <3>1, <3>2
  <2> DEFINE Greatest(x) == \A y \in applied : x >= y
             Least(x) == \A y \in applied : x =< y
  <2>3. base + NewestHeld \in Nat /\ base + OldestHeld \in Nat  BY <1>1, <1>2, <2>1
  <2>4. Greatest(base + NewestHeld) /\ Least(base + OldestHeld)  BY <2>2, <2>3
  <2>5. \A x \in applied : Greatest(x) => x = base + NewestHeld  BY <2>1, <2>2, <2>3
  <2>6. \A x \in applied : Least(x) => x = base + OldestHeld  BY <2>1, <2>2, <2>3
  <2>7. D!Max(applied) = CHOOSE x \in applied : Greatest(x)  BY DEF D!Max
  <2>8. D!Min(applied) = CHOOSE x \in applied : Least(x)  BY DEF D!Min
  <2> HIDE DEF Greatest, Least
  <2>9. QED  BY <2>1, <2>4, <2>5, <2>6, <2>7, <2>8
<1>7. TopHeld = D!Top(window)  BY <1>2, <1>5, <1>6 DEF TopHeld, D!Top, applied
<1>8. oldest = D!Oldest(window)  BY <1>2, <1>5, <1>6 DEF D!Oldest, applied
<1>9. /\ TopHeld \in Int /\ oldest \in Nat /\ oldest >= base
      /\ TopHeld < base + BitmapBits
  BY <1>1, <1>2, <1>6 DEF TopHeld
<1>10. MissingBits = {b \in 0..(AckBits - 1) :
         /\ TopHeld - (b + 1) >= 0 /\ TopHeld - (b + 1) >= oldest
         /\ ~Get(bitmap, (TopHeld - (b + 1)) - base)}
  BY DEF MissingBits
<1> HIDE DEF oldest
<1>11. D!Missing(window) = {id \in (TopHeld - AckBits)..(TopHeld - 1) : id >= oldest /\ id \notin applied}
  BY <1>7, <1>8 DEF D!Missing, applied
<1>12. ASSUME NEW id \in Int, id >= oldest, id <= TopHeld - 1
       PROVE  id \in applied <=> Get(bitmap, id - base)
  <2>1. id \in Ids(bitmap, base) <=> id - base \in 0..(BitmapBits - 1) /\ Get(bitmap, id - base)
    BY <1>2, IdsMember
  <2>2. id - base \in 0..(BitmapBits - 1)  BY <1>1, <1>2, <1>9, <1>12
  <2>3. QED  BY <1>2, <2>1, <2>2 DEF applied
<1>13. ASSUME NEW b \in MissingBits PROVE TopHeld - (b + 1) \in D!Missing(window)
  <2> DEFINE id == TopHeld - (b + 1)
  <2>1. b \in 0..(AckBits - 1) /\ id >= oldest /\ ~Get(bitmap, id - base)  BY <1>10
  <2>2. id \in Int /\ id <= TopHeld - 1 /\ id \in (TopHeld - AckBits)..(TopHeld - 1)  BY <1>1, <1>9, <2>1
  <2> HIDE DEF id
  <2>3. id \notin applied  BY <1>12, <2>1, <2>2
  <2>4. QED  BY <1>11, <2>1, <2>2, <2>3 DEF id
<1>14. ASSUME NEW id \in D!Missing(window) PROVE \E b \in MissingBits : id = TopHeld - (b + 1)
  <2>1. id \in (TopHeld - AckBits)..(TopHeld - 1) /\ id >= oldest /\ id \notin applied  BY <1>11
  <2>2. id \in Int /\ id <= TopHeld - 1 /\ id >= 0  BY <1>1, <1>9, <2>1
  <2>3. ~Get(bitmap, id - base)  BY <1>12, <2>1, <2>2
  <2> DEFINE b == (TopHeld - id) - 1
  <2>4. b \in 0..(AckBits - 1) /\ TopHeld - (b + 1) = id  BY <1>1, <1>9, <2>1, <2>2
  <2> HIDE DEF b
  <2>5. b \in MissingBits  BY <1>10, <2>1, <2>2, <2>3, <2>4
  <2>6. QED  BY <2>4, <2>5
<1>15. {TopHeld - (b + 1) : b \in MissingBits} = D!Missing(window)  BY <1>13, <1>14
<1>16. QED  BY <1>2, <1>7, <1>15

\* The array of words is the window of ids it stands for, whatever ids are
\* marked in whatever order, for words of any size and any number of them: the
\* slide that writes the array in place loses no bit and moves none to a wrong
\* slot (`Dedup::slide`), an id is reported new exactly when the window does
\* not know it (`Dedup::mark`), and the acknowledgement found by scanning the
\* words from both ends is that of the window (`Dedup::acknowledgement`).
THEOREM WordsAlwaysHold == BitsSpec => []WordsHoldTheWindow
<1>1. BitsInit => WordsInv  BY WordsStart
<1>2. WordsInv /\ [BitsNext]_bitsVars => WordsInv'
  <2> SUFFICES ASSUME WordsInv, [BitsNext]_bitsVars PROVE WordsInv'  OBVIOUS
  <2>1. CASE BitsNext
    <3>1. PICK id \in WordIds : MarkWords(id)  BY <2>1 DEF BitsNext
    <3>2. id \in Nat  BY BitsAssumption
    <3>3. QED  BY <3>1, <3>2, MarkKeepsWords
  <2>2. CASE UNCHANGED bitsVars  BY <2>2 DEF bitsVars, WordsInv
  <2>3. QED  BY <2>1, <2>2
<1>3. WordsInv => WordsHoldTheWindow
  BY WordsAreTheWindow, AcksAreTheWindows DEF WordsHoldTheWindow
<1>4. QED  BY <1>1, <1>2, <1>3, PTL DEF BitsSpec
=============================================================================
