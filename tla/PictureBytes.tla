---------------------------- MODULE PictureBytes ----------------------------
(***************************************************************************)
(* The bytes of a picture from the encoder to the decoder: the Annex B     *)
(* stream split at its start codes and rewritten as AVCC                   *)
(* (crates/video-core/src/annexb.rs), walked, checked and cut into RTP     *)
(* payloads (crates/transport/src/h264.rs), and put together again from    *)
(* them (crates/transport/src/reassembly.rs).  Beside it the grouping of a *)
(* whole stream into pictures that a fixture goes through (parse_stream).  *)
(*                                                                         *)
(* The payloads arrive here whole and in order: what loss does to them is  *)
(* MediaLink's subject.  One stream stands for one access unit, and for a  *)
(* fixture of several pictures.                                            *)
(***************************************************************************)
EXTENDS Integers, Sequences, SequencesExt, FiniteSetsExt

CONSTANTS TypeSpan,    \* types a NAL header can name (NAL_TYPE_MASK + 1, 32)
          Types,       \* the values of the types the code tells apart
          LengthSize,  \* bytes of a length prefix (NAL_LENGTH_SIZE, 4)
          Capacity,    \* payload bytes of a datagram (mtu - HEADER_OVERHEAD)
          NalUnits,    \* NAL units an encoder writes
          MaxNals,     \* bound: NAL units of a stream
          Paddings     \* zero bytes an encoder may put behind a NAL unit

\* A header byte is three bits and a type.
Radix == 8 * TypeSpan
FuHeader == 2

TypeOf(byte) == byte % TypeSpan
RefOf(byte) == byte \div TypeSpan

\* A length without its last bytes: shifted right by so many of them.
Shifted(length, bytes) ==
  LET rest[i \in 0..bytes] == IF i = 0 THEN length ELSE rest[i - 1] \div Radix
  IN  rest[bytes]

\* H.264 ends a NAL unit with a stop bit and escapes what looks like a start
\* code in it; the types of RTP's own payloads are not used by an encoder, and
\* its NAL units are not too long for a length prefix.
ASSUME PictureAssumption ==
  /\ TypeSpan \in Nat \ {0} /\ LengthSize \in Nat \ {0}
  /\ Capacity \in Nat /\ Capacity > FuHeader
  /\ DOMAIN Types = {"slice", "idr", "sei", "sps", "pps", "aud", "fu"}
  /\ \A a \in DOMAIN Types : Types[a] \in 0..(TypeSpan - 1)
  /\ \A a, b \in DOMAIN Types : a # b => Types[a] # Types[b]
  /\ \A nal \in NalUnits :
       /\ nal \in Seq(0..(Radix - 1)) /\ nal # <<>> /\ nal[Len(nal)] # 0
       /\ TypeOf(nal[1]) # Types.fu /\ Shifted(Len(nal), LengthSize) = 0
       /\ \A i \in 1..(Len(nal) - 2) : ~(nal[i] = 0 /\ nal[i + 1] = 0 /\ nal[i + 2] < 3)
  /\ MaxNals \in Nat /\ Paddings \subseteq Nat

VARIABLES written,   \* the NAL units the encoder wrote
          annexB,    \* and its bytes
          byteStage, \* how far they have come
          reached,   \* NalIter.cursor
          found,     \* the NAL units it has returned
          fixture,   \* parse_stream: sets, pictures, and the picture being gathered
          payloads,  \* RTP payloads on their way
          rebuilt    \* the Assembler's buffer, and the NAL unit open in it

bytesVars == <<written, annexB, byteStage, reached, found, fixture, payloads, rebuilt>>

Zeros(n) == [i \in 1..n |-> 0]

\* Every NAL unit behind a start code of three or four bytes, and padded.
Written(nals, codes, padding) ==
  FlattenSeq([i \in DOMAIN nals |-> Zeros(codes[i] - 1) \o <<1>> \o nals[i] \o Zeros(padding)])

NoPicture == [nals |-> <<>>, vcl |-> FALSE, idr |-> FALSE]
Closed == 0

BytesInit ==
  /\ written \in UNION {[1..n -> NalUnits] : n \in 1..MaxNals}
  /\ \E codes \in [DOMAIN written -> {3, 4}], padding \in Paddings :
       annexB = Written(written, codes, padding)
  /\ byteStage = "split" /\ reached = 1 /\ found = <<>>
  /\ fixture = [sets |-> <<>>, pictures |-> <<>>, current |-> NoPicture]
  /\ payloads = <<>>
  /\ rebuilt = [data |-> <<>>, open |-> Closed, idr |-> FALSE, damaged |-> FALSE]

(***************************************************************************)
(* Annex B.                                                                *)
(***************************************************************************)
IsStartCode(at) ==
  /\ annexB[at] = 0 /\ annexB[at + 1] = 0
  /\ \/ annexB[at + 2] = 1
     \/ at + 3 <= Len(annexB) /\ annexB[at + 2] = 0 /\ annexB[at + 3] = 1

CodesFrom(from) == {at \in from..(Len(annexB) - 2) : IsStartCode(at)}

CodeLength(at) == IF annexB[at + 2] = 1 THEN 3 ELSE 4

\* Without the zero bytes at its end.
Trimmed(nal) == SubSeq(nal, 1, Max({0} \cup {i \in DOMAIN nal : nal[i] # 0}))

\* What lies between the first start code from the cursor on and the next.
NextNal ==
  LET start == Min(CodesFrom(reached)) + CodeLength(Min(CodesFrom(reached)))
      end   == Min({Len(annexB) + 1} \cup CodesFrom(start))
  IN  [nal |-> Trimmed(SubSeq(annexB, start, end - 1)), end |-> end]

(***************************************************************************)
(* The pictures of a fixture.                                              *)
(***************************************************************************)
IsVcl(nal) == TypeOf(nal[1]) \in {Types.slice, Types.idr}
IsSet(nal) == TypeOf(nal[1]) \in {Types.sps, Types.pps}
IsDelimiter(nal) == TypeOf(nal[1]) = Types.aud

\* A delimiter begins a picture, and so does a slice, a parameter set or a SEI
\* behind a slice.
StartsPicture(nal, current) ==
  \/ IsDelimiter(nal)
  \/ current.vcl /\ (IsVcl(nal) \/ IsSet(nal) \/ TypeOf(nal[1]) = Types.sei)

Flushed(f) ==
  [f EXCEPT !.pictures = IF f.current.vcl THEN Append(@, f.current) ELSE @,
            !.current = NoPicture]

\* Parameter sets are kept apart and delimiters dropped.
Sorted(f, nal) ==
  CASE IsSet(nal)       -> [f EXCEPT !.sets = Append(@, nal)]
    [] IsDelimiter(nal) -> f
    [] OTHER            -> [f EXCEPT !.current =
                              [nals |-> Append(@.nals, nal), vcl |-> @.vcl \/ IsVcl(nal),
                               idr |-> @.idr \/ TypeOf(nal[1]) = Types.idr]]

Gathered(f, nal) ==
  Sorted(IF StartsPicture(nal, f.current) THEN Flushed(f) ELSE f, nal)

\* One turn of NalIter::next: an empty NAL unit is passed over.
Split ==
  /\ byteStage = "split" /\ CodesFrom(reached) # {}
  /\ reached' = NextNal.end
  /\ IF NextNal.nal = <<>> THEN UNCHANGED <<found, fixture>>
     ELSE /\ found' = Append(found, NextNal.nal)
          /\ fixture' = Gathered(fixture, NextNal.nal)
  /\ UNCHANGED <<written, annexB, byteStage, payloads, rebuilt>>

(***************************************************************************)
(* AVCC: every NAL unit behind its length, in bytes of falling weight.     *)
(***************************************************************************)
Prefix(length) == [i \in 1..LengthSize |-> Shifted(length, LengthSize - i) % Radix]

ToAvcc(nals) == FlattenSeq([i \in DOMAIN nals |-> Prefix(Len(nals[i])) \o nals[i]])

LengthAt(data, at) ==
  LET upTo[i \in 0..LengthSize] ==
        IF i = 0 THEN 0 ELSE (upTo[i - 1] * Radix) + data[at + i - 1]
  IN  upTo[LengthSize]

BodyAt(data, at) == SubSeq(data, at + LengthSize, at + LengthSize + LengthAt(data, at) - 1)

\* A prefix that names nothing or more than there is stops the walk.
HasNal(data, at) ==
  /\ at + LengthSize - 1 <= Len(data)
  /\ LengthAt(data, at) # 0 /\ at + LengthSize + LengthAt(data, at) - 1 <= Len(data)

\* Turns of the iterator, as many as there can be: where its cursor is, and
\* what it has returned.
Walk(data) ==
  LET turn[k \in 0..Len(data)] ==
        IF k = 0 THEN [at |-> 1, nals |-> <<>>]
        ELSE LET was == turn[k - 1]
             IN  IF ~HasNal(data, was.at) THEN was
                 ELSE [at   |-> was.at + LengthSize + LengthAt(data, was.at),
                       nals |-> Append(was.nals, BodyAt(data, was.at))]
  IN  turn[Len(data)]

AvccNalUnits(data) == Walk(data).nals

\* What the walk has consumed is every byte.
WellFormed(data) == AvccNalUnits(data) # <<>> /\ Walk(data).at = Len(data) + 1

(***************************************************************************)
(* RTP payloads: a NAL unit that fits is one, and another is cut into      *)
(* fragments, its header shared out between the two bytes before each.     *)
(***************************************************************************)
FirstMark == 4
LastMark  == 2
IsFirst(byte) == RefOf(byte) \in {4, 5, 6, 7}
IsLast(byte)  == RefOf(byte) \in {2, 3, 6, 7}

Fragment(nal, chunk, first, last) ==
  <<RefOf(nal[1]) * TypeSpan + Types.fu,
    ((IF first THEN FirstMark ELSE 0) + (IF last THEN LastMark ELSE 0)) * TypeSpan
      + TypeOf(nal[1])>> \o chunk

\* Defect: room is not kept for the two bytes, so a NAL unit one byte too long
\* for a datagram becomes a first fragment that is also the last.
Cut_NoRoom(nal) ==
  LET chunk == Capacity
      of    == (Len(nal) - 1 + chunk - 1) \div chunk
  IN  IF Len(nal) <= Capacity THEN <<nal>>
      ELSE [k \in 1..of |->
              Fragment(nal, SubSeq(nal, 2 + (k - 1) * chunk, Min({1 + k * chunk, Len(nal)})),
                       k = 1, k = of)]

Cut(nal) ==
  LET chunk == Capacity - FuHeader
      of    == (Len(nal) - 1 + chunk - 1) \div chunk
  IN  IF Len(nal) <= Capacity THEN <<nal>>
      ELSE [k \in 1..of |->
              Fragment(nal, SubSeq(nal, 2 + (k - 1) * chunk, Min({1 + k * chunk, Len(nal)})),
                       k = 1, k = of)]

\* The marker is on the last payload of the last NAL unit.
PayloadsOf(nals) ==
  LET all == FlattenSeq([i \in DOMAIN nals |-> Cut(nals[i])])
  IN  [k \in DOMAIN all |-> [bytes |-> all[k], marker |-> k = Len(all)]]

\* The end of the stream: the last picture of the fixture is flushed, and the
\* access unit is rewritten.  The packetizer refuses what it cannot walk.
Convert ==
  /\ byteStage = "split" /\ CodesFrom(reached) = {}
  /\ fixture' = Flushed(fixture)
  /\ IF WellFormed(ToAvcc(found))
     THEN byteStage' = "send" /\ payloads' = PayloadsOf(AvccNalUnits(ToAvcc(found)))
     ELSE byteStage' = "refused" /\ UNCHANGED payloads
  /\ UNCHANGED <<written, annexB, reached, found, rebuilt>>

(***************************************************************************)
(* The Assembler.                                                          *)
(***************************************************************************)
\* A NAL unit still open when another begins, or when the unit ends.
Abandoned(r) ==
  IF r.open = Closed THEN r
  ELSE [r EXCEPT !.data = SubSeq(@, 1, r.open - 1), !.open = Closed, !.damaged = TRUE]

Whole(r, bytes) ==
  LET clean == Abandoned(r)
  IN  [clean EXCEPT !.data = @ \o Prefix(Len(bytes)) \o bytes,
                    !.idr = @ \/ TypeOf(bytes[1]) = Types.idr]

\* The header is made again from the two that carried it; its length is not
\* known yet.
Opening(r, bytes) ==
  LET clean  == Abandoned(r)
      header == RefOf(bytes[1]) * TypeSpan + TypeOf(bytes[2])
  IN  [clean EXCEPT !.open = Len(clean.data) + 1,
                    !.data = @ \o Zeros(LengthSize) \o <<header>> \o SubSeq(bytes, 3, Len(bytes)),
                    !.idr = @ \/ TypeOf(bytes[2]) = Types.idr]

\* The last fragment writes the length over the place kept for it.
Continued(r, bytes) ==
  IF r.open = Closed THEN [r EXCEPT !.damaged = TRUE]
  ELSE LET data   == r.data \o SubSeq(bytes, 3, Len(bytes))
           length == Prefix(Len(data) - (r.open - 1) - LengthSize)
       IN  IF ~IsLast(bytes[2]) THEN [r EXCEPT !.data = data]
           ELSE [r EXCEPT !.open = Closed,
                          !.data = [i \in DOMAIN data |->
                             IF i \in r.open..(r.open + LengthSize - 1)
                             THEN length[i - r.open + 1] ELSE data[i]]]

Assembled(r, bytes) ==
  IF TypeOf(bytes[1]) # Types.fu THEN Whole(r, bytes)
  ELSE IF IsFirst(bytes[2]) THEN Opening(r, bytes) ELSE Continued(r, bytes)

Arrive ==
  /\ byteStage = "send"
  /\ LET r == Assembled(rebuilt, Head(payloads).bytes)
     IN  rebuilt' = IF Head(payloads).marker THEN Abandoned(r) ELSE r
  /\ payloads' = Tail(payloads)
  /\ byteStage' = IF Head(payloads).marker THEN "done" ELSE "send"
  /\ UNCHANGED <<written, annexB, reached, found, fixture>>

BytesNext == Split \/ Convert \/ Arrive

BytesSpec == BytesInit /\ [][BytesNext]_bytesVars
-----------------------------------------------------------------------------
\* Those of the NAL units that are in a set, in order.
Only(nals, S) ==
  LET kept[i \in 0..Len(nals)] ==
        IF i = 0 THEN <<>>
        ELSE IF nals[i] \in S THEN Append(kept[i - 1], nals[i]) ELSE kept[i - 1]
  IN  kept[Len(nals)]

Coded(nals) == Only(nals, {nal \in NalUnits : IsVcl(nal)})
SetsOf(nals) == Only(nals, {nal \in NalUnits : IsSet(nal)})

\* The picture the decoder is given is the picture the encoder wrote: what is
\* handed on, walked again, gives the same NAL units, byte for byte, whatever
\* their lengths make of start codes, padding, prefixes and fragments, and it
\* is marked as one to begin with exactly when it has such a slice.
DecoderReadsWhatWasWritten ==
  /\ byteStage # "refused"
  /\ byteStage = "done" =>
       /\ ~rebuilt.damaged /\ payloads = <<>>
       /\ AvccNalUnits(rebuilt.data) = written /\ WellFormed(rebuilt.data)
       /\ rebuilt.idr = \E i \in DOMAIN written : TypeOf(written[i][1]) = Types.idr

\* A fixture has one picture for each slice, in order, none with two of them or
\* with a parameter set, and every parameter set is kept.
FixtureHoldsPictures ==
  byteStage # "split" =>
    /\ fixture.sets = SetsOf(written)
    /\ Len(fixture.pictures) = Len(Coded(written))
    /\ \A k \in DOMAIN fixture.pictures :
         LET p == fixture.pictures[k]
         IN  /\ Coded(p.nals) = <<Coded(written)[k]>>
             /\ SetsOf(p.nals) = <<>>
             /\ p.idr = (TypeOf(Coded(written)[k][1]) = Types.idr)

\* The two conversions lose nothing of a picture and make none up.
BytesSurvive == DecoderReadsWhatWasWritten /\ FixtureHoldsPictures
=============================================================================
