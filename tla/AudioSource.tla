------------------------------ MODULE AudioSource ------------------------------
(***************************************************************************)
(* The sound the host sends (crates/audio-codec/src/e2e_sender.rs): one    *)
(* thread drains the loopback endpoint, accounts for the device position   *)
(* of every packet (windows/audio-capture/src/accounting.rs), cuts it into *)
(* frames the codec takes, encodes, numbers and sends them.                *)
(*                                                                         *)
(* The endpoint is the platform's: the next packet starts where the last   *)
(* ended, or further on (the engine lost data), or before it (a stream     *)
(* that restarted, or a packet whose release was refused and that comes    *)
(* again).  Rates, distributions, and the counts of flags and of late      *)
(* wakeups are measurements nothing else reads, and are left out.          *)
(***************************************************************************)
EXTENDS Integers

CONSTANTS CodecSamples,    \* samples of a frame the codec takes (240)
          PacketSizes,     \* sizes of the packets the endpoint may deliver
          Skips,           \* how far from its place a packet may start
          FirstPositions,  \* where a stream may start
          StampCircle,     \* size of the circle of timestamps (2^32)
          NumberCircle,    \* size of the circle of sequence numbers (2^16)
          FirstStamp, FirstNumber,  \* where the packetizer starts
          MaxCaptured,     \* bound: packets captured
          MaxErrors        \* bound: errors of the endpoint

ASSUME SourceAssumption ==
  /\ CodecSamples \in Nat \ {0}
  /\ PacketSizes \subseteq Nat \ {0}
  /\ Skips \subseteq Int /\ FirstPositions \subseteq Nat
  /\ StampCircle \in Nat /\ StampCircle > CodecSamples
  /\ NumberCircle \in Nat /\ NumberCircle > 1
  /\ FirstStamp \in 0..(StampCircle - 1) /\ FirstNumber \in 0..(NumberCircle - 1)
  /\ MaxCaptured \in Nat /\ MaxErrors \in Nat

Unknown == -1   \* Option::None

VARIABLES loop,        \* where the thread is in its turn
          expectedAt,  \* expected_next: where the next packet should start
          totals,      \* Totals: what the endpoint delivered and what it did not
          carried,     \* Counts: what became of it
          toEncode,    \* frames of the packet in hand not yet encoded
          packetizer,  \* its sequence number and its timestamp
          errors,      \* buffer_errors
          wire,        \* datagrams the socket took
          skipped      \* history: samples of the packets that could not be read

soundVars == <<loop, expectedAt, totals, carried, toEncode, packetizer, errors, wire, skipped>>

SourceInit ==
  /\ loop = "waiting"
  /\ expectedAt = Unknown
  /\ totals = [packets |-> 0, frames |-> 0, first |-> 0, last |-> 0,
               gaps |-> 0, gapFrames |-> 0, rewinds |-> 0, rewindFrames |-> 0]
  /\ carried = [encoded |-> 0, sent |-> 0, residue |-> 0, unreadable |-> 0,
                encodeFailures |-> 0, sendFailures |-> 0, steps |-> 0, exact |-> 0]
  /\ toEncode = 0
  /\ packetizer = [number |-> FirstNumber, stamp |-> FirstStamp]
  /\ errors = 0
  /\ wire = {}
  /\ skipped = 0

(***************************************************************************)
(* The endpoint.                                                           *)
(***************************************************************************)
Starts == IF expectedAt = Unknown THEN FirstPositions
          ELSE {expectedAt + s : s \in Skips} \cap Nat

\* The wait ends, by the event or by its deadline.
Wake ==
  /\ loop = "waiting"
  /\ loop' = "draining"
  /\ UNCHANGED <<expectedAt, totals, carried, toEncode, packetizer, errors, wire, skipped>>

\* Nothing is left to drain.
Drained ==
  /\ loop = "draining"
  /\ loop' = "waiting"
  /\ UNCHANGED <<expectedAt, totals, carried, toEncode, packetizer, errors, wire, skipped>>

\* GetBuffer is refused: the drain ends.
BufferError ==
  /\ loop = "draining" /\ errors < MaxErrors
  /\ loop' = "waiting" /\ errors' = errors + 1
  /\ UNCHANGED <<expectedAt, totals, carried, toEncode, packetizer, wire, skipped>>

(***************************************************************************)
(* Accounting::record.                                                     *)
(***************************************************************************)
\* Defect: what the position went back by is added to what is missing.
Record_RewindIsGap(at, frames) ==
  LET off == IF expectedAt = Unknown THEN 0 ELSE at - expectedAt
  IN  /\ totals' = [totals EXCEPT
           !.packets = @ + 1, !.frames = @ + frames,
           !.first = IF totals.packets = 0 THEN at ELSE @, !.last = at,
           !.gaps = @ + (IF off # 0 THEN 1 ELSE 0),
           !.gapFrames = @ + (IF off > 0 THEN off ELSE -off)]
      /\ expectedAt' = at + frames

\* A packet away from its place is a gap or a rewind of a known size.
Record(at, frames) ==
  LET off == IF expectedAt = Unknown THEN 0 ELSE at - expectedAt
  IN  /\ totals' = [totals EXCEPT
           !.packets = @ + 1, !.frames = @ + frames,
           !.first = IF totals.packets = 0 THEN at ELSE @, !.last = at,
           !.gaps = @ + (IF off > 0 THEN 1 ELSE 0),
           !.gapFrames = @ + (IF off > 0 THEN off ELSE 0),
           !.rewinds = @ + (IF off < 0 THEN 1 ELSE 0),
           !.rewindFrames = @ + (IF off < 0 THEN -off ELSE 0)]
      /\ expectedAt' = at + frames

(***************************************************************************)
(* Carrier::carry.                                                         *)
(***************************************************************************)
\* A packet that is silent or can be read as floats is cut into whole frames;
\* what is left over is counted and never carried into the next packet.
TakePacket(at, frames) ==
  /\ loop = "draining" /\ totals.packets < MaxCaptured
  /\ loop' = "carrying"
  /\ Record(at, frames)
  /\ toEncode' = frames \div CodecSamples
  /\ carried' = [carried EXCEPT !.residue = @ + (frames % CodecSamples)]
  /\ UNCHANGED <<packetizer, errors, wire, skipped>>

TakeUnreadable(at, frames) ==
  /\ loop = "draining" /\ totals.packets < MaxCaptured
  /\ loop' = "carrying"
  /\ Record(at, frames)
  /\ carried' = [carried EXCEPT !.unreadable = @ + 1]
  /\ skipped' = skipped + frames
  /\ UNCHANGED <<toEncode, packetizer, errors, wire>>

EncodeFails ==
  /\ loop = "carrying" /\ toEncode > 0
  /\ toEncode' = toEncode - 1
  /\ carried' = [carried EXCEPT !.encodeFailures = @ + 1]
  /\ UNCHANGED <<loop, expectedAt, totals, packetizer, errors, wire, skipped>>

\* OpusPacketizer::next moves both counters on, once its checks have passed.
Advanced == [number |-> (packetizer.number + 1) % NumberCircle,
             stamp  |-> (packetizer.stamp + CodecSamples) % StampCircle]

\* Defect: the counters move before the checks.
PacketRefused_Advances ==
  /\ loop = "carrying" /\ toEncode > 0
  /\ toEncode' = toEncode - 1
  /\ carried' = [carried EXCEPT !.encoded = @ + 1, !.sendFailures = @ + 1]
  /\ packetizer' = Advanced
  /\ UNCHANGED <<loop, expectedAt, totals, errors, wire, skipped>>

\* The encoder returned nothing, or more than a datagram holds.
PacketRefused ==
  /\ loop = "carrying" /\ toEncode > 0
  /\ toEncode' = toEncode - 1
  /\ carried' = [carried EXCEPT !.encoded = @ + 1, !.sendFailures = @ + 1]
  /\ UNCHANGED <<loop, expectedAt, totals, packetizer, errors, wire, skipped>>

\* Where the first sample of the frame in hand was captured.
CapturedAt == totals.last + CodecSamples *
                ((expectedAt - totals.last) \div CodecSamples - toEncode)

\* What a datagram says, and for the properties which step of the counters it
\* is and where its frame was captured.
Datagram == [number |-> packetizer.number, stamp |-> packetizer.stamp,
             step |-> carried.steps, at |-> CapturedAt]

\* The frame is numbered and handed to the socket, which may refuse it.
SendFrame(taken) ==
  /\ loop = "carrying" /\ toEncode > 0
  /\ toEncode' = toEncode - 1
  /\ packetizer' = Advanced
  /\ carried' = [carried EXCEPT
       !.encoded = @ + 1, !.steps = @ + 1,
       !.exact = @ + (IF (Advanced.stamp - packetizer.stamp) % StampCircle = CodecSamples
                        THEN 1 ELSE 0),
       !.sent = @ + (IF taken THEN 1 ELSE 0),
       !.sendFailures = @ + (IF taken THEN 0 ELSE 1)]
  /\ wire' = IF taken THEN wire \cup {Datagram} ELSE wire
  /\ UNCHANGED <<loop, expectedAt, totals, errors, skipped>>

(***************************************************************************)
(* The rest of the turn.                                                   *)
(***************************************************************************)
\* The engine's buffer is released once the packet has been carried; a refusal
\* ends the drain, the packet being sent all the same.
Release(refused) ==
  /\ loop = "carrying" /\ toEncode = 0
  /\ refused => errors < MaxErrors
  /\ errors' = errors + (IF refused THEN 1 ELSE 0)
  /\ loop' = IF refused THEN "waiting" ELSE "draining"
  /\ UNCHANGED <<expectedAt, totals, carried, toEncode, packetizer, wire, skipped>>

\* The deadline of the run is looked at between two turns.
StopSource ==
  /\ loop = "waiting"
  /\ loop' = "stopped"
  /\ UNCHANGED <<expectedAt, totals, carried, toEncode, packetizer, errors, wire, skipped>>

SourceNext ==
  \/ Wake \/ Drained \/ BufferError
  \/ \E at \in Starts, frames \in PacketSizes : TakePacket(at, frames) \/ TakeUnreadable(at, frames)
  \/ EncodeFails \/ PacketRefused
  \/ \E taken \in BOOLEAN : SendFrame(taken)
  \/ \E refused \in BOOLEAN : Release(refused)
  \/ StopSource

SourceSpec == SourceInit /\ [][SourceNext]_soundVars
-----------------------------------------------------------------------------
TotalsType == [packets : Nat, frames : Nat, first : Nat, last : Nat,
               gaps : Nat, gapFrames : Nat, rewinds : Nat, rewindFrames : Nat]
CarriedType == [encoded : Nat, sent : Nat, residue : Nat, unreadable : Nat,
                encodeFailures : Nat, sendFailures : Nat, steps : Nat, exact : Nat]
DatagramType == [number : 0..(NumberCircle - 1), stamp : 0..(StampCircle - 1),
                 step : Nat, at : Int]

SourceTypeOK ==
  /\ loop \in {"waiting", "draining", "carrying", "stopped"}
  /\ expectedAt \in Nat \cup {Unknown}
  /\ totals \in TotalsType /\ carried \in CarriedType
  /\ toEncode \in Nat /\ errors \in Nat /\ skipped \in Nat
  /\ packetizer \in [number : 0..(NumberCircle - 1), stamp : 0..(StampCircle - 1)]
  /\ wire \subseteq DatagramType

\* The device's positions are accounted for to the frame: where the next packet
\* is expected is where the first one started, plus what was delivered and what
\* was reported missing, less what was reported gone back over.
PositionsBalance ==
  expectedAt # Unknown =>
    totals.first + totals.frames + totals.gapFrames = expectedAt + totals.rewindFrames

\* Every sample the endpoint delivered was encoded, or is in hand, or left by
\* one of three exits that are counted apart: the captured and the encoded
\* samples differ by exactly those (the comment at e2e_sender.rs:197).
SamplesLeaveCounted ==
  totals.frames = CodecSamples * (carried.encoded + carried.encodeFailures + toEncode)
                    + carried.residue + skipped

\* What the source reports adds up, from the device's position to the socket.
CaptureIsAccounted ==
  /\ PositionsBalance
  /\ SamplesLeaveCounted
  /\ carried.encoded = carried.sent + carried.sendFailures

\* Nothing was lost before the counters moved.
Unbroken == /\ totals.gaps = 0 /\ totals.rewinds = 0
            /\ carried.residue = 0 /\ carried.unreadable = 0
            /\ carried.encodeFailures = 0 /\ carried.encoded = carried.steps

\* Number and timestamp move together, a frame at a time, whatever fails on the
\* way: a frame the socket refused leaves its hole in both, one that was never
\* numbered leaves none, and as long as every sample was, a timestamp is the
\* place in the captured sound ("the timestamp is a sample counter", opus.rs:11).
StampsCountSamples ==
  /\ packetizer.stamp = (FirstStamp + CodecSamples * carried.steps) % StampCircle
  /\ packetizer.number = (FirstNumber + carried.steps) % NumberCircle
  /\ carried.exact = carried.steps
  /\ \A d \in wire :
       /\ d.step < carried.steps
       /\ d.stamp = (FirstStamp + CodecSamples * d.step) % StampCircle
       /\ d.number = (FirstNumber + d.step) % NumberCircle
       /\ Unbroken => d.at = totals.first + CodecSamples * d.step

\* The sound sent is the sound captured: what is missing left by a counted exit,
\* and what went out says where it belongs.
SoundIsAccounted == CaptureIsAccounted /\ StampsCountSamples
=============================================================================
