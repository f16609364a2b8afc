------------------------------- MODULE MCFrames -------------------------------
(* The client's frames on small instances: their packets through a window   *)
(* of four with two units of room, perhaps across the wrap of the sequence  *)
(* number; their bytes, from the encoder's to the decoder's; the marks of   *)
(* three frames through a queue and a ring of two; and the phase loop over  *)
(* one period.  They share no state (the telemetry only watches, the phase  *)
(* loop reads what it kept), so one behaviour explores one of them.         *)
EXTENDS MCMediaLink, Telemetry, PhaseLoop, PictureBytes

VARIABLE part  \* which of the four moves

MCTypes == [slice |-> 1, idr |-> 2, sei |-> 3, sps |-> 4, pps |-> 5, aud |-> 6, fu |-> 7]

\* NAL units of a datagram less one byte, of exactly one, of one byte more, and
\* of more bytes than one digit of a length can say; with zeros in them, and a
\* start code escaped.
Body(header, n) ==
    [i \in 1..n |-> IF i = 1 THEN header ELSE IF i = n THEN 9
                    ELSE <<0, 0, 3, 1>>[(i % 4) + 1]]
MCNalUnits == {<<12, 9>>, <<5>>, <<6, 1>>, Body(11, Capacity - 1), Body(9, Capacity),
               Body(26, Capacity + 1), Body(17, Radix + 2)}

FramesInit ==
    /\ part \in {"packets", "marks", "phase", "bytes"}
    /\ Init /\ TelemetryInit /\ PhaseInit
    /\ BytesInit
    /\ part # "packets" => base = Min(MCStarts)
    /\ part # "bytes" => written = <<<<5>>>> /\ annexB = Written(written, <<3>>, 0)
    /\ part # "phase" => phase = Min(Onsets) /\ scatter = Min(Scatters)

FramesNext ==
    /\ UNCHANGED part
    /\ \/ part = "packets" /\ Next /\ UNCHANGED <<telemetryVars, phaseVars, bytesVars>>
       \/ part = "marks" /\ TelemetryNext /\ UNCHANGED <<vars, phaseVars, bytesVars>>
       \/ part = "phase" /\ PhaseNext /\ UNCHANGED <<vars, telemetryVars, bytesVars>>
       \/ part = "bytes" /\ BytesNext /\ UNCHANGED <<vars, telemetryVars, phaseVars>>

FramesSpec == FramesInit /\ [][FramesNext]_<<part, vars, telemetryVars, phaseVars, bytesVars>>
=============================================================================
