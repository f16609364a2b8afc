----------------------------- MODULE MCHostState -----------------------------
(* The host.  Its input against every datagram of two sessions over a few   *)
(* ids; the word array its window is stored in, fed any sequence of ids:    *)
(* three words of two bits, so that every slide crosses a boundary; the     *)
(* sound it sends; the pictures it encodes and sends, and the screen they   *)
(* are captured from; and its controllers: one slot, sender processes of up *)
(* to two generations, and enough datagrams for the sequence number to      *)
(* wrap.  They share no state, so one behaviour explores one of them.       *)
EXTENDS HostState, DedupBits, AudioSource, VideoHost, ScreenCapture, GamepadLink

VARIABLE part  \* which of them moves

MCEventIds    == 0..4
MCWordIds     == 0..14
MCGenerations == 0..1
MCSkips == {-2, 0, 1}

MCPadGenerations == 0..2
MCCounts == 0..MaxSends
MCControlIds == 1..(MaxRecovers + 2)

Init == /\ part \in {"host", "words", "sound", "pictures", "screen", "pads"}
        /\ HostInit /\ SourceInit /\ VideoInit /\ ScreenInit /\ PadInit
        /\ BitsInit
        /\ part # "host" => session = CHOOSE s \in Sessions : TRUE
        /\ part # "pads" => mine = 1

\* The ways a part ends.
Stopped ==
  \/ part = "sound" /\ loop = "stopped"
  \/ part = "pictures" /\ submitter = "ended"
  \/ part = "screen" /\ answer \in {"error", "lost"}
  \/ part = "pads" /\ ~running /\ Gone

Next ==
  /\ UNCHANGED part
  /\ \/ /\ part = "host" /\ HostNext
        /\ UNCHANGED <<bitsVars, soundVars, videoVars, screenVars, padVars>>
     \/ /\ part = "words" /\ BitsNext
        /\ UNCHANGED <<hostVars, soundVars, videoVars, screenVars, padVars>>
     \/ /\ part = "sound" /\ SourceNext
        /\ UNCHANGED <<hostVars, bitsVars, videoVars, screenVars, padVars>>
     \/ /\ part = "pictures" /\ VideoNext
        /\ UNCHANGED <<hostVars, bitsVars, soundVars, screenVars, padVars>>
     \/ /\ part = "screen" /\ ScreenNext
        /\ UNCHANGED <<hostVars, bitsVars, soundVars, videoVars, padVars>>
     \/ /\ part = "pads" /\ PadNext
        /\ UNCHANGED <<hostVars, bitsVars, soundVars, videoVars, screenVars>>
     \/ Stopped /\ UNCHANGED <<hostVars, bitsVars, soundVars, videoVars, screenVars, padVars>>

\* The fairness of the pictures and of the pads, each in its own part: nothing
\* of the pads can be asked of them before a sender has gone.
Fairness ==
  /\ WF_videoVars(part = "pictures" /\ SubmitNext)
  /\ WF_videoVars(part = "pictures" /\ CompleteNext)
  /\ PadFairness

Spec ==
  /\ Init /\ Fairness
  /\ [][Next]_<<part, bitsVars, hostVars, soundVars, videoVars, screenVars, padVars>>
=============================================================================
