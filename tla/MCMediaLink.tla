----------------------------- MODULE MCMediaLink -----------------------------
(* A window of four, two units of room, and a stream that may start at the  *)
(* wrap of the sequence number.                                             *)
EXTENDS MediaLink

MCShapes == {<<"whole">>, <<"whole", "start", "end">>, <<"start", "middle", "end">>,
             <<"start", "end", "start", "end">>, <<"whole", "whole", "whole">>}
MCStarts == {0, SeqModulus - 3}
==============================================================================
