----------------------------- MODULE MCAudioLink -----------------------------
(***************************************************************************)
(* Two streams of four packets, numbered across the wrap, one of them with *)
(* a frame off the grid.                                                   *)
(***************************************************************************)
EXTENDS AudioLink

MCStreams == {<<0, 2, 4, 6>>, <<0, 2, 5, 6>>}
=============================================================================
