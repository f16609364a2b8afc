---------------------------- MODULE InputProtocol ----------------------------
(***************************************************************************)
(* The input messages a client and a host exchange, reduced to what either *)
(* end's state machine tells apart.                                        *)
(*                                                                         *)
(* A key slot and a mouse button are treated identically by both ends (a   *)
(* bit of the held set that an event sets or clears and a snapshot         *)
(* describes), so both are a member of Controls.  Motion and Heartbeat     *)
(* carry no id and leave both machines' state alone, so they are one kind, *)
(* "beat".  "pad" is a gamepad attach or detach, "other" what a host       *)
(* ignores without an id (Ack, GamepadState, GamepadFeedback).             *)
(***************************************************************************)
EXTENDS Integers

CONSTANTS Controls,     \* key slots and buttons
          EventIds,     \* the ids a message may carry (u64 in the code)
          Generations   \* the snapshot generations a message may carry (u32)

ASSUME ProtocolAssumption == /\ EventIds \subseteq Nat
                             /\ Generations \subseteq Nat

ControlEvent == [kind : {"control"}, id : EventIds, control : Controls, down : BOOLEAN]
WheelEvent   == [kind : {"wheel"}, id : EventIds]
ReleaseAll   == [kind : {"release"}, id : EventIds]
PadEvent     == [kind : {"pad"}, id : EventIds]
Snapshot     == [kind : {"snapshot"}, generation : Generations, held : SUBSET Controls]
Bare         == [kind : {"beat", "other"}]

\* The messages that carry an id: they are retransmitted until acknowledged
\* and the host deduplicates on the id.
Reliable == ControlEvent \cup WheelEvent \cup ReleaseAll \cup PadEvent

Message == Reliable \cup Snapshot \cup Bare
=============================================================================
