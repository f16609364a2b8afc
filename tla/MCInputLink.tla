---------------------------- MODULE MCInputLink ----------------------------
(* Small instances of InputLink. *)
EXTENDS InputLink

MCEventIds    == 0..(MaxEvents - 1)
MCGenerations == 0..MaxEvents
=============================================================================
