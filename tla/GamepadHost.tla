----------------------------- MODULE GamepadHost -----------------------------
(***************************************************************************)
(* The host's controller slots: which network state reaches a virtual      *)
(* controller, and the neutral state that precedes every destruction, with *)
(* the idle sweep of the loop around it.                                   *)
(*                                                                         *)
(* `device` is what the commands emitted so far make of each virtual       *)
(* controller; `count` is history: the sender's unwrapped number of the    *)
(* state the controller last took in its present life.                     *)
(***************************************************************************)
EXTENDS Integers

CONSTANTS Slots,           \* controller slots (0..3 in the code)
          PadGenerations,  \* session generations (u32)
          Modulus,         \* sequence numbers are counted modulo this (2^32)
          ControlIds,      \* ids of attaches and detaches, which the host only echoes
          Counts           \* the sender's unwrapped numbers of its states

ASSUME GamepadAssumption ==
  /\ Modulus \in Nat \ {0} /\ Modulus % 2 = 0
  /\ PadGenerations \subseteq Nat /\ 0 \in PadGenerations
  /\ Counts \subseteq Nat

Unset == -1

\* A state carries its number on the wire, and as history the number itself.
Control == [kind : {"attach", "detach"}, id : ControlIds, slot : Slots,
            generation : PadGenerations]
State   == [kind : {"state"}, slot : Slots, generation : PadGenerations,
            sequence : 0..(Modulus - 1), shows : {"neutral", "live"}, count : Counts]
PadMessage == Control \cup State

VARIABLES running,   \* whether the loop runs
          slots,     \* [Slots -> what the host keeps of a slot]
          active,    \* whether an idle deadline is running
          device,    \* [Slots -> the virtual controller]
          count      \* history: [Slots -> Nat \cup {Unset}]

padHostVars == <<running, slots, active, device, count>>

EmptySlot == [attached |-> FALSE, generation |-> 0, sequence |-> Unset]

\* A controller shows "fresh" until it takes a state.  `misused` records a
\* command no virtual controller can be given.
NoDevice == [exists |-> FALSE, generation |-> 0, shows |-> "fresh", misused |-> FALSE]

PadHostInit ==
  /\ running = TRUE
  /\ slots = [s \in Slots |-> EmptySlot]
  /\ active = FALSE
  /\ device = [s \in Slots |-> NoDevice]
  /\ count = [s \in Slots |-> Unset]

(***************************************************************************)
(* The commands of the virtual-device boundary.                            *)
(***************************************************************************)
Create(d, g) ==
  [exists |-> TRUE, generation |-> g, shows |-> "fresh", misused |-> d.misused \/ d.exists]

SubmitState(d, g, what) ==
  [d EXCEPT !.shows = what, !.misused = @ \/ ~d.exists \/ d.generation # g]

Destroy(d, g) ==
  [d EXCEPT !.exists = FALSE,
            !.misused = @ \/ ~d.exists \/ d.generation # g \/ d.shows # "neutral"]

\* Defect: the controller is destroyed with whatever it last showed.
Neutralized_Bare(d, g) == Destroy(d, g)

\* The neutral state, then the destruction.
Neutralized(d, g) == Destroy(SubmitState(d, g, "neutral"), g)

(***************************************************************************)
(* The slot operations: one disjunct per outcome.                          *)
(***************************************************************************)
\* Defect: sequence numbers are compared as plain numbers.
Newer_Unwrapped(candidate, previous) == candidate > previous

\* Whether a sequence number is ahead of another, by less than half the circle.
Newer(candidate, previous) ==
  LET distance == (candidate - previous) % Modulus
  IN  distance # 0 /\ 2 * distance < Modulus

\* Refused, by any of the operations: nothing changes, the deadline included.
Refuse == UNCHANGED padHostVars

AttachStale(m) == slots[m.slot].attached /\ slots[m.slot].generation = m.generation

\* A slot attached under another generation is neutralized and destroyed first.
Attach(m) ==
  /\ m.kind = "attach"
  /\ IF AttachStale(m) THEN Refuse
     ELSE /\ device' = [device EXCEPT ![m.slot] =
               Create(IF slots[m.slot].attached
                        THEN Neutralized(@, slots[m.slot].generation) ELSE @,
                      m.generation)]
          /\ slots' = [slots EXCEPT ![m.slot] =
               [attached |-> TRUE, generation |-> m.generation, sequence |-> Unset]]
          /\ count' = [count EXCEPT ![m.slot] = Unset]
          /\ active' = TRUE

Accepts(m) ==
  /\ slots[m.slot].attached
  /\ slots[m.slot].generation = m.generation
  /\ slots[m.slot].sequence # Unset => Newer(m.sequence, slots[m.slot].sequence)

\* Unattached, of another generation, or not newer than the last: refused.
Submit(m) ==
  /\ m.kind = "state"
  /\ IF ~Accepts(m) THEN Refuse
     ELSE /\ slots' = [slots EXCEPT ![m.slot].sequence = m.sequence]
          /\ device' = [device EXCEPT ![m.slot] = SubmitState(@, m.generation, m.shows)]
          /\ count' = [count EXCEPT ![m.slot] = m.count]
          /\ active' = TRUE

Neutralizes(s, g) == slots[s].attached /\ slots[s].generation = g

Detach(m) ==
  /\ m.kind = "detach"
  /\ IF ~Neutralizes(m.slot, m.generation) THEN Refuse
     ELSE /\ device' = [device EXCEPT ![m.slot] = Neutralized(@, m.generation)]
          /\ slots' = [slots EXCEPT ![m.slot] = EmptySlot]
          /\ count' = [count EXCEPT ![m.slot] = Unset]
          /\ active' = TRUE

\* Every attached slot is neutralized, destroyed and emptied.
NeutralizeAll ==
  /\ device' = [s \in Slots |->
       IF slots[s].attached THEN Neutralized(device[s], slots[s].generation) ELSE device[s]]
  /\ slots' = [s \in Slots |-> EmptySlot]
  /\ count' = [s \in Slots |-> Unset]

(***************************************************************************)
(* The loop.                                                               *)
(***************************************************************************)
\* Defect: a state that is refused stops the deadline.
ReceivePad_Disarms(m) ==
  /\ running /\ UNCHANGED running
  /\ \/ Attach(m) \/ Detach(m) \/ (Submit(m) /\ Accepts(m))
     \/ /\ m.kind = "state" /\ ~Accepts(m)
        /\ active' = FALSE /\ UNCHANGED <<slots, device, count>>

ReceivePad(m) ==
  /\ running /\ UNCHANGED running
  /\ Attach(m) \/ Submit(m) \/ Detach(m)

\* No message has been applied for as long as the loop waits.
ExpireIdle ==
  /\ running /\ UNCHANGED running
  /\ \E s \in Slots : slots[s].attached
  /\ active
  /\ active' = FALSE
  /\ NeutralizeAll

\* The loop's deadline: everything is neutralized once more before the bridge
\* to the virtual controllers is closed.
Stop ==
  /\ running
  /\ running' = FALSE
  /\ NeutralizeAll
  /\ UNCHANGED active

\* The socket fails under the loop: the process ends, and the bridge it leaves
\* behind is told to quit and disposes of every controller as it stands.
Abort ==
  /\ running
  /\ running' = FALSE
  /\ device' = [s \in Slots |-> [device[s] EXCEPT !.exists = FALSE]]
  /\ slots' = [s \in Slots |-> EmptySlot]
  /\ count' = [s \in Slots |-> Unset]
  /\ UNCHANGED active

PadHostNext == (\E m \in PadMessage : ReceivePad(m)) \/ ExpireIdle \/ Stop \/ Abort

PadHostSpec == PadHostInit /\ [][PadHostNext]_padHostVars
-----------------------------------------------------------------------------
PadHostTypeOK ==
  /\ slots \in [Slots -> [attached : BOOLEAN, generation : PadGenerations,
                          sequence : 0..(Modulus - 1) \cup {Unset}]]
  /\ active \in BOOLEAN
  /\ device \in [Slots -> [exists : BOOLEAN, generation : PadGenerations,
                           shows : {"fresh", "neutral", "live"}, misused : BOOLEAN]]
  /\ count \in [Slots -> Counts \cup {Unset}]
  /\ running \in BOOLEAN

\* The commands make sense to a virtual controller in the order they are
\* emitted: none is created twice, driven or destroyed when it is not there or
\* under another generation, or destroyed while it shows anything but neutral.
DevicesAreDrivenInOrder ==
  \A s \in Slots :
    /\ ~device[s].misused
    /\ device[s].exists = slots[s].attached
    /\ slots[s].attached => device[s].generation = slots[s].generation

\* A controller the host has attached always has an idle deadline running: one
\* without could hold a stick down for as long as the process lives.
AttachedIsWatched == (\E s \in Slots : slots[s].attached) => (running /\ active)
=============================================================================
