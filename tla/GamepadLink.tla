----------------------------- MODULE GamepadLink -----------------------------
(***************************************************************************)
(* The controller sender and the host joined by UDP: attach and detach are *)
(* repeated until acknowledged, states are sent once.  A sender process    *)
(* ends and another may follow under a higher generation.                  *)
(*                                                                         *)
(* A datagram may arrive at any later time, any number of times, or never; *)
(* but a state is not held back past half the circle of sequence numbers.  *)
(* Deadlines may pass and the socket or the device may fail at any time.   *)
(***************************************************************************)
EXTENDS GamepadHost

CONSTANTS Slot,        \* the slot the senders are started with
          MaxSends,    \* bound: datagrams of one sender process
          MaxRecovers  \* bound: times a process finds its device again

ASSUME LinkAssumption ==
  /\ Slot \in Slots /\ MaxSends \in Nat /\ MaxRecovers \in Nat
  /\ 0..MaxSends \subseteq Counts
  /\ 1..(MaxRecovers + 2) \subseteq ControlIds

VARIABLES phase,       \* where the sender process stands
          mine,        \* its generation
          attachId,    \* id of its last attach
          sent,        \* datagrams it has sent
          network,     \* datagrams sent by every process
          acks         \* ids acknowledged to this process's socket

senderVars == <<phase, mine, attachId, sent>>
linkVars == <<network, acks>>
padVars == <<padHostVars, senderVars, linkVars>>

Gone == phase \in {"done", "failed"}
Waiting == phase \in {"attach", "reattach", "detach"}

PadInit ==
  /\ PadHostInit
  /\ phase = "attach" /\ mine \in PadGenerations \ {0} /\ attachId = 1 /\ sent = 0
  /\ network = {} /\ acks = {}

\* The detach has a fixed id of its own, whatever ids the attaches have used.
DetachId == 2

Wire(n) == n % Modulus

ControlMessage ==
  [kind |-> IF phase = "detach" THEN "detach" ELSE "attach",
   id |-> IF phase = "detach" THEN DetachId ELSE attachId,
   slot |-> Slot, generation |-> mine]

StateMessage(what) ==
  [kind |-> "state", slot |-> Slot, generation |-> mine,
   sequence |-> Wire(sent), shows |-> what, count |-> sent]

Send(m) == network' = network \cup {m} /\ sent < MaxSends /\ sent' = sent + 1

(***************************************************************************)
(* The sender.                                                             *)
(***************************************************************************)
\* Send, or send again, the attach or detach being waited for.
SendControl ==
  /\ Waiting
  /\ Send(ControlMessage)
  /\ UNCHANGED <<padHostVars, phase, mine, attachId, acks>>

\* An acknowledgement of the id waited for is read from the socket.
ControlAcked ==
  /\ Waiting /\ ControlMessage \in network
  /\ ControlMessage.id \in acks
  /\ phase' = IF phase = "detach" THEN "done" ELSE "run"
  /\ UNCHANGED <<padHostVars, mine, attachId, sent, linkVars>>

SendState ==
  /\ phase = "run"
  /\ Send(StateMessage("live"))
  /\ UNCHANGED <<padHostVars, phase, mine, attachId, acks>>

\* The device failed and was found again.
Recover ==
  /\ phase = "run"
  /\ attachId =< MaxRecovers
  /\ phase' = "reattach" /\ attachId' = attachId + 1
  /\ UNCHANGED <<padHostVars, mine, sent, linkVars>>

\* The run is over: a neutral state, then the detach.
Finish ==
  /\ phase = "run"
  /\ Send(StateMessage("neutral"))
  /\ phase' = "detach"
  /\ UNCHANGED <<padHostVars, mine, attachId, acks>>

\* The socket refused a datagram, no acknowledgement came before the deadline,
\* or the device was not found again.
Fail ==
  /\ ~Gone
  /\ phase' = "failed"
  /\ UNCHANGED <<padHostVars, mine, attachId, sent, linkVars>>

\* A new process with a socket of its own and a higher generation.
RestartSender ==
  /\ Gone
  /\ \E g \in PadGenerations : g > mine /\ mine' = g
  /\ phase' = "attach" /\ attachId' = 1 /\ sent' = 0
  /\ acks' = {}
  /\ UNCHANGED <<padHostVars, network>>

(***************************************************************************)
(* The host: every control message is acknowledged, whatever came of it.   *)
(***************************************************************************)
InTime(m) ==
  \A n \in network :
    (n.kind = "state" /\ n.generation = m.generation) => 2 * (n.count - m.count) =< Modulus

DeliverPad(m) ==
  /\ m.kind = "state" => InTime(m)
  /\ ReceivePad(m)
  /\ acks' = IF m.kind # "state" /\ m.generation = mine THEN acks \cup {m.id} ELSE acks
  /\ UNCHANGED <<senderVars, network>>

HostTurn == (ExpireIdle \/ Stop \/ Abort) /\ UNCHANGED <<senderVars, linkVars>>

SenderNext ==
  SendControl \/ ControlAcked \/ SendState \/ Recover \/ Finish \/ Fail \/ RestartSender

PadNext == SenderNext \/ (\E m \in network : DeliverPad(m)) \/ HostTurn

PadSpec == PadInit /\ [][PadNext]_padVars

\* With no sender left nothing keeps renewing the idle deadline, so the sweep
\* comes: only a message that is applied renews it, and what is still in the
\* network is finite.
PadFairness == WF_padVars(Gone /\ ExpireIdle /\ UNCHANGED <<senderVars, linkVars>>)

PadFairSpec == PadSpec /\ PadFairness
-----------------------------------------------------------------------------
LinkTypeOK ==
  /\ PadHostTypeOK
  /\ phase \in {"attach", "run", "reattach", "detach", "done", "failed"}
  /\ mine \in PadGenerations
  /\ attachId \in 1..(MaxRecovers + 1)
  /\ sent \in 0..MaxSends
  /\ network \subseteq PadMessage
  /\ acks \subseteq ControlIds

\* Within one life of a virtual controller the states it shows are ever newer,
\* in the order the sender made them, across a wrap of the sequence number.
NewestStateWins ==
  [][\A s \in Slots :
       (count[s] # Unset /\ count'[s] # Unset) => count'[s] >= count[s]]_padVars

\* A controller whose sender has gone is destroyed sooner or later, and again
\* if late datagrams of a dead sender attach it anew.
NoControllerOutlivesItsSender ==
  <>[]Gone => []<>(\A s \in Slots : ~device[s].exists)
=============================================================================
