-------------------------- MODULE MCCaptureMachine --------------------------
(* The input of the client on small instances.  The capture: every member   *)
(* of the combination, both command keys, tab, a key that is no part of it, *)
(* and two buttons.  The key monitor it is fed by: two pairs that share a   *)
(* flag, the lock, a key with no flag, and a letter.  The capture takes     *)
(* transitions as the hands make them, which is what the monitor is shown   *)
(* to report; one behaviour explores one of the two.                        *)
EXTENDS CaptureMachine, KeyMonitor

MCKeys == {"left command", "right command", "control", "alt", "tab"}
MCMemberOf == [k \in MCKeys |->
  CASE k \in {"left command", "right command"} -> "command"
    [] k \in {"control", "alt"} -> k
    [] OTHER -> "none"]

MCFlagOf == [k \in {"left shift", "right shift", "left option", "right option", "fn"} |->
  CASE k \in {"left shift", "right shift"} -> "shift"
    [] k \in {"left option", "right option"} -> "option"
    [] OTHER -> "no flag"]

VARIABLE part  \* which of the two moves

CaptureInit == part \in {"capture", "keys"} /\ Init /\ KeyInit
                 /\ (part = "capture" => fingers = {} /\ ~lock)

CaptureNext ==
    /\ UNCHANGED part
    /\ \/ part = "capture" /\ Next /\ UNCHANGED keyVars
       \/ part = "keys" /\ KeyNext /\ UNCHANGED vars

CaptureSpec == CaptureInit /\ [][CaptureNext]_<<part, vars, keyVars>>
=============================================================================
