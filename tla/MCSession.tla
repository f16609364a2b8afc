------------------------------ MODULE MCSession ------------------------------
(* The two halves of a client session on small instances: the control       *)
(* channel with two connections and a table of one, and a run of the client *)
(* with a few units and refreshes.  They share no state after the           *)
(* acknowledgement, so one behaviour explores one of them.                  *)
EXTENDS ControlPlane, ClientRun

VARIABLE part  \* which of the two moves

SessionInit == part \in {"control", "run"} /\ Init /\ RunInit

SessionNext ==
    /\ UNCHANGED part
    /\ \/ part = "control" /\ Next /\ UNCHANGED runVars
       \/ part = "run" /\ RunNext /\ UNCHANGED vars

SessionSpec == SessionInit /\ [][SessionNext]_<<part, vars, runVars>> /\ Fairness /\ RunFairness
=============================================================================
