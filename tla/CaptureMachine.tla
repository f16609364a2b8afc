---------------------------- MODULE CaptureMachine ----------------------------
(***************************************************************************)
(* The client's capture: the machine that decides which input events may   *)
(* leave, the focus watcher, the sink that sends what is admitted, and the *)
(* turns of the loop they all live on.                                     *)
(*                                                                         *)
(* Everything runs on one thread.  A turn dispatches at most one input     *)
(* event and any number of focus notifications, then takes the loss, takes *)
(* the regain, and makes the window server call the machine asked for.     *)
(* The reliability layer the sink hands events to is ReliableClient; here  *)
(* it is the held set and the order in which events are given their ids.   *)
(***************************************************************************)
EXTENDS Sequences, Integers

CONSTANTS Keys,           \* the keys
          MemberOf,       \* [Keys -> the part a key has in the release combination]
          Tab,            \* the key that with a hold is command-tab
          Buttons,        \* the mouse buttons
          CaptureButton,  \* the button whose click asks for capture
          MaxMade         \* bound: transitions made within one capture

Members == {"command", "control", "alt"}
HeldCapacity == 2

ASSUME CaptureAssumption ==
  /\ MemberOf \in [Keys -> Members \cup {"none"}]
  /\ Tab \in Keys /\ MemberOf[Tab] = "none"
  /\ CaptureButton \in Buttons /\ Keys \cap Buttons = {}
  /\ MaxMade \in Nat

Controls == Keys \cup Buttons
Transition == [control : Controls, down : BOOLEAN]

VARIABLES
  state,     \* the machine's
  focused,   \* whether the machine takes this process for the one the input is for
  held,      \* presses held back while the combination may still be completed
  owed,      \* whether the button-up of the capture click is still to be swallowed
  pending,   \* the window server call the sink owes
  cursor,    \* "attached" to the mouse, "detached", or "stuck" detached by a failure
  watcher,   \* the focus watcher: where the focus is, and the two flags it raises
  step,      \* where the turn stands
  down,      \* what the reliability layer takes for held
  open,      \* whether anything has been given an id since the last ReleaseAll
  hands,     \* environment: the controls physically down
  asked,     \* history: the capture button is down for the click that asked
  made,      \* history: transitions made in this capture that are input
  sent       \* history: transitions of this capture given an id, in that order

machine == <<state, focused, held, owed>>
sink == <<pending, down, open, sent>>
vars == <<machine, sink, cursor, watcher, step, hands, asked, made>>

Init ==
  /\ state = "uncaptured" /\ focused = TRUE /\ held = <<>> /\ owed = FALSE
  /\ pending = "none" /\ down = {} /\ open = FALSE /\ sent = <<>>
  /\ cursor = "attached"
  /\ watcher = [focused |-> TRUE, loss |-> FALSE, regain |-> FALSE]
  /\ step = "event"
  /\ hands = {} /\ asked = FALSE /\ made = <<>>

(***************************************************************************)
(* The sink's part.                                                        *)
(***************************************************************************)
Folded(set, t) == IF t.down THEN set \cup {t.control} ELSE set \ {t.control}

\* Presses, then the transition that flushed them, are sent in that order.
SendFlushed(t) ==
  /\ sent' = Append(sent \o held, t)
  /\ down' = Folded(down \cup {held[i].control : i \in 1..Len(held)}, t)
  /\ open' = TRUE

\* A ReleaseAll takes the next id and empties the held set.
Release == /\ down' = {} /\ open' = FALSE /\ sent' = <<>>

(***************************************************************************)
(* The machine's part.                                                     *)
(***************************************************************************)
\* Defect: the hold survives the exit.
Exit_KeepsHold ==
  /\ state' = "releasing" /\ owed' = FALSE /\ UNCHANGED held
  /\ Release /\ pending' = "restore" /\ made' = <<>>

\* Admission closes, what was held back is dropped, and the release leaves at once.
Exit ==
  /\ state' = "releasing" /\ owed' = FALSE /\ held' = <<>>
  /\ Release /\ pending' = "restore" /\ made' = <<>>

Leave == state \in {"entering", "capturing"} /\ Exit

\* Defect: the event goes out ahead of the presses it flushes.
Flush_After(t) ==
  /\ sent' = <<t>> \o sent \o held
  /\ down' = Folded(down, t) \cup {held[i].control : i \in 1..Len(held)}
  /\ open' = TRUE
  /\ held' = <<>> /\ made' = Append(made, t)
  /\ UNCHANGED <<state, owed, pending>>

\* What was held goes out ahead of the event that ended the hold.
Flush(t) ==
  /\ SendFlushed(t)
  /\ held' = <<>> /\ made' = Append(made, t)
  /\ UNCHANGED <<state, owed, pending>>

Refuse == UNCHANGED <<state, held, owed, sink, made>>

HeldMembers == {MemberOf[held[i].control] : i \in 1..Len(held)}

\* Nothing but command opens a hold, and no member joins twice.
CanHold(k) ==
  /\ MemberOf[k] # "none" /\ MemberOf[k] \notin HeldMembers
  /\ held # <<>> \/ MemberOf[k] = "command"

Completes(k) == HeldMembers \cup {MemberOf[k]} = Members

CommandTab(t) == t.down /\ t.control = Tab /\ held # <<>>

\* One key transition: refused, the command-tab or the combination that ends
\* the capture, one more press of the gesture, or a near miss.
Key(t) ==
  \/ state # "capturing" /\ Refuse
  \/ state = "capturing" /\ CommandTab(t) /\ Exit
  \/ /\ state = "capturing" /\ ~CommandTab(t) /\ t.down /\ CanHold(t.control)
     /\ \/ Completes(t.control) /\ Exit
        \/ /\ ~Completes(t.control)
           /\ held' = Append(held, t) /\ made' = Append(made, t)
           /\ UNCHANGED <<state, owed, sink>>
  \/ /\ state = "capturing" /\ ~CommandTab(t) /\ ~(t.down /\ CanHold(t.control))
     /\ Flush(t)

Swallowed(t) == ~t.down /\ t.control = CaptureButton /\ owed
Asks(t) == state = "uncaptured" /\ t.down /\ t.control = CaptureButton

\* Defect: the state is asked before the click that is still owed its up.
Button_StateFirst(t) ==
  \/ /\ Asks(t) /\ state' = "entering" /\ owed' = TRUE /\ pending' = "detach"
     /\ UNCHANGED <<held, down, open, sent, made>>
  \/ state = "capturing" /\ Flush(t)
  \/ ~Asks(t) /\ state # "capturing" /\ Refuse

\* One button transition: the other half of the capture click, the click that
\* asks, input, or refused.
Button(t) ==
  \/ Swallowed(t) /\ owed' = FALSE /\ UNCHANGED <<state, held, sink, made>>
  \/ /\ ~Swallowed(t) /\ Asks(t)
     /\ state' = "entering" /\ owed' = TRUE /\ pending' = "detach"
     /\ UNCHANGED <<held, down, open, sent, made>>
  \/ ~Swallowed(t) /\ state = "capturing" /\ Flush(t)
  \/ ~Swallowed(t) /\ ~Asks(t) /\ state # "capturing" /\ Refuse

(***************************************************************************)
(* A turn: what AppKit dispatches.                                         *)
(***************************************************************************)
\* A control goes down or comes up under the player's hand.
Moves(t) == /\ t.down <=> t.control \notin hands
            /\ hands' = Folded(hands, t)

Dispatched == step = "event" /\ step' = "notify"

OfferKey(t) ==
  /\ Dispatched /\ Len(made) < MaxMade
  /\ t.control \in Keys /\ Moves(t) /\ Key(t)
  /\ UNCHANGED <<focused, cursor, watcher, asked>>

OfferButton(t) ==
  /\ Dispatched /\ Len(made) < MaxMade
  /\ t.control \in Buttons /\ Moves(t) /\ Button(t)
  /\ asked' = IF t.control = CaptureButton THEN Asks(t) ELSE asked
  /\ UNCHANGED <<focused, cursor, watcher>>

\* A wheel notch takes an id and leaves a hold alone; motion takes none.
OfferWheel ==
  /\ Dispatched /\ state = "capturing" /\ open' = TRUE
  /\ UNCHANGED <<machine, pending, down, sent, cursor, watcher, hands, asked, made>>

SessionFailed ==
  /\ Dispatched /\ Leave
  /\ UNCHANGED <<focused, cursor, watcher, hands, asked>>

\* AppKit posts two notifications for one switch: only the first is an edge.
Resigns ==
  /\ step \in {"event", "notify"} /\ watcher.focused
  /\ watcher' = [watcher EXCEPT !.focused = FALSE, !.loss = TRUE]
  /\ UNCHANGED <<machine, sink, cursor, step, hands, asked, made>>

Regains ==
  /\ step \in {"event", "notify"} /\ ~watcher.focused
  /\ watcher' = [watcher EXCEPT !.focused = TRUE, !.regain = TRUE]
  /\ UNCHANGED <<machine, sink, cursor, step, hands, asked, made>>

(***************************************************************************)
(* A turn: what the loop does about it.                                    *)
(***************************************************************************)
\* A loss is the machine's edge too, and exits from an entry in flight as well
\* as from a running capture.
TakeLoss ==
  /\ step \in {"event", "notify"} /\ step' = "regain"
  /\ watcher' = [watcher EXCEPT !.loss = FALSE]
  /\ IF watcher.loss /\ focused
       THEN /\ focused' = FALSE
            /\ Leave \/ (state \notin {"entering", "capturing"} /\ Refuse)
       ELSE Refuse /\ UNCHANGED focused
  /\ UNCHANGED <<cursor, hands, asked>>

TakeRegain ==
  /\ step = "regain" /\ step' = "settle"
  /\ watcher' = [watcher EXCEPT !.regain = FALSE]
  /\ focused' = (focused \/ watcher.regain)
  /\ UNCHANGED <<state, held, owed, sink, cursor, hands, asked, made>>

\* The window server is asked only when the link is not already as wanted, and
\* may refuse.  A link that could not be attached stays as it is: "stuck".
CursorDetaches == cursor' = "detached"
DetachRefused == cursor = "attached" /\ UNCHANGED cursor
CursorAttaches == cursor' = "attached"
AttachRefused == cursor # "attached" /\ cursor' = "stuck"

Entered == state' = IF state = "entering" THEN "capturing" ELSE state
EntryFailed == state' = IF state = "entering" THEN "uncaptured" ELSE state
Released == state' = IF state = "releasing" THEN "uncaptured" ELSE state

\* Defect: a restore that fails leaves the machine in its exit.
SettleCursor_Stuck ==
  /\ step = "settle" /\ step' = "event" /\ pending' = "none"
  /\ \/ pending = "none" /\ UNCHANGED <<state, cursor>>
     \/ pending = "detach" /\ CursorDetaches /\ Entered
     \/ pending = "detach" /\ DetachRefused /\ EntryFailed
     \/ pending = "restore" /\ CursorAttaches /\ Released
     \/ pending = "restore" /\ AttachRefused /\ UNCHANGED state
  /\ UNCHANGED <<focused, held, owed, down, open, sent, watcher, hands, asked, made>>

\* The call the machine asked for; a restore is reported whatever came of it.
SettleCursor ==
  /\ step = "settle" /\ step' = "event" /\ pending' = "none"
  /\ \/ pending = "none" /\ UNCHANGED <<state, cursor>>
     \/ pending = "detach" /\ CursorDetaches /\ Entered
     \/ pending = "detach" /\ DetachRefused /\ EntryFailed
     \/ pending = "restore" /\ (CursorAttaches \/ AttachRefused) /\ Released
  /\ UNCHANGED <<focused, held, owed, down, open, sent, watcher, hands, asked, made>>

\* The run's deadline: the cursor is given back and the releases go out,
\* whatever the machine was doing.
Finish ==
  /\ step = "event" /\ step' = "done"
  /\ CursorAttaches \/ AttachRefused
  /\ Release /\ UNCHANGED <<machine, pending, watcher, hands, asked, made>>

Next ==
  \/ \E t \in Transition : OfferKey(t) \/ OfferButton(t)
  \/ OfferWheel \/ SessionFailed \/ Resigns \/ Regains
  \/ TakeLoss \/ TakeRegain \/ SettleCursor \/ Finish

Spec == Init /\ [][Next]_vars
-----------------------------------------------------------------------------
\* The hold is an array of two: a third press would be written past its end.
CaptureTypeOK ==
  /\ state \in {"uncaptured", "entering", "capturing", "releasing"}
  /\ focused \in BOOLEAN /\ owed \in BOOLEAN /\ open \in BOOLEAN /\ asked \in BOOLEAN
  /\ held \in Seq(Transition) /\ Len(held) =< HeldCapacity
  /\ made \in Seq(Transition) /\ sent \in Seq(Transition)
  /\ pending \in {"none", "detach", "restore"}
  /\ cursor \in {"attached", "detached", "stuck"}
  /\ watcher \in [focused : BOOLEAN, loss : BOOLEAN, regain : BOOLEAN]
  /\ step \in {"event", "notify", "regain", "settle", "done"}
  /\ down \subseteq Controls /\ hands \subseteq Controls

\* Between a ReleaseAll and the next capture nothing takes an id and nothing is
\* believed held, so every id below a release belongs to the capture it ends.
QuietOutsideCapture ==
  /\ (state # "capturing" \/ step = "done") => ~open /\ down = {}
  /\ state # "capturing" => held = <<>>

\* Within a capture every transition the player makes is sent, once, in the
\* order it was made: what is not sent yet is exactly what is held back.
SentInTheOrderMade ==
  (state = "capturing" /\ step # "done") => made = sent \o held

\* What is held back is a prefix of the gesture: command opens it, and no member
\* of the combination, from whichever side of the keyboard, is in it twice.
HoldIsAGesture ==
  /\ held # <<>> => MemberOf[held[1].control] = "command"
  /\ \A i, j \in 1..Len(held) :
       MemberOf[held[i].control] = MemberOf[held[j].control] => i = j

\* "Half-captured is the one state that must be unreachable": whenever the
\* machine waits for the window server the sink still owes it the call, and
\* between turns it waits for nothing and the cursor is where the state says.
NeverHalfCaptured ==
  /\ state = "entering" <=> pending = "detach"
  /\ state = "releasing" <=> pending = "restore"
  /\ step = "event" => pending = "none"
  /\ step # "done" => (state = "capturing" => cursor = "detached")
  /\ state \in {"uncaptured", "entering"} => cursor # "detached"

\* In a capture the next up of the capture button is swallowed if and only if
\* it belongs to the click that asked: a shot fired is never eaten, and the
\* asking click never reaches the host, whatever ended and began in between.
ClickIsOwedExactly == state = "capturing" => (owed <=> asked)
=============================================================================
