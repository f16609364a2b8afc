------------------------------ MODULE KeyMonitor ------------------------------
(***************************************************************************)
(* The keyboard monitors of the client (macos/input-capture/keyboard.rs):  *)
(* AppKit events in, transitions of keys out.                              *)
(*                                                                         *)
(* A modifier produces no key down: its event says which key moved and     *)
(* which flags now stand, but a left and a right key share one flag, and   *)
(* the flag of caps lock is the lock.  Two monitors together see each      *)
(* event once, on one thread, with the flags of its own moment.            *)
(***************************************************************************)
EXTENDS Naturals

CONSTANTS Flags,     \* the modifier flags, but for caps lock's
          FlagOf,    \* [keys that only change flags -> their flag, or NoFlag]
          NoFlag,    \* what a key has that owns none
          LockKey,   \* CAPS_LOCK
          Letters    \* keys with a key down and a key up

ModifierKeys == DOMAIN FlagOf

ASSUME KeyAssumption ==
    /\ FlagOf \in [ModifierKeys -> Flags \cup {NoFlag}] /\ NoFlag \notin Flags
    /\ LockKey \notin ModifierKeys \cup Letters /\ ModifierKeys \cap Letters = {}

VARIABLES fingers,  \* environment: the keys physically down
          lock,     \* environment: whether the lock is on
          before,   \* history: the keys that were down when the monitors started
          tracked,  \* Modifiers.held
          told      \* history: the keys the callback was last told are down

keyVars == <<fingers, lock, before, tracked, told>>

AllKeys == ModifierKeys \cup Letters \cup {LockKey}

KeyInit ==
    /\ fingers \in SUBSET AllKeys /\ before = fingers
    /\ lock \in BOOLEAN
    /\ tracked = {} /\ told = {}

-----------------------------------------------------------------------------
Tell(k, goesDown) == told' = IF goesDown THEN told \cup {k} ELSE told \ {k}

\* Defect: the direction is read off the flag.
Apply_Trusting(k, asserted) ==
    /\ tracked' = IF asserted THEN tracked \cup {k} ELSE tracked \ {k}
    /\ Tell(k, asserted)

\* Modifiers::apply: a key believed down can only be coming up; another goes
\* down if its flag is asserted, or if it is the lock; the rest says nothing.
Apply(k, asserted) ==
    \/ k \in tracked /\ tracked' = tracked \ {k} /\ Tell(k, FALSE)
    \/ /\ k \notin tracked /\ (asserted \/ k = LockKey)
       /\ tracked' = tracked \cup {k} /\ Tell(k, TRUE)
    \/ k \notin tracked /\ ~asserted /\ k # LockKey /\ UNCHANGED <<tracked, told>>

\* deliver, of a flags-changed event; a modifier without a flag is not followed.
FlagsChanged(k, asserted) ==
    IF k \in ModifierKeys /\ FlagOf[k] = NoFlag
    THEN UNCHANGED <<tracked, told>> ELSE Apply(k, asserted)

\* deliver, of a key down or a key up; a repeat is dropped.
Typed(k, goesDown, repeat) ==
    /\ IF repeat THEN UNCHANGED told ELSE Tell(k, goesDown)
    /\ UNCHANGED tracked

-----------------------------------------------------------------------------
Moved(k) == fingers' = (fingers \ {k}) \cup ({k} \ fingers)

\* The flag as it stands once the key has moved.
MoveModifier(k) ==
    /\ Moved(k)
    /\ FlagsChanged(k, \E other \in fingers' \cap ModifierKeys : FlagOf[other] = FlagOf[k])
    /\ UNCHANGED <<lock, before>>

\* The press turns the lock, and both events carry it as it then stands.
MoveLock ==
    /\ Moved(LockKey)
    /\ lock' = IF LockKey \in fingers THEN lock ELSE ~lock
    /\ FlagsChanged(LockKey, lock')
    /\ UNCHANGED before

MoveLetter(k) == Moved(k) /\ Typed(k, k \notin fingers, FALSE) /\ UNCHANGED <<lock, before>>

\* macOS repeats a key that is held.
Repeat(k) == k \in fingers /\ Typed(k, TRUE, TRUE) /\ UNCHANGED <<fingers, lock, before>>

KeyNext ==
    \/ \E k \in ModifierKeys : MoveModifier(k)
    \/ MoveLock
    \/ \E k \in Letters : MoveLetter(k) \/ Repeat(k)

KeySpec == KeyInit /\ [][KeyNext]_keyVars

-----------------------------------------------------------------------------
Followed == AllKeys \ {k \in ModifierKeys : FlagOf[k] = NoFlag}

KeyTypeOK ==
    /\ fingers \subseteq AllKeys /\ before \subseteq AllKeys /\ lock \in BOOLEAN
    /\ tracked \subseteq Followed \ Letters /\ told \subseteq Followed

\* "A modifier that went down comes back up exactly once, whatever else was
\* held at the time" (keyboard.rs, tests): what the callback was told is what
\* is physically down, of every key the monitors saw go down, and a letter
\* already down when they started is at worst missing.  A modifier that was
\* already down is excepted: its release under its twin is taken for a press.
ModifiersMatch ==
    /\ \A k \in Followed \ before : k \in told <=> k \in fingers
    /\ \A k \in Letters : k \in told => k \in fingers
    /\ tracked = told \ Letters
=============================================================================
