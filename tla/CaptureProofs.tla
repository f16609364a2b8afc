---------------------------- MODULE CaptureProofs ----------------------------
(***************************************************************************)
(* The capture, for any keys, members and buttons and captures of any      *)
(* length: its type, what a release ends, the order in which a capture's   *)
(* transitions are sent, and the click that asks; and the key monitor      *)
(* that feeds it.                                                          *)
(***************************************************************************)
EXTENDS CaptureMachine, KeyMonitor, SequenceTheorems, TLAPS

\* A capture starts with nothing made and nothing sent.
StartsEmpty == (state # "capturing" /\ step # "done") => made = <<>> /\ sent = <<>>

\* Only members of the combination are held back.
HoldsMembers == \A i \in 1..Len(held) : MemberOf[held[i].control] \in Members

\* A click is owed an up only while the button is still down for it.
ClickIsInHand ==
  /\ owed => asked
  /\ asked => CaptureButton \in hands
  /\ state = "entering" => (owed <=> asked)

OrderInv == QuietOutsideCapture /\ StartsEmpty /\ SentInTheOrderMade
HoldInv  == HoldIsAGesture /\ HoldsMembers
ClickInv == ClickIsOwedExactly /\ ClickIsInHand

CaptureInv == CaptureTypeOK /\ OrderInv /\ HoldInv /\ NeverHalfCaptured /\ ClickInv

\* One more press of the gesture.
Holds(t) ==
  /\ t.control \in Keys
  /\ state = "capturing" /\ t.down /\ CanHold(t.control) /\ ~Completes(t.control)
  /\ held' = Append(held, t) /\ made' = Append(made, t)
  /\ UNCHANGED <<state, owed, sink>>

\* The click that asks for capture, and the up that belongs to it.
Enters == /\ state = "uncaptured" /\ state' = "entering" /\ owed' = TRUE /\ pending' = "detach"
          /\ UNCHANGED <<held, down, open, sent, made>>
Swallows(t) == Swallowed(t) /\ owed' = FALSE /\ UNCHANGED <<state, held, sink, made>>

-----------------------------------------------------------------------------
(* What one dispatched event may do. *)

LEMMA KeyOutcomes ==
  ASSUME NEW t \in Transition, t.control \in Keys, Key(t)
  PROVE  \/ Refuse
         \/ state = "capturing" /\ Exit
         \/ Holds(t)
         \/ state = "capturing" /\ Flush(t)
BY DEF Key, Holds

LEMMA ButtonOutcomes ==
  ASSUME NEW t \in Transition, Button(t)
  PROVE  \/ Refuse
         \/ Swallows(t)
         \/ Asks(t) /\ Enters
         \/ state = "capturing" /\ Flush(t)
BY DEF Button, Swallows, Enters, Asks

-----------------------------------------------------------------------------
(* Types. *)

LEMMA NothingHeld == /\ <<>> \in Seq(Transition)
                     /\ Len(<<>>) = 0 /\ Len(<<>>) =< HeldCapacity
BY EmptySeq DEF HeldCapacity

LEMMA FoldedType ==
  ASSUME NEW S \in SUBSET Controls, NEW t \in Transition
  PROVE  Folded(S, t) \in SUBSET Controls
BY DEF Folded, Transition

\* A third distinct member is the one that completes, so two is all a hold has.
LEMMA HoldFits ==
  ASSUME CaptureTypeOK, HoldInv, NEW t \in Transition, Holds(t)
  PROVE  /\ Append(held, t) \in Seq(Transition)
         /\ Len(Append(held, t)) = Len(held) + 1
         /\ Len(held) + 1 =< HeldCapacity
         /\ \A i \in 1..Len(held) : Append(held, t)[i] = held[i]
         /\ Append(held, t)[Len(held) + 1] = t
         /\ MemberOf[t.control] \in Members \ HeldMembers
<1>0. held \in Seq(Transition) /\ Len(held) =< 2
  BY DEF CaptureTypeOK, HeldCapacity
<1>1. Len(held) \in Nat
  BY <1>0, LenProperties
<1>2. /\ Append(held, t) \in Seq(Transition)
      /\ Len(Append(held, t)) = Len(held) + 1
      /\ \A i \in 1..Len(held) : Append(held, t)[i] = held[i]
      /\ Append(held, t)[Len(held) + 1] = t
  BY <1>0, AppendProperties
<1>3. MemberOf[t.control] # "none" /\ MemberOf[t.control] \notin HeldMembers
  BY DEF Holds, CanHold
<1>4. HeldMembers \cup {MemberOf[t.control]} # Members
  BY DEF Holds, Completes
<1>5. MemberOf[t.control] \in Members
  BY <1>3, CaptureAssumption DEF Holds
<1>6. ASSUME Len(held) = 2 PROVE FALSE
  <2>1. 1 \in 1..Len(held) /\ 2 \in 1..Len(held)  BY <1>6
  <2>2. /\ MemberOf[held[1].control] \in Members
        /\ MemberOf[held[2].control] \in Members
        /\ MemberOf[held[1].control] # MemberOf[held[2].control]
    BY <2>1 DEF HoldInv, HoldsMembers, HoldIsAGesture
  <2>3. /\ MemberOf[held[1].control] \in HeldMembers
        /\ MemberOf[held[2].control] \in HeldMembers
    BY <2>1 DEF HeldMembers
  <2>4. HeldMembers \subseteq Members  BY DEF HeldMembers, HoldInv, HoldsMembers
  <2> DEFINE a == MemberOf[held[1].control]
             b == MemberOf[held[2].control]
             c == MemberOf[t.control]
  <2>5. a # b /\ a # c /\ b # c /\ {a, b, c} \subseteq Members
    BY <1>3, <1>5, <2>2, <2>3
  <2> HIDE DEF a, b, c
  <2>6. {a, b, c} = Members  BY <2>5 DEF Members
  <2>7. QED  BY <1>4, <1>5, <2>3, <2>4, <2>6 DEF a, b, c
<1>7. Len(held) + 1 =< HeldCapacity
  <2> DEFINE n == Len(held)
  <2>1. n \in Nat /\ n =< 2 /\ n # 2  BY <1>0, <1>1, <1>6
  <2> HIDE DEF n
  <2>2. n + 1 =< 2  BY <2>1
  <2>3. QED  BY <2>2 DEF n, HeldCapacity
<1>8. MemberOf[t.control] \in Members \ HeldMembers  BY <1>3, <1>5
<1>9. QED  BY <1>2, <1>7, <1>8

LEMMA FlushTypes ==
  ASSUME CaptureTypeOK, NEW t \in Transition, Flush(t)
  PROVE  /\ sent \o held \in Seq(Transition)
         /\ sent' = Append(sent \o held, t) /\ sent' \in Seq(Transition)
         /\ made' = Append(made, t) /\ made' \in Seq(Transition)
         /\ held' = <<>> /\ held' \in Seq(Transition) /\ Len(held') =< HeldCapacity
         /\ down' \in SUBSET Controls /\ open' = TRUE
<1>1. sent \o held \in Seq(Transition)
  BY ConcatProperties DEF CaptureTypeOK
<1>2. down \cup {held[i].control : i \in 1..Len(held)} \in SUBSET Controls
  <2>1. \A i \in 1..Len(held) : held[i] \in Transition
    BY ElementOfSeq DEF CaptureTypeOK
  <2>2. QED  BY <2>1 DEF CaptureTypeOK, Transition
<1>3. down' \in SUBSET Controls
  BY <1>2, FoldedType DEF Flush, SendFlushed
<1>4. QED
  BY <1>1, <1>3, AppendProperties, NothingHeld DEF Flush, SendFlushed, CaptureTypeOK

LEMMA EventType ==
  ASSUME CaptureTypeOK, HoldInv, NEW t \in Transition,
         \/ Refuse
         \/ Exit
         \/ Holds(t)
         \/ Flush(t)
         \/ Swallows(t)
         \/ Enters
  PROVE  /\ state' \in {"uncaptured", "entering", "capturing", "releasing"}
         /\ owed' \in BOOLEAN /\ open' \in BOOLEAN
         /\ held' \in Seq(Transition) /\ Len(held') =< HeldCapacity
         /\ made' \in Seq(Transition) /\ sent' \in Seq(Transition)
         /\ pending' \in {"none", "detach", "restore"}
         /\ down' \subseteq Controls
<1>1. CASE Refuse  BY <1>1 DEF Refuse, sink, CaptureTypeOK
<1>2. CASE Exit  BY <1>2, NothingHeld DEF Exit, Release, CaptureTypeOK
<1>3. CASE Holds(t)
  <2>1. /\ held' \in Seq(Transition) /\ Len(held') =< HeldCapacity
    BY <1>3, HoldFits DEF Holds
  <2>2. made' \in Seq(Transition)
    BY <1>3, AppendProperties DEF Holds, CaptureTypeOK
  <2>3. QED  BY <1>3, <2>1, <2>2 DEF Holds, sink, CaptureTypeOK
<1>4. CASE Flush(t)
  <2>1. state' = state /\ owed' = owed /\ pending' = pending
    BY <1>4 DEF Flush
  <2>2. QED  BY <1>4, <2>1, FlushTypes DEF CaptureTypeOK
<1>5. CASE Swallows(t)  BY <1>5 DEF Swallows, sink, CaptureTypeOK
<1>6. CASE Enters  BY <1>6 DEF Enters, CaptureTypeOK
<1>7. QED  BY <1>1, <1>2, <1>3, <1>4, <1>5, <1>6

LEMMA TypeStep == CaptureInv /\ [Next]_vars => CaptureTypeOK'
<1> SUFFICES ASSUME CaptureInv, [Next]_vars PROVE CaptureTypeOK'
  OBVIOUS
<1>0. CaptureTypeOK /\ HoldInv  BY DEF CaptureInv
<1>1. CASE UNCHANGED vars
  BY <1>0, <1>1 DEF vars, machine, sink, CaptureTypeOK
<1>2. ASSUME NEW t \in Transition, OfferKey(t) PROVE CaptureTypeOK'
  <2>1. /\ step' = "notify" /\ hands' \in SUBSET Controls
        /\ UNCHANGED <<focused, cursor, watcher, asked>>
    BY <1>0, <1>2, FoldedType DEF OfferKey, Dispatched, Moves, CaptureTypeOK
  <2>2. Refuse \/ Exit \/ Holds(t) \/ Flush(t)
    BY <1>2, KeyOutcomes DEF OfferKey
  <2>3. QED  BY <1>0, <2>1, <2>2, EventType DEF CaptureTypeOK
<1>3. ASSUME NEW t \in Transition, OfferButton(t) PROVE CaptureTypeOK'
  <2>1. /\ step' = "notify" /\ hands' \in SUBSET Controls /\ asked' \in BOOLEAN
        /\ UNCHANGED <<focused, cursor, watcher>>
    BY <1>0, <1>3, FoldedType DEF OfferButton, Dispatched, Moves, Asks, CaptureTypeOK, Transition
  <2>2. Refuse \/ Swallows(t) \/ Enters \/ Flush(t)
    BY <1>3, ButtonOutcomes DEF OfferButton
  <2>3. QED  BY <1>0, <2>1, <2>2, EventType DEF CaptureTypeOK
<1>4. CASE OfferWheel
  BY <1>0, <1>4 DEF OfferWheel, Dispatched, machine, CaptureTypeOK
<1>5. CASE SessionFailed
  BY <1>0, <1>5, NothingHeld DEF SessionFailed, Dispatched, Leave, Exit, Release, CaptureTypeOK
<1>6. CASE Resigns \/ Regains
  <2>1. watcher' \in [focused : BOOLEAN, loss : BOOLEAN, regain : BOOLEAN]
    BY <1>0, <1>6 DEF Resigns, Regains, CaptureTypeOK
  <2>2. UNCHANGED <<machine, sink, cursor, step, hands, asked, made>>
    BY <1>6 DEF Resigns, Regains
  <2>3. QED  BY <1>0, <2>1, <2>2 DEF machine, sink, CaptureTypeOK
<1>7. CASE TakeLoss
  <2>1. /\ step' = "regain" /\ watcher' = [watcher EXCEPT !.loss = FALSE]
        /\ focused' \in BOOLEAN /\ UNCHANGED <<cursor, hands, asked>>
        /\ Exit \/ Refuse
    BY <1>0, <1>7 DEF TakeLoss, Leave, CaptureTypeOK
  <2>2. CASE Exit
    BY <1>0, <2>1, <2>2, NothingHeld DEF Exit, Release, CaptureTypeOK
  <2>3. CASE Refuse  BY <1>0, <2>1, <2>3 DEF Refuse, sink, CaptureTypeOK
  <2>4. QED  BY <2>1, <2>2, <2>3
<1>8. CASE TakeRegain
  BY <1>0, <1>8 DEF TakeRegain, sink, CaptureTypeOK
<1>9. CASE SettleCursor
  <2>1. /\ state' \in {"uncaptured", "entering", "capturing", "releasing"}
        /\ cursor' \in {"attached", "detached", "stuck"}
    BY <1>0, <1>9 DEF SettleCursor, CursorDetaches, DetachRefused, CursorAttaches,
       AttachRefused, Entered, EntryFailed, Released, CaptureTypeOK
  <2>2. QED  BY <1>0, <1>9, <2>1 DEF SettleCursor, CaptureTypeOK
<1>10. CASE Finish
  BY <1>0, <1>10, NothingHeld DEF Finish, CursorAttaches, AttachRefused, Release, machine,
     CaptureTypeOK
<1>11. QED
  BY <1>1, <1>2, <1>3, <1>4, <1>5, <1>6, <1>7, <1>8, <1>9, <1>10 DEF Next

-----------------------------------------------------------------------------
(* What a capture has made, holds back and has sent. *)

LEMMA AppendOfConcat ==
  ASSUME NEW s \in Seq(Transition), NEW h \in Seq(Transition), NEW t \in Transition
  PROVE  Append(s \o h, t) = s \o Append(h, t)
<1>1. s \o h \in Seq(Transition) /\ <<t>> \in Seq(Transition)
  BY ConcatProperties
<1>2. Append(s \o h, t) = (s \o h) \o <<t>>  BY <1>1, AppendIsConcat
<1>3. Append(h, t) = h \o <<t>>  BY AppendIsConcat
<1>4. (s \o h) \o <<t>> = s \o (h \o <<t>>)  BY <1>1, ConcatAssociative
<1>5. QED  BY <1>2, <1>3, <1>4

LEMMA EventOrder ==
  ASSUME CaptureTypeOK, OrderInv, NEW t \in Transition, step # "done", step' # "done",
         \/ Refuse
         \/ Exit
         \/ Holds(t)
         \/ state = "capturing" /\ Flush(t)
         \/ Swallows(t)
         \/ Enters
  PROVE  OrderInv'
<1>1. CASE Refuse
  BY <1>1 DEF Refuse, sink, OrderInv, QuietOutsideCapture, StartsEmpty, SentInTheOrderMade
<1>2. CASE Exit
  BY <1>2 DEF Exit, Release, OrderInv, QuietOutsideCapture, StartsEmpty, SentInTheOrderMade
<1>3. CASE Holds(t)
  <2>1. /\ state = "capturing" /\ state' = state /\ sent' = sent
        /\ held' = Append(held, t) /\ made' = Append(made, t)
    BY <1>3 DEF Holds, sink
  <2>2. made = sent \o held  BY <2>1 DEF OrderInv, SentInTheOrderMade
  <2>3. made' = sent' \o held'
    BY <2>1, <2>2, AppendOfConcat DEF CaptureTypeOK
  <2>4. QED  BY <2>1, <2>3 DEF OrderInv, QuietOutsideCapture, StartsEmpty, SentInTheOrderMade
<1>4. CASE state = "capturing" /\ Flush(t)
  <2>1. made = sent \o held  BY <1>4 DEF OrderInv, SentInTheOrderMade
  <2>2. made' = sent' \o held'
    BY <1>4, <2>1, FlushTypes, ConcatEmptySeq
  <2>3. state' = "capturing"  BY <1>4 DEF Flush
  <2>4. QED  BY <2>2, <2>3 DEF OrderInv, QuietOutsideCapture, StartsEmpty, SentInTheOrderMade
<1>5. CASE Swallows(t)
  BY <1>5 DEF Swallows, sink, OrderInv, QuietOutsideCapture, StartsEmpty, SentInTheOrderMade
<1>6. CASE Enters
  BY <1>6 DEF Enters, OrderInv, QuietOutsideCapture, StartsEmpty, SentInTheOrderMade
<1>7. QED  BY <1>1, <1>2, <1>3, <1>4, <1>5, <1>6

LEMMA OrderStep == CaptureInv /\ [Next]_vars => OrderInv'
<1> SUFFICES ASSUME CaptureInv, [Next]_vars PROVE OrderInv'
  OBVIOUS
<1>0. CaptureTypeOK /\ OrderInv  BY DEF CaptureInv
<1> USE DEF QuietOutsideCapture, StartsEmpty, SentInTheOrderMade
<1>1. CASE UNCHANGED vars
  BY <1>0, <1>1 DEF vars, machine, sink, OrderInv
<1>2. ASSUME NEW t \in Transition, OfferKey(t) PROVE OrderInv'
  BY <1>0, <1>2, KeyOutcomes, EventOrder DEF OfferKey, Dispatched
<1>3. ASSUME NEW t \in Transition, OfferButton(t) PROVE OrderInv'
  BY <1>0, <1>3, ButtonOutcomes, EventOrder DEF OfferButton, Dispatched
<1>4. CASE OfferWheel
  BY <1>0, <1>4 DEF OfferWheel, Dispatched, machine, OrderInv
<1>5. CASE SessionFailed
  BY <1>0, <1>5 DEF SessionFailed, Dispatched, Leave, Exit, Release, OrderInv
<1>6. CASE Resigns \/ Regains
  <2>1. UNCHANGED <<machine, sink, step, made>>  BY <1>6 DEF Resigns, Regains
  <2>2. QED  BY <1>0, <2>1 DEF machine, sink, OrderInv
<1>7. CASE TakeLoss
  <2>1. step # "done" /\ step' = "regain" /\ (Exit \/ Refuse)
    BY <1>7 DEF TakeLoss, Leave
  <2>2. CASE Exit  BY <1>0, <2>1, <2>2 DEF Exit, Release, OrderInv
  <2>3. CASE Refuse  BY <1>0, <2>1, <2>3 DEF Refuse, sink, OrderInv
  <2>4. QED  BY <2>1, <2>2, <2>3
<1>8. CASE TakeRegain
  BY <1>0, <1>8 DEF TakeRegain, sink, OrderInv
<1>9. CASE SettleCursor
  <2>1. /\ step # "done" /\ step' = "event" /\ UNCHANGED <<held, down, open, sent, made>>
        /\ state = "capturing" => state' = "capturing"
    BY <1>9 DEF SettleCursor, Entered, EntryFailed, Released
  <2>2. CASE state = "capturing"  BY <1>0, <2>1, <2>2 DEF OrderInv
  <2>3. CASE state # "capturing"
    <3>1. made = <<>> /\ sent = <<>> /\ held = <<>> /\ ~open /\ down = {}
      BY <1>0, <2>1, <2>3 DEF OrderInv
    <3>2. <<>> = <<>> \o <<>>  BY ConcatEmptySeq, EmptySeq
    <3>3. QED  BY <2>1, <3>1, <3>2 DEF OrderInv
  <2>4. QED  BY <2>2, <2>3
<1>10. CASE Finish
  BY <1>0, <1>10 DEF Finish, Release, machine, OrderInv
<1>11. QED
  BY <1>1, <1>2, <1>3, <1>4, <1>5, <1>6, <1>7, <1>8, <1>9, <1>10 DEF Next

-----------------------------------------------------------------------------
(* What is held back. *)

LEMMA HoldIsEmpty == ASSUME held' = <<>> PROVE HoldInv'
BY DEF HoldInv, HoldIsAGesture, HoldsMembers

LEMMA HoldIsSame == ASSUME HoldInv, held' = held PROVE HoldInv'
BY DEF HoldInv, HoldIsAGesture, HoldsMembers

LEMMA HoldGrows ==
  ASSUME CaptureTypeOK, HoldInv, NEW t \in Transition, Holds(t)
  PROVE  HoldInv'
<1> DEFINE n == Len(held)
<1>1. /\ held' = Append(held, t) /\ Len(held') = n + 1
      /\ \A i \in 1..n : held'[i] = held[i]
      /\ held'[n + 1] = t
      /\ MemberOf[t.control] \in Members \ HeldMembers
  BY HoldFits DEF Holds
<1>2. n \in Nat  BY LenProperties DEF CaptureTypeOK
<1>3. \A i \in 1..n : /\ MemberOf[held'[i].control] = MemberOf[held[i].control]
                      /\ MemberOf[held'[i].control] \in Members
                      /\ MemberOf[held'[i].control] # MemberOf[t.control]
  <2>1. \A i \in 1..n : MemberOf[held[i].control] \in HeldMembers  BY DEF HeldMembers
  <2>2. \A i \in 1..n : MemberOf[held[i].control] \in Members  BY DEF HoldInv, HoldsMembers
  <2>3. QED  BY <1>1, <2>1, <2>2
<1>4. MemberOf[held'[1].control] = "command"
  <2>1. CASE n = 0
    <3>1. held = <<>>  BY <2>1, EmptySeq DEF CaptureTypeOK
    <3>2. MemberOf[t.control] = "command"  BY <3>1 DEF Holds, CanHold
    <3>3. QED  BY <1>1, <2>1, <3>2
  <2>2. CASE n # 0
    <3>1. 1 \in 1..n /\ held # <<>>  BY <1>2, <2>2, EmptySeq DEF CaptureTypeOK
    <3>2. QED  BY <1>1, <3>1 DEF HoldInv, HoldIsAGesture
  <2>3. QED  BY <2>1, <2>2
<1>5. \A i, j \in 1..n :
        MemberOf[held'[i].control] = MemberOf[held'[j].control] => i = j
  BY <1>3 DEF HoldInv, HoldIsAGesture
<1> HIDE DEF n
<1>6. HoldIsAGesture'
  <2>1. ASSUME NEW i \in 1..(n + 1), NEW j \in 1..(n + 1),
               MemberOf[held'[i].control] = MemberOf[held'[j].control]
        PROVE  i = j
    <3>1. (i \in 1..n \/ i = n + 1) /\ (j \in 1..n \/ j = n + 1)  BY <1>2
    <3>2. QED  BY <1>1, <1>3, <1>5, <2>1, <3>1
  <2>2. QED  BY <1>1, <1>4, <2>1 DEF HoldIsAGesture
<1>7. HoldsMembers'
  <2>1. ASSUME NEW i \in 1..(n + 1) PROVE MemberOf[held'[i].control] \in Members
    <3>1. i \in 1..n \/ i = n + 1  BY <1>2
    <3>2. QED  BY <1>1, <1>3, <3>1
  <2>2. QED  BY <1>1, <2>1 DEF HoldsMembers
<1>8. QED  BY <1>6, <1>7 DEF HoldInv

LEMMA HoldStep == CaptureInv /\ [Next]_vars => HoldInv'
<1> SUFFICES ASSUME CaptureInv, [Next]_vars PROVE HoldInv'
  OBVIOUS
<1>0. CaptureTypeOK /\ HoldInv  BY DEF CaptureInv
<1>1. ASSUME NEW t \in Transition, OfferKey(t) PROVE HoldInv'
  <2>1. held' = held \/ held' = <<>> \/ Holds(t)
    BY <1>1, KeyOutcomes DEF OfferKey, Refuse, Exit, Flush
  <2>2. QED  BY <1>0, <2>1, HoldIsEmpty, HoldIsSame, HoldGrows
<1>2. ASSUME NEW t \in Transition, OfferButton(t) PROVE HoldInv'
  <2>1. held' = held \/ held' = <<>>
    BY <1>2, ButtonOutcomes DEF OfferButton, Refuse, Swallows, Enters, Flush
  <2>2. QED  BY <1>0, <2>1, HoldIsEmpty, HoldIsSame
<1>3. CASE SessionFailed \/ TakeLoss
  <2>1. held' = held \/ held' = <<>>
    BY <1>3 DEF SessionFailed, TakeLoss, Leave, Exit, Refuse
  <2>2. QED  BY <1>0, <2>1, HoldIsEmpty, HoldIsSame
<1>4. CASE \/ UNCHANGED vars \/ OfferWheel \/ Resigns \/ Regains \/ TakeRegain
           \/ SettleCursor \/ Finish
  <2>1. held' = held
    BY <1>4 DEF vars, machine, OfferWheel, Resigns, Regains, TakeRegain, SettleCursor, Finish
  <2>2. QED  BY <1>0, <2>1, HoldIsSame
<1>5. QED  BY <1>1, <1>2, <1>3, <1>4 DEF Next

-----------------------------------------------------------------------------
(* What the machine waits for, and the click that asks. *)

LEMMA HalfStep == CaptureInv /\ [Next]_vars => NeverHalfCaptured'
<1> SUFFICES ASSUME CaptureInv, [Next]_vars PROVE NeverHalfCaptured'
  OBVIOUS
<1>0. NeverHalfCaptured  BY DEF CaptureInv
<1> USE DEF NeverHalfCaptured
<1>1. ASSUME NEW t \in Transition, OfferKey(t) PROVE NeverHalfCaptured'
  <2>1. /\ step = "event" /\ step' = "notify" /\ cursor' = cursor
        /\ \/ state' = "releasing" /\ pending' = "restore"
           \/ state' = state /\ pending' = pending
    BY <1>1, KeyOutcomes DEF OfferKey, Dispatched, Refuse, Exit, Holds, Flush, sink
  <2>2. QED  BY <1>0, <2>1
<1>2. ASSUME NEW t \in Transition, OfferButton(t) PROVE NeverHalfCaptured'
  <2>1. /\ step = "event" /\ step' = "notify" /\ cursor' = cursor
        /\ \/ state = "uncaptured" /\ state' = "entering" /\ pending' = "detach"
           \/ state' = state /\ pending' = pending
    BY <1>2, ButtonOutcomes
    DEF OfferButton, Dispatched, Refuse, Swallows, Enters, Flush, sink
  <2>2. QED  BY <1>0, <2>1
<1>3. CASE SessionFailed \/ TakeLoss
  <2>1. /\ step \in {"event", "notify"} /\ step' \in {"notify", "regain"} /\ cursor' = cursor
        /\ \/ state' = "releasing" /\ pending' = "restore"
           \/ state' = state /\ pending' = pending
    BY <1>3 DEF SessionFailed, TakeLoss, Dispatched, Leave, Exit, Refuse, sink
  <2>2. QED  BY <1>0, <2>1
<1>4. CASE UNCHANGED vars \/ OfferWheel \/ Resigns \/ Regains \/ TakeRegain
  <2>1. /\ state' = state /\ pending' = pending /\ cursor' = cursor
        /\ step' = step \/ step' \in {"notify", "settle"}
        /\ step' = "done" => step = "done"
        /\ step = "done" => step' = "done"
    BY <1>4 DEF vars, machine, sink, OfferWheel, Dispatched, Resigns, Regains, TakeRegain
  <2>2. QED  BY <1>0, <2>1
<1>5. CASE SettleCursor
  BY <1>0, <1>5 DEF SettleCursor, CursorDetaches, DetachRefused, CursorAttaches, AttachRefused,
                    Entered, EntryFailed, Released
<1>6. CASE Finish
  BY <1>0, <1>6 DEF Finish, CursorAttaches, AttachRefused, machine
<1>7. QED  BY <1>1, <1>2, <1>3, <1>4, <1>5, <1>6 DEF Next

LEMMA ClickStep == CaptureInv /\ [Next]_vars => ClickInv'
<1> SUFFICES ASSUME CaptureInv, [Next]_vars PROVE ClickInv'
  OBVIOUS
<1>0. CaptureTypeOK /\ ClickInv  BY DEF CaptureInv
<1> USE DEF ClickInv, ClickIsOwedExactly, ClickIsInHand
<1>1. ASSUME NEW t \in Transition, OfferKey(t) PROVE ClickInv'
  <2>1. t.control # CaptureButton /\ hands' = Folded(hands, t) /\ asked' = asked
    BY <1>1, CaptureAssumption DEF OfferKey, Moves
  <2>2. CaptureButton \in hands => CaptureButton \in hands'  BY <2>1 DEF Folded
  <2>3. \/ state' = "releasing" /\ owed' = FALSE
        \/ state' = state /\ owed' = owed
    BY <1>1, KeyOutcomes DEF OfferKey, Refuse, Exit, Holds, Flush
  <2>4. QED  BY <1>0, <2>1, <2>2, <2>3 DEF CaptureTypeOK
<1>2. ASSUME NEW t \in Transition, OfferButton(t) PROVE ClickInv'
  <2>1. /\ t.down <=> t.control \notin hands
        /\ hands' = Folded(hands, t)
        /\ asked' = IF t.control = CaptureButton THEN Asks(t) ELSE asked
    BY <1>2 DEF OfferButton, Moves
  <2>2. Button(t)  BY <1>2 DEF OfferButton
  <2>3. CASE t.control # CaptureButton
    <3>1. state' = state /\ owed' = owed /\ asked' = asked
      BY <2>1, <2>2, <2>3 DEF Button, Swallowed, Asks, Flush, Refuse
    <3>2. CaptureButton \in hands => CaptureButton \in hands'  BY <2>1, <2>3 DEF Folded
    <3>3. QED  BY <1>0, <3>1, <3>2
  <2>4. CASE t.control = CaptureButton /\ t.down
    <3>1. ~owed  BY <1>0, <2>1, <2>4
    <3>2. CaptureButton \in hands'  BY <2>1, <2>4 DEF Folded
    <3>3. CASE state = "uncaptured"
      <4>1. Asks(t) /\ ~Swallowed(t)  BY <2>4, <3>3 DEF Asks, Swallowed
      <4>2. owed' = TRUE /\ state' = "entering"  BY <2>2, <3>3, <4>1 DEF Button
      <4>3. asked' = TRUE  BY <2>1, <2>4, <4>1
      <4>4. QED  BY <3>2, <4>2, <4>3
    <3>4. CASE state # "uncaptured"
      <4>1. ~Asks(t) /\ ~Swallowed(t)  BY <2>4, <3>4 DEF Asks, Swallowed
      <4>2. owed' = owed /\ state' = state
        BY <2>2, <4>1 DEF Button, Flush, Refuse
      <4>3. asked' = FALSE  BY <2>1, <2>4, <4>1
      <4>4. QED  BY <3>1, <3>2, <4>2, <4>3
    <3>5. QED  BY <3>3, <3>4
  <2>5. CASE t.control = CaptureButton /\ ~t.down
    <3>1. ~Asks(t)  BY <2>5 DEF Asks
    <3>2. asked' = FALSE  BY <2>1, <2>5, <3>1
    <3>3. state' = state /\ owed' = FALSE
      <4>1. CASE owed
        BY <2>2, <2>5, <4>1 DEF Button, Swallowed
      <4>2. CASE ~owed
        <5>1. ~Swallowed(t)  BY <4>2 DEF Swallowed
        <5>2. state' = state /\ owed' = owed  BY <2>2, <3>1, <5>1 DEF Button, Flush, Refuse
        <5>3. QED  BY <1>0, <4>2, <5>2 DEF CaptureTypeOK
      <4>3. QED  BY <4>1, <4>2
    <3>4. QED  BY <3>2, <3>3
  <2>6. QED  BY <2>3, <2>4, <2>5
<1>3. CASE SessionFailed \/ TakeLoss
  <2>1. /\ UNCHANGED <<hands, asked>>
        /\ \/ state' = "releasing" /\ owed' = FALSE
           \/ state' = state /\ owed' = owed
    BY <1>3 DEF SessionFailed, TakeLoss, Leave, Exit, Refuse
  <2>2. QED  BY <1>0, <2>1
<1>4. CASE UNCHANGED vars \/ OfferWheel \/ Resigns \/ Regains \/ TakeRegain \/ Finish
  <2>1. state' = state /\ owed' = owed /\ hands' = hands /\ asked' = asked
    BY <1>4 DEF vars, machine, OfferWheel, Resigns, Regains, TakeRegain, Finish
  <2>2. QED  BY <1>0, <2>1
<1>5. CASE SettleCursor
  <2>1. /\ UNCHANGED <<owed, hands, asked>>
        /\ state' = state \/ state' = "uncaptured" \/ state = "entering"
    BY <1>5 DEF SettleCursor, Entered, EntryFailed, Released
  <2>2. QED  BY <1>0, <2>1
<1>6. QED  BY <1>1, <1>2, <1>3, <1>4, <1>5 DEF Next

-----------------------------------------------------------------------------
LEMMA Init_CaptureInv == Init => CaptureInv
<1> SUFFICES ASSUME Init PROVE CaptureInv
  OBVIOUS
<1>1. CaptureTypeOK  BY NothingHeld DEF Init, CaptureTypeOK
<1>2. OrderInv
  BY DEF Init, OrderInv, QuietOutsideCapture, StartsEmpty, SentInTheOrderMade
<1>3. HoldInv
  <2>1. Len(held) = 0 /\ held = <<>>  BY NothingHeld DEF Init
  <2>2. QED  BY <2>1 DEF HoldInv, HoldIsAGesture, HoldsMembers
<1>4. NeverHalfCaptured  BY DEF Init, NeverHalfCaptured
<1>5. ClickInv  BY DEF Init, ClickInv, ClickIsOwedExactly, ClickIsInHand
<1>6. QED  BY <1>1, <1>2, <1>3, <1>4, <1>5 DEF CaptureInv

THEOREM CaptureInvariance == Spec => []CaptureInv
<1>1. CaptureInv /\ [Next]_vars => CaptureInv'
  BY TypeStep, OrderStep, HoldStep, HalfStep, ClickStep DEF CaptureInv
<1>2. QED  BY <1>1, Init_CaptureInv, PTL DEF Spec

\* The types of the capture; the hold never outgrows its array.
THEOREM CaptureTypeCorrect == Spec => []CaptureTypeOK
<1>1. CaptureInv => CaptureTypeOK  BY DEF CaptureInv
<1>2. QED  BY <1>1, CaptureInvariance, PTL

\* Nothing takes an id between a ReleaseAll and the next capture.
THEOREM CaptureIsQuietOutside == Spec => []QuietOutsideCapture
<1>1. CaptureInv => QuietOutsideCapture  BY DEF CaptureInv, OrderInv
<1>2. QED  BY <1>1, CaptureInvariance, PTL

\* What a player does within a capture is sent once and in order.
THEOREM CaptureSendsInOrder == Spec => []SentInTheOrderMade
<1>1. CaptureInv => SentInTheOrderMade  BY DEF CaptureInv, OrderInv
<1>2. QED  BY <1>1, CaptureInvariance, PTL

\* What is held back is always a prefix of the release gesture.
THEOREM CaptureHoldsAGesture == Spec => []HoldIsAGesture
<1>1. CaptureInv => HoldIsAGesture  BY DEF CaptureInv, HoldInv
<1>2. QED  BY <1>1, CaptureInvariance, PTL

\* The machine never waits for a call nobody owes it.
THEOREM CaptureIsNeverHalf == Spec => []NeverHalfCaptured
<1>1. CaptureInv => NeverHalfCaptured  BY DEF CaptureInv
<1>2. QED  BY <1>1, CaptureInvariance, PTL

\* Exactly the click that asks is kept from the host.
THEOREM CaptureSwallowsItsClick == Spec => []ClickIsOwedExactly
<1>1. CaptureInv => ClickIsOwedExactly  BY DEF CaptureInv, ClickInv
<1>2. QED  BY <1>1, CaptureInvariance, PTL

-----------------------------------------------------------------------------
(* The keyboard monitors that feed the capture. *)

KeyInv == KeyTypeOK /\ ModifiersMatch

LEMMA KeyStarts == KeyInit => KeyInv
BY DEF KeyInit, KeyInv, KeyTypeOK, ModifiersMatch

\* A key that moves is told as it moved, if the monitors may be trusted with it.
LEMMA ApplyTellsTheMove ==
  ASSUME KeyInv, NEW k \in Followed \ Letters, NEW asserted \in BOOLEAN,
         Moved(k), UNCHANGED before, lock' \in BOOLEAN,
         k \notin fingers => asserted \/ k = LockKey,
         Apply(k, asserted)
  PROVE  KeyInv'
<1>1. k \in AllKeys /\ k \notin Letters  BY DEF Followed
<1>2. tracked = told \ Letters  BY DEF KeyInv, ModifiersMatch
<1>3. \/ k \in told /\ tracked' = tracked \ {k} /\ told' = told \ {k}
      \/ k \notin told /\ (asserted \/ k = LockKey)
           /\ tracked' = tracked \cup {k} /\ told' = told \cup {k}
      \/ k \notin told /\ ~asserted /\ k # LockKey /\ tracked' = tracked /\ told' = told
  BY <1>1, <1>2 DEF Apply, Tell
<1>4. fingers' = (fingers \ {k}) \cup ({k} \ fingers)  BY DEF Moved
<1>5. KeyTypeOK'  BY <1>1, <1>3, <1>4 DEF KeyInv, KeyTypeOK
<1>6. tracked' = told' \ Letters  BY <1>1, <1>2, <1>3
<1>7. ASSUME NEW j \in Followed \ before PROVE j \in told' <=> j \in fingers'
  <2>1. j \in told <=> j \in fingers  BY <1>7 DEF KeyInv, ModifiersMatch
  <2>2. CASE j # k  BY <1>3, <1>4, <2>1, <2>2
  <2>3. CASE j = k  BY <1>3, <1>4, <2>1, <2>3
  <2>4. QED  BY <2>2, <2>3
<1>8. ASSUME NEW j \in Letters, j \in told' PROVE j \in fingers'
  <2>1. j # k  BY <1>1, <1>8
  <2>2. j \in told => j \in fingers  BY <1>8 DEF KeyInv, ModifiersMatch
  <2>3. QED  BY <1>3, <1>4, <1>8, <2>1, <2>2
<1>9. QED  BY <1>5, <1>6, <1>7, <1>8 DEF KeyInv, ModifiersMatch

LEMMA MoveModifierKeepsMatch ==
  ASSUME KeyInv, NEW k \in ModifierKeys, MoveModifier(k)
  PROVE  KeyInv'
<1> DEFINE asserted == \E other \in fingers' \cap ModifierKeys : FlagOf[other] = FlagOf[k]
<1>1. /\ Moved(k) /\ FlagsChanged(k, asserted) /\ UNCHANGED <<lock, before>>
      /\ fingers' = (fingers \ {k}) \cup ({k} \ fingers)
  BY DEF MoveModifier, Moved
<1>2. k \notin fingers => asserted  BY <1>1
<1> HIDE DEF asserted
<1>3. k \in AllKeys /\ k \notin Letters  BY KeyAssumption DEF AllKeys
<1>4. CASE FlagOf[k] = NoFlag
  <2>1. UNCHANGED <<tracked, told>>  BY <1>1, <1>4 DEF FlagsChanged
  <2>2. k \notin Followed  BY <1>4 DEF Followed
  <2>3. \A j \in Followed : j \in fingers' <=> j \in fingers  BY <1>1, <2>2
  <2>4. Letters \subseteq Followed  BY KeyAssumption DEF Followed, AllKeys
  <2>5. QED
    BY <1>1, <1>3, <2>1, <2>3, <2>4 DEF KeyInv, KeyTypeOK, ModifiersMatch
<1>5. CASE FlagOf[k] # NoFlag
  <2>1. k \in Followed \ Letters  BY <1>3, <1>5 DEF Followed
  <2>2. Apply(k, asserted)  BY <1>1, <1>5 DEF FlagsChanged
  <2>3. asserted \in BOOLEAN  BY DEF asserted
  <2>4. lock' \in BOOLEAN /\ UNCHANGED before  BY <1>1 DEF KeyInv, KeyTypeOK
  <2>5. QED  BY <1>1, <1>2, <2>1, <2>2, <2>3, <2>4, ApplyTellsTheMove
<1>6. QED  BY <1>4, <1>5

LEMMA MoveLockKeepsMatch ==
  ASSUME KeyInv, MoveLock
  PROVE  KeyInv'
<1>1. LockKey \in Followed \ Letters /\ LockKey \notin ModifierKeys
  BY KeyAssumption DEF Followed, AllKeys
<1>2. lock' \in BOOLEAN  BY DEF MoveLock, KeyInv, KeyTypeOK
<1>3. Moved(LockKey) /\ Apply(LockKey, lock') /\ UNCHANGED before
  BY <1>1 DEF MoveLock, FlagsChanged
<1>4. QED  BY <1>1, <1>2, <1>3, ApplyTellsTheMove

LEMMA LetterKeepsMatch ==
  ASSUME KeyInv, NEW k \in Letters, MoveLetter(k) \/ Repeat(k)
  PROVE  KeyInv'
<1>1. k \in Followed  BY KeyAssumption DEF Followed, AllKeys
<1>2. CASE Repeat(k)
  BY <1>2 DEF Repeat, Typed, KeyInv, KeyTypeOK, ModifiersMatch
<1>3. CASE MoveLetter(k)
  <2>1. /\ fingers' = (fingers \ {k}) \cup ({k} \ fingers)
        /\ told' = IF k \notin fingers THEN told \cup {k} ELSE told \ {k}
        /\ UNCHANGED <<tracked, lock, before>>
    BY <1>3 DEF MoveLetter, Moved, Typed, Tell
  <2>2. KeyTypeOK'  BY <1>1, <2>1 DEF KeyInv, KeyTypeOK, Followed
  <2>3. ModifiersMatch'  BY <2>1 DEF KeyInv, ModifiersMatch
  <2>4. QED  BY <2>2, <2>3 DEF KeyInv
<1>4. QED  BY <1>2, <1>3

LEMMA KeyStep == KeyInv /\ [KeyNext]_keyVars => KeyInv'
<1> SUFFICES ASSUME KeyInv, [KeyNext]_keyVars PROVE KeyInv'
  OBVIOUS
<1>1. CASE UNCHANGED keyVars
  BY <1>1 DEF keyVars, KeyInv, KeyTypeOK, ModifiersMatch
<1>2. CASE KeyNext
  BY <1>2, MoveModifierKeepsMatch, MoveLockKeepsMatch, LetterKeepsMatch DEF KeyNext
<1>3. QED  BY <1>1, <1>2

\* What the callback was told is what is physically down, for any keys, any
\* sharing of flags between them and any order of presses and releases.
THEOREM KeysAlwaysMatch == KeySpec => []ModifiersMatch
<1>1. KeySpec => []KeyInv  BY KeyStarts, KeyStep, PTL DEF KeySpec
<1>2. KeyInv => ModifiersMatch  BY DEF KeyInv
<1>3. QED  BY <1>1, <1>2, PTL
=============================================================================
