--------------------------- MODULE InputLinkProofs ---------------------------
(***************************************************************************)
(* The input path, for every window, every set of ids and every bound.     *)
(* First the deduplication window; then the host fed any datagrams of any  *)
(* sessions; then client and host over a network that loses, duplicates    *)
(* and reorders, and the promise they keep together.                       *)
(***************************************************************************)
EXTENDS InputLink, WellFoundedInduction, TLAPS

-----------------------------------------------------------------------------
(* What recording an id does to a deduplication window, for every width. *)

\* The lowest slot that is not set exists and is the one Frontier names.
LEMMA FrontierIsLowest ==
  ASSUME NEW low \in Nat, NEW ids \in SUBSET Nat,
         \A i \in ids : i < low + Window
  PROVE  LET n == Frontier(low, ids)
         IN  /\ n \in low..(low + Window)
             /\ n \notin ids
             /\ \A i \in low..(n - 1) : i \in ids
<1> DEFINE T == {n \in low..(low + Window) : n \notin ids}
<1>1. Window \in Nat \ {0}  BY DedupAssumption
<1>2. T \subseteq Nat /\ T # {}
  <2>1. low + Window \in T  BY <1>1
  <2>2. QED  BY <1>1, <2>1
<1>3. PICK n \in T : \A m \in T : ~(<<m, n>> \in OpToRel(<, Nat))
  BY <1>2, NatLessThanWellFounded, WFMin
<1>4. \A i \in low..(n - 1) : i \in ids
  <2>1. SUFFICES ASSUME NEW i \in low..(n - 1), i \notin ids PROVE FALSE
    OBVIOUS
  <2>2. i \in T /\ i < n
    <3>1. n \in low..(low + Window)  OBVIOUS
    <3>2. i \in low..(low + Window) /\ i < n  BY <1>1, <3>1
    <3>3. QED  BY <2>1, <3>2
  <2>3. <<i, n>> \in OpToRel(<, Nat)  BY <1>2, <2>2 DEF OpToRel
  <2>4. QED  BY <1>3, <2>2, <2>3
<1>5. \E n0 \in low..(low + Window) :
        n0 \notin ids /\ \A i \in low..(n0 - 1) : i \in ids
  BY <1>4
<1>6. QED  BY <1>5 DEF Frontier

\* A bounded, non-empty set of naturals has a greatest element, Max.
LEMMA MaxFacts ==
  ASSUME NEW S \in SUBSET Nat, S # {}, NEW bound \in Nat, \A i \in S : i =< bound
  PROVE  Max(S) \in S /\ \A i \in S : i =< Max(S)
<1> DEFINE T == {n \in Nat : bound - n \in S}
<1>1. T # {}
  <2>1. PICK i \in S : TRUE  OBVIOUS
  <2>2. bound - i \in Nat /\ bound - (bound - i) = i  BY <2>1
  <2>3. bound - i \in T  BY <2>2
  <2>4. QED  BY <2>3
<1>2. PICK n \in T : \A m \in T : ~(<<m, n>> \in OpToRel(<, Nat))
  BY <1>1, NatLessThanWellFounded, WFMin
<1>3. ASSUME NEW i \in S PROVE i =< bound - n
  <2>1. bound - i \in Nat /\ bound - (bound - i) = i  BY <1>3
  <2>2. bound - i \in T  BY <2>1
  <2>3. ~(bound - i < n)
    BY <1>2, <2>1, <2>2 DEF OpToRel
  <2>4. QED  BY <2>1, <2>3
<1>4. bound - n \in S /\ \A i \in S : bound - n >= i
  BY <1>2, <1>3
<1>5. \E x \in S : \A y \in S : x >= y  BY <1>4
<1>6. Max(S) \in S /\ \A i \in S : Max(S) >= i  BY <1>5 DEF Max
<1>7. QED  BY <1>6

\* Where the window slides to: never backwards, and just far enough.
LEMMA SlidFacts ==
  ASSUME NEW d \in DedupType, NEW id \in Nat, ~Knows(d, id)
  PROVE  LET low == Slid(d, id)
         IN  /\ low \in Nat /\ low =< id /\ id < low + Window
             /\ d.base # None => d.base =< low
             /\ \A i \in d.applied : i < low + Window
  BY DedupAssumption DEF DedupType, Knows, Slid, Floor, None

\* Recording an id keeps the window well formed, knows the id, and forgets no
\* id it knew: `mark` errs only towards "already applied".
LEMMA MarkFacts ==
  ASSUME NEW d \in DedupType, NEW id \in Nat
  PROVE  /\ Mark(d, id) \in DedupType
         /\ Mark(d, id).base # None
         /\ Knows(Mark(d, id), id)
         /\ \A j \in Nat : Knows(d, j) => Knows(Mark(d, id), j)
<1>1. CASE Knows(d, id)
  BY <1>1 DEF Mark, Knows
<1>2. CASE ~Knows(d, id)
  <2> DEFINE low  == Slid(d, id)
             kept == {i \in d.applied : i >= low} \cup {id}
             base == Frontier(low, kept)
             new  == [base |-> base, applied |-> {i \in kept : i > base}]
  <2>1. /\ low \in Nat /\ low =< id /\ id < low + Window
        /\ d.base # None => d.base =< low
        /\ \A i \in d.applied : i < low + Window
    BY <1>2, SlidFacts
  <2>2. d.applied \in SUBSET Nat /\ d.base \in Nat \cup {None}
    BY DEF DedupType
  <2>3. kept \in SUBSET Nat /\ \A i \in kept : low =< i /\ i < low + Window
    BY <2>1, <2>2
  <2> HIDE DEF low, kept
  <2>4. base \in low..(low + Window) /\ base \notin kept
    BY <2>1, <2>3, FrontierIsLowest
  <2>5. Window \in Nat \ {0}  BY DedupAssumption
  <2> HIDE DEF base
  <2>6. base \in Nat /\ low =< base  BY <2>1, <2>4, <2>5
  <2>7. new \in DedupType
    <3>1. new \in [base : Nat \cup {None}, applied : SUBSET Nat]
      BY <2>3, <2>6
    <3>2. \A i \in new.applied : new.base < i /\ i < new.base + Window
      BY <2>1, <2>3, <2>5, <2>6
    <3>3. new.base # None  BY <2>6 DEF None
    <3>4. QED  BY <3>1, <3>2, <3>3 DEF DedupType
  <2>8. Knows(new, id)
    <3>1. id \in kept  BY DEF kept
    <3>2. id # base  BY <3>1, <2>4
    <3>3. QED  BY <3>1, <3>2, <2>6 DEF Knows, None
  <2>9. ASSUME NEW j \in Nat, Knows(d, j) PROVE Knows(new, j)
    <3>1. CASE j < base  BY <3>1, <2>6 DEF Knows, None
    <3>2. CASE ~(j < base)
      <4>1. j \in d.applied
        BY <2>9, <3>2, <2>1, <2>2, <2>6 DEF Knows
      <4>2. j \in kept  BY <4>1, <3>2, <2>6, <2>1 DEF kept
      <4>3. j # base  BY <4>2, <2>4
      <4>4. QED  BY <4>2, <4>3, <3>2, <2>6 DEF Knows, None
    <3>3. QED  BY <3>1, <3>2
  <2>10. Mark(d, id) = new  BY <1>2 DEF Mark, low, kept, base
  <2>11. new.base # None  BY <2>6 DEF None
  <2>12. QED  BY <2>7, <2>8, <2>9, <2>10, <2>11
<1>3. QED  BY <1>1, <1>2

\* The top of an acknowledgement is an id the window knows.
LEMMA TopFacts ==
  ASSUME NEW d \in DedupType, HasTop(d)
  PROVE  Top(d) \in Nat /\ Knows(d, Top(d))
<1>1. d.base \in Nat  BY DEF HasTop, DedupType
<1>2. CASE d.applied = {}
  <2>1. Top(d) = d.base - 1  BY <1>2 DEF Top
  <2>2. QED  BY <1>1, <2>1 DEF HasTop, Knows, None
<1>3. CASE d.applied # {}
  <2>1. /\ d.applied \in SUBSET Nat
        /\ \A i \in d.applied : i < d.base + Window
    BY <1>1 DEF DedupType, None
  <2>2. d.base + Window \in Nat  BY <1>1, DedupAssumption
  <2>3. Max(d.applied) \in d.applied
    <3>1. \A i \in d.applied : i =< d.base + Window  BY <1>1, <2>1, <2>2
    <3>2. QED  BY <1>3, <2>1, <2>2, <3>1, MaxFacts
  <2>4. QED  BY <1>3, <2>1, <2>3 DEF Top, Knows, HasTop
<1>4. QED  BY <1>2, <1>3

\* Recording an id makes known that id, ids the window knew, and at most ids
\* below the one recorded: the cost of sliding is paid in old ids only.
LEMMA MarkReach ==
  ASSUME NEW d \in DedupType, NEW id \in Nat, NEW j \in Nat, Knows(Mark(d, id), j)
  PROVE  Knows(d, j) \/ j =< id
<1>1. CASE Knows(d, id)  BY <1>1 DEF Mark
<1>2. CASE ~Knows(d, id) /\ ~(j =< id)
  <2> DEFINE low  == Slid(d, id)
             kept == {i \in d.applied : i >= low} \cup {id}
             base == Frontier(low, kept)
  <2>1. /\ low \in Nat /\ low =< id /\ id < low + Window
        /\ \A i \in d.applied : i < low + Window
        /\ d.applied \in SUBSET Nat /\ Window \in Nat
    BY <1>2, SlidFacts, DedupAssumption DEF DedupType
  <2>2. kept \in SUBSET Nat /\ \A i \in kept : i < low + Window  BY <2>1
  <2>3. /\ base \in low..(low + Window)
        /\ \A i \in low..(base - 1) : i \in kept
    BY <2>1, <2>2, FrontierIsLowest
  <2>4. Mark(d, id) = [base |-> base, applied |-> {i \in kept : i > base}]
    BY <1>2 DEF Mark
  <2> HIDE DEF low, base
  <2>5. j \in kept
    <3>1. j < base \/ j \in kept  BY <1>2, <2>4 DEF Knows
    <3>2. j < base => j \in low..(base - 1)  BY <1>2, <2>1, <2>3
    <3>3. QED  BY <2>3, <3>1, <3>2
  <2>6. j \in d.applied  BY <1>2, <2>5
  <2>7. d.base # None  BY <2>6 DEF DedupType
  <2>8. QED  BY <2>6, <2>7 DEF Knows
<1>3. QED  BY <1>1, <1>2

\* A set of naturals that is not empty has a least element, Min.
LEMMA MinFacts ==
  ASSUME NEW S \in SUBSET Nat, S # {}
  PROVE  Min(S) \in S /\ \A i \in S : Min(S) =< i
<1>1. PICK n \in S : \A m \in S : ~(<<m, n>> \in OpToRel(<, Nat))
  BY NatLessThanWellFounded, WFMin
<1>2. ASSUME NEW m \in S PROVE n =< m
  <2>1. ~(m < n)  BY <1>1 DEF OpToRel
  <2>2. QED  BY <2>1
<1>3. \E x \in S : \A y \in S : x =< y  BY <1>2
<1>4. QED  BY <1>3 DEF Min

\* An acknowledgement reports missing only ids the window does not know.
LEMMA MissingFacts ==
  ASSUME NEW d \in DedupType, HasTop(d)
  PROVE  \A id \in Missing(d) : id \in Nat /\ id < Top(d) /\ ~Knows(d, id)
<1>1. d.base \in Nat /\ d.applied \in SUBSET Nat
  BY DEF HasTop, DedupType
<1>2. Top(d) \in Nat /\ AckWidth \in Nat  BY TopFacts, DedupAssumption
<1>3. Oldest(d) \in Nat /\ Oldest(d) >= d.base /\ (d.applied # {} => Oldest(d) > d.base)
  <2>1. CASE d.applied = {}  BY <1>1, <2>1 DEF Oldest
  <2>2. CASE d.applied # {}
    <3>1. Min(d.applied) \in d.applied  BY <1>1, <2>2, MinFacts
    <3>2. \A i \in d.applied : d.base < i  BY <1>1 DEF DedupType, None
    <3>3. QED  BY <1>1, <2>2, <3>1, <3>2 DEF Oldest
  <2>3. QED  BY <2>1, <2>2
<1>4. ASSUME NEW id \in Missing(d)
      PROVE  id \in Nat /\ id < Top(d) /\ ~Knows(d, id)
  <2>1. /\ id \in (Top(d) - AckWidth)..(Top(d) - 1)
        /\ id >= Oldest(d) /\ id \notin d.applied
    BY DEF Missing
  <2>2. id \in Nat /\ id < Top(d) /\ id >= d.base  BY <1>1, <1>2, <1>3, <2>1
  <2>3. QED  BY <1>1, <2>1, <2>2 DEF Knows
<1>5. QED  BY <1>4

-----------------------------------------------------------------------------
(* The host. *)

\* The strengthening AtMostOnce needs: an injected id is one the window knows,
\* so a fresh id has not been injected yet.  A barrier is a known id too.
InjectedIsKnown ==
  \A id \in EventIds :
    /\ injections[id] =< 1
    /\ injections[id] > 0 => Knows(dedup, id)

HostInv == HostTypeOK /\ OsAgrees /\ InjectedIsKnown

\* What one applied message may do to the window, the counts and the barrier:
\* either nothing is injected, or exactly one id that was fresh.
EventStep ==
  \/ /\ dedup' = dedup \/ \E id \in EventIds : dedup' = Mark(dedup, id)
     /\ injections' = injections /\ barrier' = barrier
  \/ \E id \in EventIds :
       /\ IsFresh(id)
       /\ dedup' = Mark(dedup, id)
       /\ injections' = [injections EXCEPT ![id] = @ + 1]
       /\ barrier' \in {barrier, id}

LEMMA ReceiveIsEventStep ==
  ASSUME NEW s \in Sessions, NEW m \in Message, Receive(s, m)
  PROVE  EventStep
<1>1. CASE s # session
  BY <1>1 DEF Receive, EventStep
<1>2. CASE s = session
  <2>1. Apply(m)  BY <1>2 DEF Receive
  <2>2. m \in Reliable => m.id \in EventIds
    BY DEF Reliable, ControlEvent, WheelEvent, ReleaseAll, PadEvent
  <2>3. CASE ApplyEvent(m)
    <3>1. m.id \in EventIds  BY <2>2, <2>3 DEF ApplyEvent
    <3>2. CASE Supersede(m)  BY <3>1, <3>2 DEF Supersede, EventStep
    <3>3. CASE Duplicate(m)  BY <3>3 DEF Duplicate, EventStep
    <3>4. CASE ApplyControl(m)
      BY <3>1, <3>4 DEF ApplyControl, EventStep, Injected
    <3>5. CASE ApplyWheel(m)
      BY <3>1, <3>5 DEF ApplyWheel, EventStep, Injected
    <3>6. CASE ApplyRelease(m)
      BY <3>1, <3>6 DEF ApplyRelease, EventStep, Injected
    <3>7. CASE IgnorePad(m)  BY <3>1, <3>7 DEF IgnorePad, EventStep
    <3>8. QED
      BY <2>3, <3>2, <3>3, <3>4, <3>5, <3>6, <3>7 DEF ApplyEvent
  <2>4. CASE ApplySnapshot(m)  BY <2>4 DEF ApplySnapshot, EventStep
  <2>5. CASE StaleSnapshot(m)  BY <2>5 DEF StaleSnapshot, EventStep
  <2>6. CASE NoState(m)  BY <2>6 DEF NoState, EventStep
  <2>7. QED  BY <2>1, <2>3, <2>4, <2>5, <2>6 DEF Apply
<1>3. QED  BY <1>1, <1>2

\* Types and the OS's view, message by message.
LEMMA ReceiveKeepsType ==
  ASSUME HostTypeOK, OsAgrees, NEW s \in Sessions, NEW m \in Message, Receive(s, m)
  PROVE  HostTypeOK' /\ OsAgrees'
<1>1. CASE s # session
  BY <1>1 DEF Receive, HostTypeOK, OsAgrees
<1>2. CASE s = session
  <2>1. Apply(m) /\ live' = TRUE /\ session' = session  BY <1>2 DEF Receive
  <2>2. m \in Reliable => m.id \in EventIds /\ m.id \in Nat
    BY ProtocolAssumption DEF Reliable, ControlEvent, WheelEvent, ReleaseAll, PadEvent
  <2>3. \A id \in Nat : Mark(dedup, id) \in DedupType
    BY MarkFacts DEF HostTypeOK
  <2>4. CASE ApplyEvent(m)
    <3>1. m.id \in EventIds /\ Mark(dedup, m.id) \in DedupType
      BY <2>2, <2>3, <2>4 DEF ApplyEvent
    <3>2. CASE Supersede(m) \/ Duplicate(m) \/ IgnorePad(m)
      BY <2>1, <3>1, <3>2 DEF Supersede, Duplicate, IgnorePad, HostTypeOK, OsAgrees
    <3>3. CASE ApplyControl(m)
      <4>1. m \in ControlEvent
        BY <2>4, <3>3 DEF ApplyEvent, ApplyControl, Reliable, WheelEvent, ReleaseAll, PadEvent
      <4>2. m.control \in Controls  BY <4>1 DEF ControlEvent
      <4>3. held' \in SUBSET Controls /\ told' = held'
        BY <3>3, <4>2 DEF ApplyControl, HostTypeOK, OsAgrees
      <4>4. injections' \in [EventIds -> Nat]
        BY <3>1, <3>3 DEF ApplyControl, Injected, HostTypeOK
      <4>5. QED
        BY <2>1, <3>1, <3>3, <4>3, <4>4 DEF ApplyControl, HostTypeOK, OsAgrees
    <3>4. CASE ApplyWheel(m) \/ ApplyRelease(m)
      <4>1. injections' \in [EventIds -> Nat]
        BY <3>1, <3>4 DEF ApplyWheel, ApplyRelease, Injected, HostTypeOK
      <4>2. QED
        BY <2>1, <3>1, <3>4, <4>1 DEF ApplyWheel, ApplyRelease, Sweep, HostTypeOK, OsAgrees
    <3>5. QED  BY <2>4, <3>2, <3>3, <3>4 DEF ApplyEvent
  <2>5. CASE ApplySnapshot(m)
    <3>1. m \in Snapshot
      BY <2>5 DEF ApplySnapshot, Message, Reliable, ControlEvent, WheelEvent,
                  ReleaseAll, PadEvent, Bare
    <3>2. m.held \in SUBSET Controls /\ m.generation \in Generations
      BY <3>1 DEF Snapshot
    <3>3. held' = m.held /\ told' = m.held
      BY <2>5 DEF ApplySnapshot, OsAgrees
    <3>4. QED
      BY <2>1, <2>5, <3>2, <3>3 DEF ApplySnapshot, HostTypeOK, OsAgrees
  <2>6. CASE StaleSnapshot(m) \/ NoState(m)
    BY <2>1, <2>6 DEF StaleSnapshot, NoState, HostTypeOK, OsAgrees
  <2>7. QED  BY <2>1, <2>4, <2>5, <2>6 DEF Apply
<1>3. QED  BY <1>1, <1>2

\* A step that injects nothing or one fresh id keeps every count at one or
\* below and every injected id known.
LEMMA EventStepKeepsKnown ==
  ASSUME HostTypeOK, InjectedIsKnown, EventStep
  PROVE  InjectedIsKnown'
<1>1. dedup \in DedupType /\ injections \in [EventIds -> Nat]
  BY DEF HostTypeOK
<1>2. EventIds \subseteq Nat  BY ProtocolAssumption
<1>3. CASE /\ dedup' = dedup \/ \E id \in EventIds : dedup' = Mark(dedup, id)
           /\ injections' = injections
  <2>1. \A j \in EventIds : Knows(dedup, j) => Knows(dedup', j)
    BY <1>1, <1>2, <1>3, MarkFacts
  <2>2. QED  BY <1>3, <2>1 DEF InjectedIsKnown
<1>4. ASSUME NEW id \in EventIds, IsFresh(id), dedup' = Mark(dedup, id),
             injections' = [injections EXCEPT ![id] = @ + 1]
      PROVE  InjectedIsKnown'
  <2>1. /\ Knows(dedup', id)
        /\ \A j \in EventIds : Knows(dedup, j) => Knows(dedup', j)
    BY <1>1, <1>2, <1>4, MarkFacts
  <2>2. injections[id] = 0
    BY <1>1, <1>4 DEF IsFresh, InjectedIsKnown
  <2>3. ASSUME NEW j \in EventIds
        PROVE  injections'[j] =< 1 /\ (injections'[j] > 0 => Knows(dedup', j))
    <3>1. CASE j = id  BY <1>1, <1>4, <2>1, <2>2, <3>1
    <3>2. CASE j # id
      <4>1. injections'[j] = injections[j]  BY <1>1, <1>4, <3>2
      <4>2. QED  BY <2>1, <4>1 DEF InjectedIsKnown
    <3>3. QED  BY <3>1, <3>2
  <2>4. QED  BY <2>3 DEF InjectedIsKnown
<1>5. QED  BY <1>3, <1>4 DEF EventStep

LEMMA HostInit_HostInv == HostInit => HostInv
<1> SUFFICES ASSUME HostInit PROVE HostInv
  OBVIOUS
<1>1. EmptyDedup \in DedupType  BY DEF EmptyDedup, DedupType, None
<1>2. injections \in [EventIds -> Nat] /\ \A id \in EventIds : injections[id] = 0
  BY DEF HostInit
<1>3. HostTypeOK /\ OsAgrees  BY <1>1, <1>2 DEF HostInit, HostTypeOK, OsAgrees
<1>4. InjectedIsKnown  BY <1>2 DEF InjectedIsKnown
<1>5. QED  BY <1>3, <1>4 DEF HostInv

LEMMA HostStep_HostInv == HostInv /\ [HostNext]_hostVars => HostInv'
<1> SUFFICES ASSUME HostInv, [HostNext]_hostVars PROVE HostInv'
  OBVIOUS
<1>1. CASE UNCHANGED hostVars
  BY <1>1 DEF hostVars, HostInv, HostTypeOK, OsAgrees, InjectedIsKnown
<1>2. ASSUME NEW s \in Sessions, NEW m \in Message, Receive(s, m)
      PROVE  HostInv'
  BY <1>2, ReceiveIsEventStep, ReceiveKeepsType, EventStepKeepsKnown DEF HostInv
<1>3. ASSUME NEW s \in Sessions, BeginSession(s)
      PROVE  HostInv'
  <2>1. EmptyDedup \in DedupType  BY DEF EmptyDedup, DedupType, None
  <2>2. InjectedIsKnown'  BY <1>3 DEF BeginSession, InjectedIsKnown
  <2>3. QED
    BY <1>3, <2>1, <2>2 DEF BeginSession, Sweep, HostInv, HostTypeOK, OsAgrees
<1>4. CASE Expire
  BY <1>4 DEF Expire, Sweep, HostInv, HostTypeOK, OsAgrees, InjectedIsKnown
<1>5. QED  BY <1>1, <1>2, <1>3, <1>4 DEF HostNext

THEOREM HostInvariance == HostSpec => []HostInv
<1>1. QED  BY HostInit_HostInv, HostStep_HostInv, PTL DEF HostSpec

\* The type invariant of the host, whatever it is sent.
THEOREM HostTypeCorrect == HostSpec => []HostTypeOK
<1>1. HostInv => HostTypeOK  BY DEF HostInv
<1>2. QED  BY <1>1, HostInvariance, PTL

\* What the OS was told is what the host believes, whatever it is sent.
THEOREM HostAgreesWithOs == HostSpec => []OsAgrees
<1>1. HostInv => OsAgrees  BY DEF HostInv
<1>2. QED  BY <1>1, HostInvariance, PTL

\* No event of a session is injected twice, whatever the host is sent.
THEOREM HostAtMostOnce == HostSpec => []AtMostOnce
<1>1. HostInv => AtMostOnce  BY DEF HostInv, InjectedIsKnown, AtMostOnce
<1>2. QED  BY <1>1, HostInvariance, PTL

\* An event the last release superseded is never injected.
THEOREM HostSupersededStaysOut == HostSpec => SupersededStaysOut
<1>1. HostInv /\ [HostNext]_hostVars
        => [session' = session =>
              \A id \in EventIds : id < barrier => injections'[id] = injections[id]]_hostVars
  <2> SUFFICES ASSUME HostInv, [HostNext]_hostVars, session' = session,
                      NEW id \in EventIds, id < barrier
               PROVE  injections'[id] = injections[id]
    OBVIOUS
  <2>1. CASE UNCHANGED hostVars  BY <2>1 DEF hostVars
  <2>2. ASSUME NEW s \in Sessions, NEW m \in Message, Receive(s, m)
        PROVE  injections'[id] = injections[id]
    <3>1. EventStep  BY <2>2, ReceiveIsEventStep
    <3>2. \A j \in EventIds : IsFresh(j) => j # id
      BY ProtocolAssumption DEF IsFresh, IsSuperseded, None, HostInv, HostTypeOK
    <3>3. injections \in [EventIds -> Nat]  BY DEF HostInv, HostTypeOK
    <3>4. QED  BY <3>1, <3>2, <3>3 DEF EventStep
  <2>3. CASE \E s \in Sessions : BeginSession(s)  BY <2>3 DEF BeginSession
  <2>4. CASE Expire  BY <2>4 DEF Expire
  <2>5. QED  BY <2>1, <2>2, <2>3, <2>4 DEF HostNext
<1>2. QED  BY <1>1, HostInvariance, PTL DEF HostSpec, SupersededStaysOut

\* The window never forgets an id within a session.
THEOREM HostNeverForgets == HostSpec => NeverForgets
<1>1. HostInv /\ [HostNext]_hostVars
        => [session' = session =>
              \A id \in EventIds : Knows(dedup, id) => Knows(dedup', id)]_hostVars
  <2> SUFFICES ASSUME HostInv, [HostNext]_hostVars, session' = session,
                      NEW id \in EventIds, Knows(dedup, id)
               PROVE  Knows(dedup', id)
    OBVIOUS
  <2>1. CASE UNCHANGED hostVars  BY <2>1 DEF hostVars
  <2>2. ASSUME NEW s \in Sessions, NEW m \in Message, Receive(s, m)
        PROVE  Knows(dedup', id)
    <3>1. EventStep  BY <2>2, ReceiveIsEventStep
    <3>2. dedup \in DedupType  BY DEF HostInv, HostTypeOK
    <3>3. \A j \in EventIds : Knows(Mark(dedup, j), id)
      BY <3>2, MarkFacts, ProtocolAssumption
    <3>4. QED  BY <3>1, <3>3 DEF EventStep
  <2>3. CASE \E s \in Sessions : BeginSession(s)  BY <2>3 DEF BeginSession
  <2>4. CASE Expire  BY <2>4 DEF Expire
  <2>5. QED  BY <2>1, <2>2, <2>3, <2>4 DEF HostNext
<1>2. QED  BY <1>1, HostInvariance, PTL DEF HostSpec, NeverForgets

\* The barrier never falls within a session.
THEOREM HostBarrierRises == HostSpec => BarrierRises
<1>1. HostInv /\ [HostNext]_hostVars
        => [session' = session => barrier' >= barrier]_hostVars
  <2> SUFFICES ASSUME HostInv, [HostNext]_hostVars, session' = session
               PROVE  barrier' >= barrier
    OBVIOUS
  <2>1. barrier \in Int /\ EventIds \subseteq Nat
    BY ProtocolAssumption DEF HostInv, HostTypeOK, None
  <2>2. CASE UNCHANGED hostVars  BY <2>1, <2>2 DEF hostVars
  <2>3. ASSUME NEW s \in Sessions, NEW m \in Message, Receive(s, m)
        PROVE  barrier' >= barrier
    <3>1. EventStep  BY <2>3, ReceiveIsEventStep
    <3>2. \A j \in EventIds : IsFresh(j) => j >= barrier
      BY <2>1 DEF IsFresh, IsSuperseded, None
    <3>3. QED  BY <2>1, <3>1, <3>2 DEF EventStep
  <2>4. CASE \E s \in Sessions : BeginSession(s)  BY <2>4 DEF BeginSession
  <2>5. CASE Expire  BY <2>1, <2>5 DEF Expire
  <2>6. QED  BY <2>2, <2>3, <2>4, <2>5 DEF HostNext
<1>2. QED  BY <1>1, HostInvariance, PTL DEF HostSpec, BarrierRises

-----------------------------------------------------------------------------
(* Client, network and host. *)

\* What each end has sent bounds what is in the network and outstanding.
SentInv ==
  /\ \A m \in network \cap Reliable : m.id < nextId
  /\ \A p \in pending : p.message \in network
  /\ nextId \in 0..MaxEvents
  /\ clientGeneration =< nextId

\* The host knows only ids the client has minted, and acknowledged such ids.
GroundInv ==
  /\ \A j \in Nat : Knows(dedup, j) => j < nextId
  /\ \A a \in acks : a.top < nextId /\ Knows(dedup, a.top)

LinkInv ==
  /\ LinkTypeOK /\ HostInv /\ SentInv /\ GroundInv
  /\ EveryEventAccounted /\ GenerationNamesHeldSet

\* A message's kind tells the three classes apart.
LEMMA Kinds ==
  /\ \A m \in Reliable : m.kind \in {"control", "wheel", "release", "pad"} /\ m.id \in EventIds
  /\ \A m \in Snapshot : /\ m.kind = "snapshot"
                         /\ m.generation \in Generations /\ m.held \in SUBSET Controls
  /\ \A m \in Bare : m.kind \in {"beat", "other"}
  /\ Message = Reliable \cup Snapshot \cup Bare
BY DEF Reliable, ControlEvent, WheelEvent, ReleaseAll, PadEvent, Snapshot, Bare, Message

LEMMA CurrentSnapshotFacts ==
  ASSUME LinkTypeOK, SentInv
  PROVE  /\ CurrentSnapshot \in Snapshot
         /\ CurrentSnapshot.generation = clientGeneration
         /\ CurrentSnapshot.held = down
<1>1. clientGeneration \in Generations
  BY LinkAssumption DEF LinkTypeOK, ClientTypeOK, SentInv
<1>2. down \in SUBSET Controls  BY DEF LinkTypeOK, ClientTypeOK
<1>3. QED  BY <1>1, <1>2 DEF CurrentSnapshot, Snapshot

LEMMA BeatFacts ==
  [kind |-> "beat"] \in Message \ (Reliable \cup Snapshot)
<1>1. [kind |-> "beat"] \in Bare  BY DEF Bare
<1>2. [kind |-> "beat"] \notin Reliable \cup Snapshot  BY Kinds, <1>1
<1>3. QED  BY <1>1, <1>2 DEF Message

\* The client's half of a step: what sending an event does.
LEMMA SendFacts ==
  ASSUME LinkTypeOK, NEW m \in Reliable, SendEvent(m)
  PROVE  /\ m.id = nextId /\ nextId' = nextId + 1 /\ nextId < MaxEvents
         /\ pending' = pending \cup {[message |-> m, attempts |-> 0]}
         /\ UNCHANGED <<acknowledged, abandoned, hostVars, acks, expiries>>
         /\ network' = network \cup {m}
         /\ down' \in SUBSET Controls
         /\ \/ clientGeneration' = clientGeneration /\ down' = down
            \/ clientGeneration' = clientGeneration + 1
         /\ generationAt' = Append(generationAt, clientGeneration')
<1>1. /\ UNCHANGED <<hostVars, acks, expiries>>
      /\ network' = network \cup {m} /\ nextId < MaxEvents
      /\ generationAt' = Append(generationAt, clientGeneration')
      /\ SendControl(m) \/ SendWheel(m) \/ SendRelease(m)
  BY DEF SendEvent
<1>2. Track(m)  BY <1>1 DEF SendControl, SendWheel, SendRelease
<1>3. /\ m.id = nextId /\ nextId' = nextId + 1
      /\ pending' = pending \cup {[message |-> m, attempts |-> 0]}
      /\ UNCHANGED <<acknowledged, abandoned>>
  BY <1>2 DEF Track
<1>4. down \in SUBSET Controls  BY DEF LinkTypeOK, ClientTypeOK
<1>5. /\ down' \in SUBSET Controls
      /\ \/ clientGeneration' = clientGeneration /\ down' = down
         \/ clientGeneration' = clientGeneration + 1
  <2>1. CASE SendControl(m)
    <3>1. m \in ControlEvent
      BY <2>1 DEF SendControl, Reliable, WheelEvent, ReleaseAll, PadEvent
    <3>2. m.control \in Controls  BY <3>1 DEF ControlEvent
    <3>3. QED  BY <1>4, <2>1, <3>2 DEF SendControl, Hold
  <2>2. CASE SendWheel(m)  BY <1>4, <2>2 DEF SendWheel
  <2>3. CASE SendRelease(m)  BY <1>4, <2>3 DEF SendRelease, Hold
  <2>4. QED  BY <1>1, <2>1, <2>2, <2>3
<1>6. QED  BY <1>1, <1>3, <1>5

\* The host's half of a step is a step of the host alone.
LEMMA HostHalf ==
  ASSUME LinkInv, [Next]_vars
  PROVE  HostInv'
<1>1. CASE UNCHANGED hostVars
  BY <1>1, HostStep_HostInv DEF LinkInv
<1>2. CASE GiveUp
  <2>1. HostNext  BY <1>2 DEF GiveUp, HostNext
  <2>2. QED  BY <2>1, HostStep_HostInv DEF LinkInv
<1>3. ASSUME NEW m \in network, Deliver(m)
      PROVE  HostInv'
  <2>1. session \in Sessions /\ m \in Message
    BY DEF LinkInv, LinkTypeOK, HostTypeOK
  <2>2. Receive(session, m)  BY <1>3 DEF Deliver
  <2>3. HostNext  BY <2>1, <2>2 DEF HostNext
  <2>4. QED  BY <2>3, HostStep_HostInv DEF LinkInv
<1>4. CASE Next
  <2>1. CASE \E m \in Reliable : SendEvent(m)
    BY <1>1, <2>1 DEF SendEvent
  <2>2. CASE \E p \in pending : PumpEvent(p)
    BY <1>1, <2>2 DEF PumpEvent
  <2>3. CASE SendSnapshot \/ SendBeat
    BY <1>1, <2>3 DEF SendSnapshot, SendBeat
  <2>4. CASE \E a \in acks : ReceiveAck(a)
    BY <1>1, <2>4 DEF ReceiveAck
  <2>5. QED  BY <1>2, <1>3, <1>4, <2>1, <2>2, <2>3, <2>4 DEF Next
<1>5. QED  BY <1>1, <1>4 DEF vars

LEMMA Init_LinkInv == Init => LinkInv
<1> SUFFICES ASSUME Init PROVE LinkInv
  OBVIOUS
<1>1. HostInv  BY HostInit_HostInv DEF Init
<1>2. LinkTypeOK
  BY <1>1, LinkAssumption DEF Init, LinkTypeOK, ClientInit, ClientTypeOK, HostInv, Pending
<1>3. SentInv  BY LinkAssumption DEF Init, ClientInit, SentInv
<1>4. EveryEventAccounted  BY DEF Init, ClientInit, EveryEventAccounted, Outstanding
<1>5. GenerationNamesHeldSet  BY DEF Init, GenerationNamesHeldSet
<1>6. GroundInv  BY DEF Init, HostInit, EmptyDedup, Knows, GroundInv
<1>7. QED  BY <1>1, <1>2, <1>3, <1>4, <1>5, <1>6 DEF LinkInv

(***************************************************************************)
(* LinkInv holds after every step: first what an action does to events,    *)
(* then what it does to snapshots.                                         *)
(***************************************************************************)
LEMMA SendKeepsAccounts ==
  ASSUME LinkInv, NEW m \in Reliable, SendEvent(m)
  PROVE  EveryEventAccounted' /\ SentInv' /\ ClientTypeOK'
<1> DEFINE p0 == [message |-> m, attempts |-> 0]
<1>1. /\ m.id = nextId /\ nextId' = nextId + 1 /\ nextId < MaxEvents
      /\ pending' = pending \cup {p0}
      /\ UNCHANGED <<acknowledged, abandoned>>
      /\ network' = network \cup {m}
      /\ down' \in SUBSET Controls
      /\ clientGeneration' \in {clientGeneration, clientGeneration + 1}
  BY SendFacts DEF LinkInv
<1>2. /\ nextId \in Nat /\ clientGeneration \in Nat /\ clientGeneration =< nextId
      /\ MaxEvents \in Nat /\ MaxRetransmissions \in Nat
  BY LinkAssumption, ClientAssumption DEF LinkInv, LinkTypeOK, ClientTypeOK, SentInv
<1>3. p0 \in Pending /\ p0.message = m  BY <1>2 DEF Pending
<1>4. ClientTypeOK'
  BY <1>1, <1>2, <1>3 DEF LinkInv, LinkTypeOK, ClientTypeOK
<1>5. SentInv'
  <2>1. \A n \in network' \cap Reliable : n.id < nextId'
    <3>1. \A n \in network \cap Reliable : n.id < nextId /\ n.id \in Nat
      BY Kinds, ProtocolAssumption DEF LinkInv, SentInv
    <3>2. QED  BY <1>1, <1>2, <3>1
  <2>2. \A p \in pending' : p.message \in network'
    BY <1>1, <1>3 DEF LinkInv, SentInv
  <2>3. QED  BY <1>1, <1>2, <2>1, <2>2 DEF SentInv
<1>6. EveryEventAccounted'
  <2>1. Outstanding' = Outstanding \cup {nextId}
    BY <1>1, <1>3 DEF Outstanding
  <2>2. 0..(nextId' - 1) = 0..(nextId - 1) \cup {nextId}  BY <1>1, <1>2
  <2>3. nextId \notin Outstanding /\ nextId \notin acknowledged /\ nextId \notin abandoned
    BY <1>2 DEF LinkInv, EveryEventAccounted
  <2>4. /\ 0..(nextId' - 1) = Outstanding' \cup acknowledged' \cup abandoned'
        /\ Outstanding' \cap acknowledged' = {}
        /\ Outstanding' \cap abandoned' = {}
        /\ acknowledged' \cap abandoned' = {}
    BY <1>1, <2>1, <2>2, <2>3 DEF LinkInv, EveryEventAccounted
  <2>5. \A p, q \in pending' : p.message.id = q.message.id => p = q
    <3>1. \A p \in pending : p.message.id # p0.message.id
      BY <1>1, <1>3, <2>3 DEF Outstanding
    <3>2. QED  BY <1>1, <3>1 DEF LinkInv, EveryEventAccounted
  <2>6. QED  BY <2>4, <2>5 DEF EveryEventAccounted
<1>7. QED  BY <1>4, <1>5, <1>6

LEMMA RetransmitKeepsAccounts ==
  ASSUME LinkInv, NEW p \in pending, Retransmit(p)
  PROVE  /\ EveryEventAccounted' /\ ClientTypeOK'
         /\ \A q \in pending' : \E r \in pending : q.message = r.message
<1> DEFINE q0 == [p EXCEPT !.attempts = @ + 1]
<1>1. /\ p \in Pending /\ p.attempts < MaxRetransmissions
      /\ pending' = (pending \ {p}) \cup {q0}
      /\ UNCHANGED <<nextId, down, clientGeneration, acknowledged, abandoned>>
  BY DEF LinkInv, LinkTypeOK, ClientTypeOK, Retransmit
<1>2. q0 \in Pending /\ q0.message = p.message
  BY <1>1, ClientAssumption DEF Pending
<1> HIDE DEF q0
<1>3. ClientTypeOK'
  BY <1>1, <1>2 DEF LinkInv, LinkTypeOK, ClientTypeOK
<1>4. Outstanding' = Outstanding  BY <1>1, <1>2 DEF Outstanding
<1>5. \A r, q \in pending' : r.message.id = q.message.id => r = q
  <2>1. \A r \in pending \ {p} : r.message.id # q0.message.id
    BY <1>2 DEF LinkInv, EveryEventAccounted
  <2>2. QED  BY <1>1, <2>1 DEF LinkInv, EveryEventAccounted
<1>6. EveryEventAccounted'
  BY <1>1, <1>4, <1>5 DEF LinkInv, EveryEventAccounted
<1>7. QED  BY <1>1, <1>2, <1>3, <1>6

LEMMA AbandonKeepsAccounts ==
  ASSUME LinkInv, NEW p \in pending, Abandon(p)
  PROVE  /\ EveryEventAccounted' /\ ClientTypeOK'
         /\ pending' \subseteq pending
<1>1. /\ p \in Pending
      /\ pending' = pending \ {p}
      /\ abandoned' = abandoned \cup {p.message.id}
      /\ UNCHANGED <<nextId, down, clientGeneration, acknowledged>>
  BY DEF LinkInv, LinkTypeOK, ClientTypeOK, Abandon
<1>2. p.message.id \in EventIds  BY <1>1, Kinds DEF Pending
<1>3. ClientTypeOK'  BY <1>1, <1>2 DEF LinkInv, LinkTypeOK, ClientTypeOK
<1>4. Outstanding' = Outstanding \ {p.message.id} /\ p.message.id \in Outstanding
  BY <1>1 DEF LinkInv, EveryEventAccounted, Outstanding
<1>5. EveryEventAccounted'
  BY <1>1, <1>4 DEF LinkInv, EveryEventAccounted
<1>6. QED  BY <1>1, <1>3, <1>5

LEMMA AckKeepsAccounts ==
  ASSUME LinkInv, NEW a \in acks, TakeAck(a)
  PROVE  /\ EveryEventAccounted' /\ ClientTypeOK'
         /\ pending' \subseteq pending
<1> DEFINE applied == {p \in pending : ShownApplied(a, p.message.id)}
           gone    == {p \in pending : OutOfReach(a, p.message.id)}
           aIds    == {p.message.id : p \in applied}
           gIds    == {p.message.id : p \in gone}
<1>1. /\ pending' = pending \ (applied \cup gone)
      /\ acknowledged' = acknowledged \cup aIds
      /\ abandoned' = abandoned \cup gIds
      /\ UNCHANGED <<nextId, down, clientGeneration>>
  BY DEF TakeAck
<1>2. applied \subseteq pending /\ gone \subseteq pending /\ applied \cap gone = {}
  BY DEF ShownApplied
<1>3. \A p \in pending : p.message.id \in EventIds
  BY Kinds DEF LinkInv, LinkTypeOK, ClientTypeOK, Pending
<1> HIDE DEF applied, gone
<1>4. aIds \subseteq EventIds /\ gIds \subseteq EventIds  BY <1>2, <1>3
<1>5. ClientTypeOK'
  BY <1>1, <1>4 DEF LinkInv, LinkTypeOK, ClientTypeOK
<1>6. \A p, q \in pending : p.message.id = q.message.id => p = q
  BY DEF LinkInv, EveryEventAccounted
<1>7. Outstanding' = Outstanding \ (aIds \cup gIds)
  BY <1>1, <1>2, <1>6 DEF Outstanding
<1>8. aIds \subseteq Outstanding /\ gIds \subseteq Outstanding /\ aIds \cap gIds = {}
  BY <1>2, <1>6 DEF Outstanding
<1> HIDE DEF aIds, gIds
<1>9. /\ 0..(nextId' - 1) = Outstanding' \cup acknowledged' \cup abandoned'
      /\ Outstanding' \cap acknowledged' = {}
      /\ Outstanding' \cap abandoned' = {}
      /\ acknowledged' \cap abandoned' = {}
  BY <1>1, <1>7, <1>8 DEF LinkInv, EveryEventAccounted
<1>10. QED  BY <1>1, <1>5, <1>6, <1>9 DEF EveryEventAccounted

LEMMA SnapshotsKeepNames ==
  ASSUME LinkInv,
         \/ /\ network' \cap Snapshot = network \cap Snapshot
            /\ \/ clientGeneration' = clientGeneration /\ down' = down
               \/ clientGeneration' = clientGeneration + 1
         \/ SendSnapshot
  PROVE  GenerationNamesHeldSet'
<1>1. clientGeneration \in Nat /\ \A s \in network \cap Snapshot : s.generation \in Nat
  BY Kinds, ProtocolAssumption DEF LinkInv, LinkTypeOK, ClientTypeOK
<1>2. CASE /\ network' \cap Snapshot = network \cap Snapshot
           /\ \/ clientGeneration' = clientGeneration /\ down' = down
              \/ clientGeneration' = clientGeneration + 1
  BY <1>1, <1>2 DEF LinkInv, GenerationNamesHeldSet
<1>3. CASE SendSnapshot
  <2>1. /\ network' = network \cup {CurrentSnapshot}
        /\ clientGeneration' = clientGeneration /\ down' = down
    BY <1>3 DEF SendSnapshot, clientVars
  <2>2. /\ CurrentSnapshot \in Snapshot
        /\ CurrentSnapshot.generation = clientGeneration
        /\ CurrentSnapshot.held = down
    BY CurrentSnapshotFacts DEF LinkInv
  <2> DEFINE S == network \cap Snapshot
             c == CurrentSnapshot
  <2> HIDE DEF c
  <2>3. network' \cap Snapshot = S \cup {c}  BY <2>1, <2>2 DEF c
  <2>4. \A s \in S : /\ s.generation =< clientGeneration
                     /\ s.generation = clientGeneration => s.held = down
                     /\ \A t \in S : s.generation = t.generation => s.held = t.held
    BY DEF LinkInv, GenerationNamesHeldSet
  <2>5. c.generation = clientGeneration /\ c.held = down  BY <2>2 DEF c
  <2>6. \A s \in S \cup {c} :
          /\ s.generation =< clientGeneration
          /\ s.generation = clientGeneration => s.held = down
          /\ \A t \in S \cup {c} : s.generation = t.generation => s.held = t.held
    BY <1>1, <2>4, <2>5
  <2>7. QED  BY <2>1, <2>3, <2>6 DEF GenerationNamesHeldSet
<1>4. QED  BY <1>2, <1>3

(***************************************************************************)
(* The host's half: what it knows, and what it answers.                    *)
(***************************************************************************)
LEMMA DeliverMarks ==
  ASSUME NEW m \in Message, Receive(session, m)
  PROVE  dedup' = dedup \/ (m \in Reliable /\ dedup' = Mark(dedup, m.id))
<1>1. Apply(m)  BY DEF Receive
<1>2. CASE ApplyEvent(m)
  BY <1>2 DEF ApplyEvent, Supersede, Duplicate, ApplyControl, ApplyWheel, ApplyRelease, IgnorePad
<1>3. CASE ApplySnapshot(m) \/ StaleSnapshot(m) \/ NoState(m)
  BY <1>3 DEF ApplySnapshot, StaleSnapshot, NoState
<1>4. QED  BY <1>1, <1>2, <1>3 DEF Apply

LEMMA DeliverKeepsGround ==
  ASSUME LinkInv, NEW m \in network, Deliver(m)
  PROVE  GroundInv' /\ acks' \in SUBSET [top : Nat, missing : SUBSET Nat]
<1>1. /\ m \in Message /\ dedup \in DedupType
      /\ nextId \in Nat /\ acks \in SUBSET [top : Nat, missing : SUBSET Nat]
  BY DEF LinkInv, LinkTypeOK, HostTypeOK, ClientTypeOK
<1>2. /\ Receive(session, m) /\ nextId' = nextId
      /\ acks' = acks \/ (HasTop(dedup') /\ acks' = acks \cup {Acknowledgement(dedup')})
  BY DEF Deliver, clientVars
<1>3. dedup' \in DedupType
  BY HostHalf DEF Next, LinkInv, HostInv, HostTypeOK
<1>4. m \in Reliable => m.id \in Nat /\ m.id < nextId
  BY Kinds, ProtocolAssumption DEF LinkInv, SentInv
<1>5. dedup' = dedup \/ (m \in Reliable /\ dedup' = Mark(dedup, m.id))
  BY <1>1, <1>2, DeliverMarks
<1>6. ASSUME NEW j \in Nat, Knows(dedup', j) PROVE j < nextId
  <2>1. Knows(dedup, j) \/ (m \in Reliable /\ j =< m.id)
    BY <1>1, <1>4, <1>5, <1>6, MarkReach
  <2>2. QED  BY <1>1, <1>4, <2>1 DEF LinkInv, GroundInv
<1>7. \A j \in Nat : Knows(dedup, j) => Knows(dedup', j)
  BY <1>1, <1>4, <1>5, MarkFacts
<1>8. HasTop(dedup') => /\ Top(dedup') \in Nat /\ Knows(dedup', Top(dedup'))
                        /\ Missing(dedup') \subseteq Nat
  BY <1>3, TopFacts, MissingFacts
<1>9. HasTop(dedup') =>
        Acknowledgement(dedup') \in [top : Nat, missing : SUBSET Nat]
  BY <1>8 DEF Acknowledgement
<1>10. acks' \in SUBSET [top : Nat, missing : SUBSET Nat]
  BY <1>1, <1>2, <1>9
<1>11. ASSUME NEW a \in acks' PROVE a.top < nextId /\ Knows(dedup', a.top)
  <2>1. CASE a \in acks  BY <1>1, <1>7, <2>1 DEF LinkInv, GroundInv
  <2>2. CASE a \notin acks
    <3>1. HasTop(dedup') /\ a.top = Top(dedup')
      BY <1>2, <1>11, <2>2 DEF Acknowledgement
    <3>2. QED  BY <1>6, <1>8, <3>1
  <2>3. QED  BY <2>1, <2>2
<1>12. QED  BY <1>2, <1>6, <1>10, <1>11 DEF GroundInv

\* Every step keeps the invariant.
LEMMA LinkStep == LinkInv /\ [Next]_vars => LinkInv'
<1> SUFFICES ASSUME LinkInv, [Next]_vars PROVE LinkInv'
  OBVIOUS
<1>h. HostInv' /\ HostTypeOK'  BY HostHalf DEF HostInv
<1>t. /\ network \in SUBSET Message /\ expiries \in 0..MaxExpiries
      /\ acks \in SUBSET [top : Nat, missing : SUBSET Nat]
      /\ generationAt \in Seq(Nat) /\ Len(generationAt) = nextId
      /\ ClientTypeOK
  BY DEF LinkInv, LinkTypeOK
<1>1. ASSUME NEW m \in Reliable, SendEvent(m) PROVE LinkInv'
  <2>1. EveryEventAccounted' /\ SentInv' /\ ClientTypeOK'
    BY <1>1, SendKeepsAccounts
  <2>2. /\ nextId' = nextId + 1 /\ UNCHANGED <<hostVars, acks, expiries>>
        /\ network' = network \cup {m}
        /\ \/ clientGeneration' = clientGeneration /\ down' = down
           \/ clientGeneration' = clientGeneration + 1
        /\ generationAt' = Append(generationAt, clientGeneration')
    BY <1>1, SendFacts DEF LinkInv
  <2>3. m \in Message /\ m \notin Snapshot  BY Kinds
  <2>4. GenerationNamesHeldSet'
    <3>1. network' \cap Snapshot = network \cap Snapshot  BY <2>2, <2>3
    <3>2. QED  BY <2>2, <3>1, SnapshotsKeepNames
  <2>5. GroundInv'
    <3>1. dedup' = dedup /\ acks' = acks  BY <2>2 DEF hostVars
    <3>2. \A a \in acks : a.top \in Nat  BY <1>t
    <3>3. nextId \in Nat  BY <1>t DEF ClientTypeOK
    <3>4. QED  BY <2>2, <3>1, <3>2, <3>3 DEF LinkInv, GroundInv
  <2>6. generationAt' \in Seq(Nat) /\ Len(generationAt') = nextId'
    <3>1. clientGeneration' \in Nat  BY <2>1 DEF ClientTypeOK
    <3>2. QED  BY <1>t, <2>2, <3>1
  <2>7. LinkTypeOK'
    BY <1>h, <1>t, <2>1, <2>2, <2>3, <2>6 DEF LinkTypeOK
  <2>8. QED  BY <1>h, <2>1, <2>4, <2>5, <2>7 DEF LinkInv
<1>2. ASSUME NEW p \in pending, PumpEvent(p) PROVE LinkInv'
  <2>1. p.message \in network  BY DEF LinkInv, SentInv
  <2>2. /\ network' = network
        /\ UNCHANGED <<hostVars, acks, generationAt, expiries>>
        /\ UNCHANGED <<nextId, down, clientGeneration>>
    BY <1>2, <2>1 DEF PumpEvent, Retransmit, Abandon
  <2>3. /\ EveryEventAccounted' /\ ClientTypeOK'
        /\ \A q \in pending' : \E r \in pending : q.message = r.message
    <3>1. CASE Retransmit(p)  BY <3>1, RetransmitKeepsAccounts
    <3>2. CASE Abandon(p)  BY <3>2, AbandonKeepsAccounts
    <3>3. QED  BY <1>2, <3>1, <3>2 DEF PumpEvent
  <2>4. SentInv'  BY <2>2, <2>3 DEF LinkInv, SentInv
  <2>5. GenerationNamesHeldSet'  BY <2>2, SnapshotsKeepNames
  <2>6. GroundInv'  BY <2>2 DEF LinkInv, GroundInv, hostVars
  <2>7. LinkTypeOK'  BY <1>h, <1>t, <2>2, <2>3 DEF LinkTypeOK
  <2>8. QED  BY <1>h, <2>3, <2>4, <2>5, <2>6, <2>7 DEF LinkInv
<1>3. ASSUME NEW n \in Message \ Reliable, network' = network \cup {n},
             UNCHANGED <<clientVars, hostVars, acks, generationAt, expiries>>,
             GenerationNamesHeldSet'
      PROVE  LinkInv'
  <2>1. ClientTypeOK' /\ EveryEventAccounted'
    BY <1>3 DEF LinkInv, LinkTypeOK, ClientTypeOK, EveryEventAccounted, Outstanding, clientVars
  <2>2. SentInv'
    <3>1. network' \cap Reliable = network \cap Reliable  BY <1>3
    <3>2. QED  BY <1>3, <3>1 DEF LinkInv, SentInv, clientVars
  <2>3. GroundInv'  BY <1>3 DEF LinkInv, GroundInv, hostVars, clientVars
  <2>4. LinkTypeOK'  BY <1>h, <1>t, <1>3, <2>1 DEF LinkTypeOK, clientVars
  <2>5. QED  BY <1>h, <1>3, <2>1, <2>2, <2>3, <2>4 DEF LinkInv
<1>4. CASE SendSnapshot
  <2>1. CurrentSnapshot \in Message \ Reliable
    BY CurrentSnapshotFacts, Kinds DEF LinkInv
  <2>2. GenerationNamesHeldSet'  BY <1>4, SnapshotsKeepNames
  <2>3. QED  BY <1>3, <1>4, <2>1, <2>2 DEF SendSnapshot
<1>5. CASE SendBeat
  <2>1. network' = network \cup {[kind |-> "beat"]}
    BY <1>5 DEF SendBeat
  <2>2. network' \cap Snapshot = network \cap Snapshot  BY <2>1, BeatFacts
  <2>3. GenerationNamesHeldSet'
    BY <1>5, <2>2, SnapshotsKeepNames DEF SendBeat, clientVars
  <2>4. QED  BY <1>3, <1>5, <2>3, BeatFacts DEF SendBeat
<1>6. ASSUME NEW a \in acks, ReceiveAck(a) PROVE LinkInv'
  <2>1. TakeAck(a) /\ UNCHANGED <<hostVars, linkVars>>  BY <1>6 DEF ReceiveAck
  <2>2. EveryEventAccounted' /\ ClientTypeOK' /\ pending' \subseteq pending
    BY <2>1, AckKeepsAccounts
  <2>3. UNCHANGED <<nextId, down, clientGeneration, network, acks, generationAt, expiries>>
    BY <2>1 DEF TakeAck, linkVars
  <2>4. SentInv'  BY <2>2, <2>3 DEF LinkInv, SentInv
  <2>5. GenerationNamesHeldSet'  BY <2>3, SnapshotsKeepNames
  <2>6. GroundInv'  BY <2>1, <2>3 DEF LinkInv, GroundInv, hostVars
  <2>7. LinkTypeOK'  BY <1>h, <1>t, <2>2, <2>3 DEF LinkTypeOK
  <2>8. QED  BY <1>h, <2>2, <2>4, <2>5, <2>6, <2>7 DEF LinkInv
<1>7. ASSUME UNCHANGED <<clientVars, network, generationAt>>,
             expiries' \in 0..MaxExpiries,
             GroundInv', acks' \in SUBSET [top : Nat, missing : SUBSET Nat]
      PROVE  LinkInv'
  <2>1. ClientTypeOK' /\ EveryEventAccounted'
    BY <1>7 DEF LinkInv, LinkTypeOK, ClientTypeOK, EveryEventAccounted, Outstanding, clientVars
  <2>2. SentInv'  BY <1>7 DEF LinkInv, SentInv, clientVars
  <2>3. GenerationNamesHeldSet'  BY <1>7, SnapshotsKeepNames DEF clientVars
  <2>4. LinkTypeOK'  BY <1>h, <1>t, <1>7, <2>1 DEF LinkTypeOK, clientVars
  <2>5. QED  BY <1>h, <1>7, <2>1, <2>2, <2>3, <2>4 DEF LinkInv
<1>8. ASSUME NEW m \in network, Deliver(m) PROVE LinkInv'
  BY <1>t, <1>7, <1>8, DeliverKeepsGround DEF Deliver
<1>9. CASE GiveUp
  <2>1. GroundInv'
    BY <1>9 DEF GiveUp, Expire, LinkInv, GroundInv, clientVars
  <2>2. expiries' \in 0..MaxExpiries
    BY <1>t, <1>9, LinkAssumption DEF GiveUp
  <2>3. QED  BY <1>t, <1>7, <1>9, <2>1, <2>2 DEF GiveUp
<1>10. CASE UNCHANGED vars
  <2>1. GroundInv'  BY <1>10 DEF vars, linkVars, hostVars, clientVars, LinkInv, GroundInv
  <2>2. QED  BY <1>t, <1>7, <1>10, <2>1 DEF vars, linkVars
<1>11. QED
  BY <1>1, <1>2, <1>4, <1>5, <1>6, <1>8, <1>9, <1>10 DEF Next

THEOREM LinkInvariance == Spec => []LinkInv
<1>1. QED  BY Init_LinkInv, LinkStep, PTL DEF Spec

\* The types of the link, whatever the network does.
THEOREM LinkTypeCorrect == Spec => []LinkTypeOK
<1>1. LinkInv => LinkTypeOK  BY DEF LinkInv
<1>2. QED  BY <1>1, LinkInvariance, PTL

\* Every event the client sent is outstanding, acknowledged or abandoned, and
\* only one of them: the counts of the client's report close.
THEOREM LinkAccountsForEveryEvent == Spec => []EveryEventAccounted
<1>1. LinkInv => EveryEventAccounted  BY DEF LinkInv
<1>2. QED  BY <1>1, LinkInvariance, PTL

\* Two snapshots of one generation say the same thing.
THEOREM LinkGenerationsName == Spec => []GenerationNamesHeldSet
<1>1. LinkInv => GenerationNamesHeldSet  BY DEF LinkInv
<1>2. QED  BY <1>1, LinkInvariance, PTL

\* What an acknowledgement in flight says of its top stays true, and what the
\* host would report missing it has not injected.
THEOREM LinkAcksAreGrounded == Spec => []AcksAreGrounded
<1>1. LinkInv => AcksAreGrounded
  <2> SUFFICES ASSUME LinkInv PROVE AcksAreGrounded
    OBVIOUS
  <2>1. \A a \in acks : a.top < nextId /\ Knows(dedup, a.top)
    BY DEF LinkInv, GroundInv
  <2>2. ASSUME HasTop(dedup), NEW id \in Missing(dedup)
        PROVE  injections[id] = 0
    <3>1. dedup \in DedupType /\ injections \in [EventIds -> Nat] /\ nextId \in Nat
      BY DEF LinkInv, LinkTypeOK, HostTypeOK, ClientTypeOK
    <3>2. /\ id \in Nat /\ id < Top(dedup) /\ ~Knows(dedup, id)
          /\ Top(dedup) \in Nat /\ Knows(dedup, Top(dedup))
      BY <2>2, <3>1, MissingFacts, TopFacts
    <3>3. id \in 0..(nextId - 1)
      BY <3>1, <3>2 DEF LinkInv, GroundInv
    <3>4. \A p \in pending : p.message.id \in EventIds
      BY Kinds DEF LinkInv, LinkTypeOK, ClientTypeOK, Pending
    <3>5. id \in EventIds
      BY <3>3, <3>4 DEF LinkInv, EveryEventAccounted, Outstanding, LinkTypeOK, ClientTypeOK
    <3>6. QED  BY <3>1, <3>2, <3>5 DEF LinkInv, HostInv, InjectedIsKnown
  <2>3. QED  BY <2>1, <2>2 DEF AcksAreGrounded
<1>2. QED  BY <1>1, LinkInvariance, PTL

(***************************************************************************)
(* The link implements InputPromise: each step is one of its actions, or   *)
(* changes nothing the promise speaks of.                                  *)
(***************************************************************************)
InjectedIds == {id \in EventIds : injections[id] > 0}

LEMMA InjectIsInject ==
  ASSUME LinkInv, NEW m \in network \cap Reliable, IsFresh(m.id), Injected(m.id),
         held' = Promise!Effect(m),
         barrier' = (IF m.kind = "release" THEN m.id ELSE barrier),
         UNCHANGED <<network, generation>>
  PROVE  Promise!Inject(m)
<1>1. m.id \in EventIds /\ m.id \in Nat  BY Kinds, ProtocolAssumption
<1>2. injections \in [EventIds -> Nat] /\ barrier \in EventIds \cup {None}
  BY DEF LinkInv, LinkTypeOK, HostTypeOK
<1>3. injections[m.id] = 0
  BY <1>1, <1>2 DEF IsFresh, LinkInv, HostInv, InjectedIsKnown
<1>4. m.id >= barrier
  BY <1>1, <1>2, ProtocolAssumption DEF IsFresh, IsSuperseded, None
<1>5. InjectedIds' = InjectedIds \cup {m.id} /\ m.id \notin InjectedIds
  <2>1. \A j \in EventIds :
          injections'[j] = IF j = m.id THEN injections[j] + 1 ELSE injections[j]
    BY <1>1, <1>2 DEF Injected
  <2>2. QED  BY <1>1, <1>2, <1>3, <2>1 DEF InjectedIds
<1>6. QED  BY <1>4, <1>5 DEF Promise!Inject, InjectedIds

LEMMA DeliverIsPromised ==
  ASSUME LinkInv, NEW m \in network, Deliver(m)
  PROVE  [Promise!Next]_Promise!vars
<1>1. Apply(m) /\ network' = network
  BY DEF Deliver, Receive
<1>2. m \in Message  BY DEF LinkInv, LinkTypeOK
<1>3. CASE ApplyEvent(m)
  <2>1. m \in network \cap Reliable  BY <1>3 DEF ApplyEvent
  <2>2. CASE Supersede(m) \/ Duplicate(m) \/ IgnorePad(m)
    BY <1>1, <2>2 DEF Supersede, Duplicate, IgnorePad, Promise!vars
  <2>3. CASE ApplyControl(m)
    <3>1. held' = Promise!Effect(m)  BY <2>3 DEF ApplyControl, Promise!Effect
    <3>2. Promise!Inject(m)
      BY <1>1, <2>1, <2>3, <3>1, InjectIsInject DEF ApplyControl
    <3>3. QED  BY <2>1, <3>2 DEF Promise!Next
  <2>4. CASE ApplyWheel(m)
    <3>1. held' = Promise!Effect(m)  BY <2>4 DEF ApplyWheel, Promise!Effect
    <3>2. Promise!Inject(m)
      BY <1>1, <2>1, <2>4, <3>1, InjectIsInject DEF ApplyWheel
    <3>3. QED  BY <2>1, <3>2 DEF Promise!Next
  <2>5. CASE ApplyRelease(m)
    <3>1. held' = Promise!Effect(m)  BY <2>5 DEF ApplyRelease, Sweep, Promise!Effect
    <3>2. Promise!Inject(m)
      BY <1>1, <2>1, <2>5, <3>1, InjectIsInject DEF ApplyRelease
    <3>3. QED  BY <2>1, <3>2 DEF Promise!Next
  <2>6. QED  BY <1>3, <2>2, <2>3, <2>4, <2>5 DEF ApplyEvent
<1>4. CASE ApplySnapshot(m)
  <2>1. m \in network \cap Snapshot
    BY <1>2, <1>4, Kinds DEF ApplySnapshot
  <2>2. m.generation > generation
    <3>1. m.generation \in Nat  BY <2>1, Kinds, ProtocolAssumption
    <3>2. generation = None \/ m.generation > generation
      BY <1>4 DEF ApplySnapshot
    <3>3. QED  BY <3>1, <3>2 DEF None
  <2>3. Promise!Adopt(m)
    BY <1>1, <1>4, <2>1, <2>2 DEF ApplySnapshot, Promise!Adopt
  <2>4. QED  BY <2>1, <2>3 DEF Promise!Next
<1>5. CASE StaleSnapshot(m) \/ NoState(m)
  BY <1>1, <1>5 DEF StaleSnapshot, NoState, Promise!vars
<1>6. QED  BY <1>1, <1>3, <1>4, <1>5 DEF Apply

LEMMA SameProtocol == Promise!Reliable = Reliable /\ Promise!Snapshot = Snapshot
BY DEF Reliable, ControlEvent, WheelEvent, ReleaseAll, PadEvent, Snapshot,
       Promise!Reliable, Promise!ControlEvent, Promise!WheelEvent, Promise!ReleaseAll,
       Promise!PadEvent, Promise!Snapshot

LEMMA StepIsPromised == LinkInv /\ [Next]_vars => [Promise!Next]_Promise!vars
<1> SUFFICES ASSUME LinkInv, [Next]_vars PROVE [Promise!Next]_Promise!vars
  OBVIOUS
<1>1. ASSUME NEW m \in Reliable, SendEvent(m) PROVE Promise!Offer(m)
  <2>1. m.id = nextId /\ network' = network \cup {m} /\ UNCHANGED hostVars
    BY <1>1, SendFacts DEF LinkInv
  <2>2. m \notin Snapshot  BY Kinds
  <2>3. \A n \in network \cap Reliable : n.id # m.id
    BY <2>1, Kinds, ProtocolAssumption DEF LinkInv, SentInv
  <2>4. /\ network' \cap Reliable = (network \cap Reliable) \cup {m}
        /\ network' \cap Snapshot = network \cap Snapshot
    BY <2>1, <2>2
  <2>5. QED  BY <2>1, <2>3, <2>4 DEF Promise!Offer, hostVars
<1>2. ASSUME NEW p \in pending, PumpEvent(p) PROVE UNCHANGED Promise!vars
  <2>1. p.message \in network  BY DEF LinkInv, SentInv
  <2>2. network' = network /\ UNCHANGED hostVars
    BY <1>2, <2>1 DEF PumpEvent
  <2>3. QED  BY <2>2 DEF Promise!vars, hostVars
<1>3. CASE SendSnapshot
  <2> DEFINE c == CurrentSnapshot
  <2>1. network' = network \cup {c} /\ UNCHANGED hostVars
    BY <1>3 DEF SendSnapshot
  <2>2. c \in Snapshot /\ c.generation = clientGeneration /\ c.held = down
    BY CurrentSnapshotFacts DEF LinkInv
  <2>3. c \notin Reliable  BY <2>2, Kinds
  <2> HIDE DEF c
  <2>4. ASSUME NEW t \in network \cap Snapshot
        PROVE  t.generation =< c.generation /\ (t.generation = c.generation => t = c)
    <3>1. t.generation =< c.generation /\ (t.generation = c.generation => t.held = c.held)
      BY <2>2 DEF LinkInv, GenerationNamesHeldSet
    <3>2. t.generation = c.generation /\ t.held = c.held => t = c
      BY <2>2 DEF Snapshot
    <3>3. QED  BY <3>1, <3>2
  <2>5. /\ network' \cap Reliable = network \cap Reliable
        /\ network' \cap Snapshot = (network \cap Snapshot) \cup {c}
    BY <2>1, <2>2, <2>3
  <2>6. Promise!Publish(c)  BY <2>1, <2>4, <2>5 DEF Promise!Publish, hostVars
  <2>7. QED  BY <2>2, <2>6, SameProtocol DEF Promise!Next
<1>4. CASE SendBeat
  <2>1. network' = network \cup {[kind |-> "beat"]} /\ UNCHANGED hostVars
    BY <1>4 DEF SendBeat
  <2>2. QED  BY <2>1, BeatFacts DEF Promise!vars, hostVars
<1>5. CASE \E a \in acks : ReceiveAck(a)
  BY <1>5 DEF ReceiveAck, Promise!vars, hostVars, linkVars
<1>6. CASE \E m \in network : Deliver(m)  BY <1>6, DeliverIsPromised
<1>7. CASE GiveUp
  <2>1. Promise!LetGo  BY <1>7 DEF GiveUp, Expire, Sweep, Promise!LetGo
  <2>2. QED  BY <2>1 DEF Promise!Next
<1>8. CASE UNCHANGED vars  BY <1>8 DEF vars, hostVars, linkVars, Promise!vars
<1>9. CASE \E m \in Reliable : SendEvent(m)
  BY <1>1, <1>9, SameProtocol DEF Promise!Next
<1>10. QED
  BY <1>2, <1>3, <1>4, <1>5, <1>6, <1>7, <1>8, <1>9 DEF Next

\* Whatever is lost, duplicated, reordered, retransmitted or given up, the
\* link does only what InputPromise allows.
THEOREM LinkKeepsPromise == Spec => KeepsPromise
<1>1. Init => Promise!Init
  BY DEF Init, HostInit, Promise!Init, None
<1>2. LinkInv /\ [Next]_vars => [Promise!Next]_Promise!vars
  BY StepIsPromised
<1>3. QED
  BY <1>1, <1>2, LinkInvariance, PTL DEF Spec, KeepsPromise, Promise!Spec
=============================================================================
