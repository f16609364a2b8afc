------------------------------ MODULE PhaseLoop ------------------------------
(***************************************************************************)
(* The loop that holds the phase of the host's frames against the client's *)
(* display (macos/client/src/phase.rs): frames are harvested from the      *)
(* telemetry, a batch of them is judged, and the host is asked to hold one *)
(* frame back, over a connection that takes its time.                      *)
(*                                                                         *)
(* Time passes in slices of the stream, all frames of a slice sharing one  *)
(* phase; lengths are microseconds.  The host is external: it obeys each   *)
(* request once, in the order sent, some slices after it was sent.  The    *)
(* scatter of a run is chosen, and so is whether pickups were cadenced;    *)
(* the creep of the clocks against each other is left out.                 *)
(***************************************************************************)
EXTENDS Integers, Sequences, FiniteSetsExt

CONSTANTS Period,        \* the source period
          MarginFloor,   \* MARGIN_FLOOR
          DeadZone,      \* DEADZONE
          HarvestEvery,  \* HARVEST, in slices
          DecideEvery,   \* DECIDE_EVERY, in slices
          Settle,        \* SETTLE, in slices
          MinSamples,    \* MIN_SAMPLES, in slices
          Onsets,        \* phases a run may find
          Scatters,      \* standard deviations the batches of a run may show
          Landings,      \* slices until the host obeys
          Decisions,     \* bound: decisions of a run
          MaxFaults      \* bound: frozen slices, refused batches and failed sends

ASSUME PhaseAssumption ==
    /\ Period \in Nat \ {0, 1} /\ MarginFloor \in Nat /\ DeadZone \in Nat
    /\ HarvestEvery \in Nat \ {0} /\ DecideEvery \in Nat /\ Settle \in Nat
    /\ MinSamples \in Nat \ {0} /\ Onsets \subseteq 0..(Period - 1)
    /\ Scatters \subseteq Nat /\ Landings \subseteq Nat \ {0}
    /\ Decisions \in Nat /\ MaxFaults \in Nat

VARIABLES phase,    \* how far ahead of the deadline frames become ready now
          scatter,  \* how far the phases of this run's batches scatter
          epoch,    \* requests the host has obeyed
          tardy,    \* ghost: those obeyed later than Settle after they were sent
          taken,    \* slices picked up since the last harvest
          ignored,  \* slices still to come before settled_at
          batch,    \* slices harvested for the next decision
          wire,     \* requests on their way: delay, slices to go, slices on the way
          thread,   \* the loop: asleep for so many slices, deciding, or sending
          faults,
          judged,   \* ghost: decisions made of one phase and carried out
          verdict   \* ghost: the error the last of these was made from

phaseVars == <<phase, scatter, epoch, tardy, taken, ignored, batch, wire, thread,
               faults, judged, verdict>>

Frozen == [phase |-> 0, epoch |-> -1]  \* a slice in which nothing was picked up
Asleep(n) == [at |-> "asleep", left |-> n, delay |-> 0]

PhaseInit ==
    /\ phase \in Onsets /\ scatter \in Scatters
    /\ epoch = 0 /\ tardy = {}
    /\ taken = <<>> /\ ignored = 0 /\ batch = <<>>
    /\ wire = <<>>
    /\ thread = Asleep(HarvestEvery)
    /\ faults = 0 /\ judged = 0 /\ verdict = 0

-----------------------------------------------------------------------------
(* The arithmetic of the circle. *)

Magnitude(n) == IF n < 0 THEN -n ELSE n

\* error_ns: the shortest signed way from the target to the phase.
ErrorOf(p, target) ==
    LET e == p - target
    IN  IF e > Period \div 2 THEN e - Period
        ELSE IF e <= -(Period \div 2) THEN e + Period ELSE e

\* GAIN, towards zero as a cast does.
Half(e) == IF e < 0 THEN -((-e) \div 2) ELSE e \div 2

\* Defect: a request about the past is not made.
DelayFor_Clamped(correction) == IF correction < 0 THEN 0 ELSE correction

\* delay_for: a correction backwards is the rest of a period.
DelayFor(correction) == correction % Period

\* margin_for: three deviations, at least the floor, at most a third of a period.
MarginFor(spread) == Min({Max({3 * spread, MarginFloor}), Period \div 3})

\* The slices of a batch in which frames were picked up.
Sampled(b) == {i \in DOMAIN b : b[i] # Frozen}

\* centre, of phases that cluster: the mean of the short ways from the first.
Centre(b) ==
    LET seen == Sampled(b)
        first == b[Min(seen)].phase
        sum == FoldFunctionOnSet(+, 0, [i \in seen |-> ErrorOf(b[i].phase, first)], seen)
    IN  (first + sum \div Cardinality(seen)) % Period

\* How much stream a batch covers, first pickup to last.
Span(b) ==
    LET seen == Sampled(b)
    IN  IF seen = {} THEN 0 ELSE Max(seen) - Min(seen)

OnePhase(b) == \A i, j \in Sampled(b) : b[i].epoch = b[j].epoch

-----------------------------------------------------------------------------
(* The host, the display and the wire. *)

\* A slice of stream is picked up, or the link stands still for one, while the
\* loop sleeps or is kept by a send, and requests come nearer the host.
Pass(slice) ==
    /\ thread.at \in {"asleep", "sending"} /\ thread.left > 0
    /\ \A i \in DOMAIN wire : wire[i].left > 0
    /\ taken' = Append(taken, slice)
    /\ wire' = [i \in DOMAIN wire |->
                  [wire[i] EXCEPT !.left = @ - 1, !.since = @ + 1]]
    /\ thread' = [thread EXCEPT !.left = @ - 1]
    /\ UNCHANGED <<phase, scatter, epoch, tardy, ignored, batch, judged, verdict>>

Flow == Pass([phase |-> phase, epoch |-> epoch]) /\ UNCHANGED faults
Freeze == faults < MaxFaults /\ Pass(Frozen) /\ faults' = faults + 1

\* The host holds one frame back, and every later one with it.
Obey ==
    /\ wire # <<>> /\ Head(wire).left = 0
    /\ phase' = (phase - Head(wire).delay) % Period
    /\ epoch' = epoch + 1
    /\ tardy' = IF Head(wire).since > Settle THEN tardy \cup {epoch + 1} ELSE tardy
    /\ wire' = Tail(wire)
    /\ UNCHANGED <<scatter, taken, ignored, batch, thread, faults, judged, verdict>>

-----------------------------------------------------------------------------
(* The loop. *)

loopOnly == <<phase, scatter, epoch, tardy>>

\* harvest and observe: what is new since the last time, less what was picked
\* up before the last request could have taken effect.
Harvest ==
    /\ thread = Asleep(0)
    /\ LET news == SubSeq(taken, ignored + 1, Len(taken))
           full == IF batch = <<>> /\ Sampled(news) = {} THEN <<>> ELSE batch \o news
       IN  /\ batch' = full
           /\ thread' = IF Span(full) < DecideEvery THEN Asleep(HarvestEvery)
                        ELSE [thread EXCEPT !.at = "deciding"]
    /\ taken' = <<>>
    /\ ignored' = Max({ignored - Len(taken), 0})
    /\ UNCHANGED <<wire, faults, judged, verdict, loopOnly>>

\* judge: too few samples, or pickups that are not a refresh apart, or no one
\* phase in them.
Decline ==
    /\ thread.at = "deciding" /\ judged < Decisions
    /\ \/ Cardinality(Sampled(batch)) < MinSamples /\ UNCHANGED faults
       \/ ~OnePhase(batch) /\ UNCHANGED faults
       \/ faults < MaxFaults /\ faults' = faults + 1
    /\ batch' = <<>>
    /\ thread' = Asleep(HarvestEvery)
    /\ UNCHANGED <<taken, ignored, wire, judged, verdict, loopOnly>>

\* A decision of one phase, with no request still on its way.
Counts(b) == wire = <<>> /\ OnePhase(b)

\* judge and decide: the aim is revised before the error is taken; within the
\* dead zone, or with nothing left to ask for, the phase is left alone.
Decide ==
    /\ thread.at = "deciding" /\ judged < Decisions
    /\ Cardinality(Sampled(batch)) >= MinSamples
    /\ LET error == ErrorOf(Centre(batch), MarginFor(scatter))
           delay == DelayFor(Half(error))
           hold == Magnitude(error) <= DeadZone \/ delay = 0
       IN  /\ thread' = IF hold THEN Asleep(HarvestEvery)
                        ELSE [at |-> "sending", left |-> 1, delay |-> delay]
           /\ IF Counts(batch) THEN judged' = judged + 1 /\ verdict' = error
              ELSE UNCHANGED <<judged, verdict>>
    /\ batch' = <<>>
    /\ UNCHANGED <<taken, ignored, wire, faults, loopOnly>>

\* Defect: the settle window is counted from the decision, not from the send.
Ask_SettledBefore(landing) ==
    /\ thread.at = "sending"
    /\ wire' = Append(wire, [delay |-> thread.delay, left |-> landing, since |-> 0])
    /\ ignored' = Max({Settle - Len(taken), 0})
    /\ thread' = Asleep(HarvestEvery)
    /\ UNCHANGED <<taken, batch, faults, judged, verdict, loopOnly>>

\* send and shifted: the request is on the wire, and only now does the settle
\* window begin; what was picked up before is of the old phase.
Ask(landing) ==
    /\ thread.at = "sending"
    /\ wire' = Append(wire, [delay |-> thread.delay, left |-> landing, since |-> 0])
    /\ ignored' = Len(taken) + Settle
    /\ thread' = Asleep(HarvestEvery)
    /\ UNCHANGED <<taken, batch, faults, judged, verdict, loopOnly>>

\* send fails: nothing moves and there is nothing to wait out.
AskFails ==
    /\ thread.at = "sending" /\ faults < MaxFaults
    /\ thread' = Asleep(HarvestEvery)
    /\ faults' = faults + 1
    /\ judged' = Max({judged - 1, 0})
    /\ UNCHANGED <<taken, ignored, batch, wire, verdict, loopOnly>>

PhaseNext ==
    \/ Flow \/ Freeze \/ Obey \/ Harvest \/ Decline \/ Decide
    \/ \E landing \in Landings : Ask(landing)
    \/ AskFails

PhaseSpec == PhaseInit /\ [][PhaseNext]_phaseVars

-----------------------------------------------------------------------------
Slice == [phase : 0..(Period - 1), epoch : Nat] \cup {Frozen}

PhaseTypeOK ==
    /\ phase \in 0..(Period - 1) /\ scatter \in Scatters
    /\ epoch \in Nat /\ tardy \subseteq 1..epoch
    /\ taken \in Seq(Slice) /\ batch \in Seq(Slice) /\ ignored \in Nat
    /\ wire \in Seq([delay : 0..(Period - 1), left : Nat, since : Nat])
    /\ thread \in [at : {"asleep", "deciding", "sending"}, left : Nat, delay : 0..(Period - 1)]
    /\ faults \in 0..MaxFaults /\ judged \in 0..Decisions
    /\ verdict \in -Period..Period

\* No decision averages the two sides of a correction, which describes neither
\* (phase.rs, SETTLE): frames gathered for one decision were all picked up
\* under the same requests, unless one took longer than SETTLE to be obeyed.
OneBatchOnePhase ==
    \A i, j \in Sampled(batch) :
      \A e \in (batch[i].epoch + 1)..batch[j].epoch : e \in tardy

\* "Reaching the dead zone from the worst possible starting phase in five
\* decisions" (phase.rs, GAIN): from then on every phase measured lies in the
\* dead zone of the aim, on whichever side of the wrap the run began, and a
\* request that is obeyed late does not set the loop ringing.
AimIsHeld == judged > 5 => Magnitude(verdict) <= DeadZone

\* The loop judges one phase at a time and so comes to its aim and stays there:
\* no batch mixes the two sides of a request, and from the sixth judgement on
\* the phase lies in the dead zone.
PhaseIsHeld == OneBatchOnePhase /\ AimIsHeld
=============================================================================
