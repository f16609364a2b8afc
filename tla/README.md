# Lanplay in TLA+

Lanplay streams a Windows desktop to a Mac over one LAN: the Windows host
captures, encodes and sends video and audio and injects input; the macOS client
decodes, presents, plays, and captures input. This directory holds TLA+ modules
of the parts of it that keep state under loss, reordering, concurrency and
failure, the TLC configurations that check them on small instances, and TLAPS
proofs of what holds for every instance. `PROJECT.json` names every run, the
properties it checks, a plausible bug each property catches, and the source
lines behind every definition.

Contents: [the system](#the-system) · [what the models say](#the-modules) ·
[runs](#runs) · [what disagrees](#where-code-and-comments-disagree) ·
[proofs](#proofs) · [abstractions](#abstractions-and-bounds) ·
[what is left out](#what-is-not-modelled) · [plan](#plan)

## The system

```
 client (macOS)                                        host (Windows)
 keyboard, mouse -> capture machine -> reliable sends ==UDP==> input state -> SendInput
                                          <==acknowledgements==
 controller -> DS4 sender ====================UDP============> gamepad slots -> bridge -> HID
 display <- renderer <- slot <- decoder <- reassembly <==RTP== packetizer <- NVENC <- capture
 speaker <- PCM ring <- jitter buffer <======RTP============== Opus <- WASAPI
 control client <==================== TCP ===================> control server, sessions
```

| Part | State it keeps | Operations | Why it is hard | What makes it correct |
|---|---|---|---|---|
| Capture machine (`macos/input-capture/src/capture.rs`, `focus.rs`, `cursor.rs`, `bin/probe.rs`) | captured or not, the presses of the release combination held back, the click owed, calls owed to the window server | key, button, wheel, focus loss and regain, session failure, settle cursor, finish | transitions are held back and released later; the window server answers after the fact and may refuse; a loss may come between click and answer | every transition sent once and in order; nothing after a release; never half captured; the click that asked is swallowed with its own up and no other |
| Reliable sends (`reliable.rs`) | id counter, outstanding events with attempts, held set and generation | send, retransmit, abandon, take acknowledgement, snapshot | retry races a late acknowledgement; an acknowledgement covers a window only | every event is settled once, in one way; the ladder ends |
| Host input state (`windows/input-inject/src/state.rs`, `probe.rs`) | held controls, deduplication window, release barrier, last snapshot generation, liveness | apply event, apply snapshot, expire, begin session | duplicates older than the window; a release overtaken by what precedes it; silence | at most one injection per event; nothing before a release after it; what the OS holds is what the host believes |
| Gamepad host (`gamepad.rs`, `bin/gamepad_inject_probe.rs`, `hidmaestro-bridge`) | a slot per controller: generation, newest sequence, virtual device, idle deadline | attach, detach, state, idle sweep, stop | wrapping sequence numbers; devices of dead senders; a bridge that misuses handles | devices driven only between create and destroy; newest state wins; no controller outlives its sender |
| Gamepad sender (`bin/ds4_hidapi_sender.rs`) | phase, generation, ids | attach and detach until acknowledged, send states, recover the device | retries across processes | as above, with the host |
| Video reassembly (`transport/src/reassembly.rs`, `h264.rs`, `rtp.rs`) | cursor, reorder ring, the unit being assembled, finished units waiting | push, drain, force forward, packetize | loss, repeats, reordering, the 16-bit wrap, fixed memory | units whole, in order and once; the loss counter exact |
| Audio receive (`audio-codec/src/jitter.rs`, `transport/src/opus.rs`) | playout cursor, slots, repeats seen, counts | push, pull, skip to the ceiling | late, repeated and bursty packets | each moment played once or concealed; latency bounded; samples accounted |
| Audio source (`audio-codec/src/e2e_sender.rs`, `audio-capture/src/accounting.rs`, `session.rs`) | where the next packet should start, the totals of the device, the counts of the sender, the packetizer's number and timestamp | wait, drain, record, cut, encode, number, send, release | the device skips and rewinds; a sample can be lost by six exits, each with its own count | positions and samples balance; number and timestamp move together, a frame at a time |
| Picture pipeline (`tools/nvenc-probe/src/main.rs` over `encoder-nvenc/src/lib.rs`) | free slots, work queue, failure flag, what the encoder does with each slot | take a slot, draw, submit, queue; wait, copy, send, give back; give up, collect | two threads and the hardware share a texture and an output per slot; a frame may never end, and one that fails must be the last | the wire holds the first frames without a gap; no slot lost, doubled or overwritten; the run ends and is judged rightly |
| Screen capture (`windows/capture/src/wgc.rs`) | pool, flags of arrival and of loss, waiting consumer | frame arrived, closed, acquire, drain, restart | callbacks on the compositor's threads race the drain, the clearing of the flag and the wait | no frame is slept through |
| PCM ring (`audio-render/src/ring.rs`, `receive.rs`, `stream.rs`) | two cursors, counts | fill, drain | lock-free between a thread and a real-time callback | no frame read before it is written or written before it is read |
| Decoder and slot (`decoder-videotoolbox/src/shared.rs`, `session.rs`, `renderer-metal/src/slot.rs`, `renderer.rs`) | backlog, one pending frame, the counters of the render loop | submit, callback, flush, publish, take, draw | callbacks on other threads, counts outside the lock | backlog exact, every picture shown, superseded or still held |
| Control plane (`transport/src/control.rs`) | session table, frame reader, what is on the wire | accept, hello, configure, acknowledge, phase shift, drop | partial reads and writes, timeouts, silent and leaving peers | media only to a bound receiver with a decoder; framing never lost; a wait ends |
| Session lifecycle (`protocol/src/session.rs`) | state, generation, acknowledged channels | apply event, acknowledge channel | late answers of an earlier generation; no program drives it yet | only current acknowledgements start a session |
| Client shell (`client/src/session.rs`, `transport.rs`) | stop flags, progress counter, marks | receive loop, watchdog, join | threads that wait on each other | the run ends, with what arrived accounted for |
| Phase loop (`client/src/phase.rs`) | the batch, the settle window, the aim | harvest, judge, ask | the phase is a point on a circle, a request can only delay, and takes its time to be obeyed | no decision over two phases; the aim is reached and held |
| Monitor, gates (`client/src/monitor.rs`, `gate.rs`, `network-health`, `link-metrics`) | windows of measurements | observe, classify | floating point, statistics | verdicts from behaviour only |
| Key monitor (`input-capture/src/keyboard.rs`) | the modifiers believed down | deliver, apply | two keys share one flag, and one flag is not its key's | the transitions reported are those the keys made |
| Telemetry (`crates/telemetry`) | queue of marks, ring of frames being assembled, fold count | mark, collect, fold, flush, shut down | bounded queue, reused slots, a flush that reads two things apart | what a flush or shutdown claims to have seen is there |
| Video formats (`video-formats/src/annexb.rs`, `transport/src/h264.rs`, the bytes in `reassembly.rs`) | cursor in a stream, the unit being rebuilt | split, group, rewrite as AVCC, fragment, rebuild | start codes of two lengths, padding, lengths of several bytes, fragments whose header is shared out | the decoder reads the NAL units the encoder wrote |
| Devices, injection, codecs, reports, tools | device handles, statistics, text | platform calls | vendor APIs | left to tests, see below |

They interact by datagrams (input, gamepad, video, audio), one TCP connection
(control), and inside a process by callbacks and a few shared objects: the
decoder's callback publishes into the slot the display link takes from; the
jitter buffer is behind a mutex between the receive thread and the producer; the
PCM ring has no lock. The input path and the gamepad path are separate programs
with separate sockets; both are single-threaded loops around a socket, so the
interleavings that matter there are those of messages, deadlines and failures.

## The modules

| Module | Models |
|---|---|
| `InputProtocol` | the datagrams of the input path and which carry an id |
| `Dedup` | the deduplication window as a set of ids above a base |
| `DedupBits` | the same window as the code stores it: words of bits slid in place |
| `HostState` | the host: apply, sweep, barrier, snapshot, expiry, sessions, and the receive loop |
| `ReliableClient` | the client's sends, retransmission ladder and acknowledgement verdicts |
| `InputLink` | client and host over a network; liveness; the claims the code does not keep |
| `InputPromise` | the abstract specification that `InputLink` implements |
| `CaptureMachine` | the capture machine, its sink, the focus flags, the cursor link, the turns of the loop |
| `KeyMonitor` | the keyboard monitors that feed the capture: directions derived from flags |
| `GamepadHost` | the slots and the bridge's command discipline |
| `GamepadLink` | sender processes, network and gamepad host |
| `Depacketizer` | the ring, the cursor, the forced advance and the assembler, one step for each turn of the loops of `force_forward` and `drain` |
| `MediaLink` | packetizer, network and depacketizer |
| `ControlPlane` | control server and clients: accept, hello, table, frame reader, configuration, phase requests, drops |
| `ClientRun` | a run of the client: receive thread, decoder callback, slot, render loop in both drive modes, watchdog, join |
| `PictureBytes` | the bytes of a picture: Annex B, AVCC, payloads, and the assembler's copy |
| `VideoHost` | the host's pictures: submit and completion threads, slots, encoder, wire |
| `ScreenCapture` | the pool the compositor fills, its callbacks, the consumer and its retries |
| `PhaseLoop` | the loop that asks the host to hold frames back, and a host that obeys in its own time |
| `Telemetry` | recorders, the collector thread, flush and shutdown |
| `JitterBuffer` | admission by timestamp, the playout position, concealment, the ceiling, the counts |
| `PcmRing` | the lock-free ring at the grain of its loads, copies and stores |
| `BoundedQueue` | the abstract specification that `PcmRing` implements |
| `AudioSource` | the host's sound: drain loop, position accounting, cutting, encode, packetizer, socket |
| `AudioLink` | the four threads of the audio receiver around buffer and ring, with a network before them |
| `InputLinkProofs`, `CaptureProofs`, `SessionProofs`, `AudioProofs`, `HostProofs`, `TelemetryProofs`, `ReassemblyProofs`, `PictureProofs` | theorems |
| `MC...` | constants of the runs |

`InputLink` extends `ReliableClient` and `HostState`, which share `InputProtocol`;
`HostState` extends `Dedup`. `GamepadLink` extends `GamepadHost`, `MediaLink`
extends `Depacketizer`, `AudioLink` extends `JitterBuffer` and `PcmRing`. Four MC
modules put parts side by side that share no state, with a variable `part` that
says which of them a behaviour explores, so that their states add up rather than
multiply: `MCHostState` (the host, the word array of its window, and what runs beside
it: `AudioSource`, `VideoHost`, `ScreenCapture`, `GamepadLink`), `MCSession`
(`ControlPlane` up to the acknowledgement, and the `ClientRun` it starts),
`MCFrames` (`MediaLink`, `PictureBytes`, `Telemetry`, `PhaseLoop`) and
`MCCaptureMachine` (the capture, and the `KeyMonitor` that feeds it). Definitions
whose name ends in `_Something` are defects: mutated forms of the definition
before the underscore.

**Names.** Module state follows the source: `HostState.held`, `barrier`,
`generation`, `dedup` are fields of `HostState`; `ReliableClient.pending`,
`nextId` are fields of `Reliable`; `CaptureMachine.state`, `held`, `owed` are
fields of `Machine` and `sink` is what the probe's `Sink` believes down;
`Depacketizer.cursor`, `lost` are fields of the depacketizer, `reorder` is its `Ring`, the
record `asm` has the fields of `Assembler` with the finished units, and `progress`, `target`,
`left`, `gap` are where a push is and the locals of `force_forward`.
History variables exist for the properties only: `told` (what the OS was told is
held), `injections`, `generationAt`, `expiries`; `made` and `sent` in the capture;
`count` and `window` in the gamepads; `assembled`, `handed`, `stopped` and `asm.crowded` in the
depacketizer; `heard` in the ring; `window` and `novel` beside the host's bitmap; `skipped` in the audio source, and the
`step` and `at` of its datagrams, which say when and where their frame was captured; `epoch`, `tardy`,
`judged` and `verdict` in the phase loop; `onWire` in the pictures, with the picture beside its label; `told` and `before` in the key monitor.

**Networks.** `network` and `acks` are sets of datagrams that only grow. A
datagram may be delivered at any later time, any number of times, or never: that
is loss, duplication and reordering at once, and a send the socket refuses is a
datagram nobody delivers.

**The capture's turn.** The capture runs on one thread. A turn takes at most one
input event and any number of focus notifications, then the code's fixed order:
the loss flag, the regain flag, the cursor. `hands` is the physical keyboard and
mouse: a control comes up only if it was down.

**Threads.** `AudioLink` and `ClientRun` give every thread of the code a place of
its own and one action per stretch between two accesses another thread can see: an
atomic load or store, a lock held, a callback. `PcmRing` splits a fill and a drain
into the load of the other side's cursor, the copy and the store that publishes it.
In `VideoHost` the submit thread, the completion thread and the encoder each have
their own steps, and meet over two channels and a flag; in `ScreenCapture` the
compositor's two callbacks come at any step of the consumer.
`Telemetry.flush` reads the queue and the fold count in two steps, as the code does.

## Runs

| Run | Question | Bounds |
|---|---|---|
| `host_any_datagram` | Is the host safe against every datagram of two sessions, in any order, with expiry and new sessions? Does the word array hold the same window as the set? Does the sound the host sends account for every sample, and do its timestamps count them? Is what the wire holds of the pictures true, whatever fails? Is a frame of the screen slept through? Devices in order, newest state, and no controller after its sender? | ids 0..4 against a window of 2, so the window slides past ids and holes; three words of two bits, so every slide crosses words. Three packets of 3 or 4 samples against frames of 2, each in its place, skipping one or going back two, timestamps modulo 8 and numbers modulo 4 starting just before the wrap, one error of the endpoint. The real four slots and six frames, so every slot is used again. Two buffers, five frames of the screen, two restarts. Two sender processes, sequence numbers modulo 4 with five sends, so they wrap; one recovery |
| `input_link` | Do client, network and host together keep the promise and the accounts? | three events, one control; no retransmissions, because the network keeps every datagram anyway and a retransmission changes only the count of attempts |
| `input_link_fair` | Does every event end, does a release settle, does a fresh snapshot repair? | two events, two retransmissions, one silence |
| `capture` | What is sent, in which order, and what a release ends; are the transitions reported those the keys made? | both command keys, control, alt, tab, two buttons; three transitions made per run, which reaches a full gesture, its near misses and a second capture. Two pairs sharing a flag, the lock, a key without a flag and a letter, any of them down at the start |
| `frames` | What the decoder gets and what the counters say under every loss, repeat and reordering; do the bytes survive two rewritings and the fragments; what a flush and a shutdown have seen; does the phase loop reach its aim and hold it? | eight packets of five unit shapes, window 4, room for 2, ceiling of 3 payloads, starting at 0 or before the wrap of 16. Streams of up to three NAL units, of lengths just below, at and just above a datagram and longer than one digit of a length says, behind both start codes, padded or not. Three marks of three frames through a queue of 2 and a ring of 2, three turns of the collector. The real period, floor and dead zone in microseconds, batches of 4 slices, requests obeyed within the settle window or two slices after it, one fault, seven decisions, from the worst phase and both sides of the wrap |
| `audio` | No moment twice, samples accounted to the last, the ring a bounded queue, every run ends | frames of 2 samples, target 1, ceiling 2, ring of 3; two streams of four packets across the wrap of 8, one with a frame off the grid; three pulls, four arrivals, one short device cycle |
| `session` | Media only for a bound receiver; framing; backlog and pictures accounted; every wait and the run end | two connections, one accepting thread, a table of one, two phase requests; two units, three refreshes, watchdog limits of 1, 2 and 4 polls |
| `snapshot_last_resort`, `retired_unapplied`, `reassembly_holes`, `session_drain`, `screen_closed` | a comment the code contradicts | the smallest that shows it |

Bounds are named constants (`MaxEvents`, `MaxExpiries`, `MaxRetransmissions`,
`MaxSends`, `MaxRecovers`, `MaxMade`, `MaxPackets`, `MaxArrivals`, `Pulls`,
`MaxUnits`, `MaxTicks`, `MaxShifts`, `MaxMarks`, `MaxFolds`, `Decisions`, `MaxFaults`,
`MaxCaptured`, `MaxErrors`, `FrameCount`, `MaxRendered`, `MaxRestarts`, `MaxNals`) and appear in guards only.
Proportions are kept rather than sizes: the real window of 128 ids is wider than
its 32-bit acknowledgement, a reorder window of 64 is wider than the 8 places for
finished units, and the circle of sequence numbers is at least twice what is in
flight; a device cycle and a ring are no multiple of a frame. The bounds of `audio`
reach a concealment, an underrun, a skip to the ceiling, a refused fill and a wrap of
the ring; those of `session` a full table, a torn shift and every end of the run. Deadlock checking is off where a bounded system really stops sending.

What the passing runs show, in short:

* **Host.** Whatever arrives, the OS holds what the host believes; no event is
  injected twice; below the barrier nothing is injected. The words and shifts of the
  stored window agree with the set they stand for after every slide. The sound it
  sends balances: where the device is equals where it began, plus what was delivered
  and missing, less what it went back over; every captured sample was encoded, is in
  hand, or left by a counted exit. Number and timestamp advance together. A frame the
  socket refused leaves a hole in both, which the receiver conceals; a gap of the
  device, a residue, a failed encode or a refused payload leaves none, so what follows
  is heard that much earlier. While none of these happened, a timestamp is the place in
  the captured sound (`SoundIsAccounted`). The pictures on the wire are the first of the
  run, in order, each under its own number, even when a frame fails while later ones
  are in the encoder; a run is called good only if all went out (`StreamIsTrue`); a slot
  is always in exactly one place, and is neither drawn into nor free while the encoder
  reads it unless a frame failed (`SlotsAreSound`). A consumer of the screen that sleeps
  has seen everything that arrived, or its wake is on the way (`NothingSleptThrough`).
* **Link.** Every event is outstanding, acknowledged or abandoned and only one of
  them; a generation names one held set; the
  whole refines `InputPromise`.
* **Capture.** Held-back presses go out in order or not at all, nothing is given an
  id after the release's, a refused call to the window server leaves neither a
  captive cursor nor a machine that refuses everything, and the click that asked for
  capture is swallowed with exactly its own up. The key monitor reports exactly the
  transitions the keys made, of every key it saw go down.
* **Gamepads.** No command reaches a slot out of order, every attached slot is
  watched, a state older than the newest is never shown, and once its sender is gone
  a controller is destroyed.
* **Frames.** (`ReceiverSound`, `LossIsExact`) A handed-on unit is a run of whole NAL units up to its end; units
  come in order and once; a hole that begins in a unit never leaves that unit handed
  on; the loss counter is exact, and reordering within the window and repeats cost no
  unit. The NAL units the encoder wrote are, byte for byte, those the decoder walks in
  what it is given, and a fixture has one picture for each slice and keeps every
  parameter set (`BytesSurvive`). A flush that succeeds has folded every mark queued
  before it, wherever the collector was, because it waits for two folds (one is not
  enough); a shutdown's snapshot tells every frame started as presented or
  incomplete. A batch of the phase loop never holds frames from both sides of a
  request, unless one was obeyed later than SETTLE allows (`PhaseIsHeld`); and after five decisions
  made of one phase and carried out, every later error measured is in the dead zone,
  from either side of the wrap. Five is tight: with four the run finds a start that
  is still outside.
* **Audio.** What the device hears only moves forward in the stream; position and counters agree
  through every concealment, underrun and skip; fill and drain never meet in a cell,
  and the ring is a bounded queue; the samples expected are those played, concealed
  and left, over counters of three threads.
* **Session.** Media is offered to a client only after it acknowledged with its
  decoder made and its socket bound; a phase request arrives whole or not at all
  within what the reader takes for a message; `in_flight` is what lies between
  submit and the end of a callback; every picture published is shown, superseded,
  held or in one thread's hands.

### Liveness and its fairness

* `LadderEnds`: the pump runs on every turn of the client's loop until nothing is
  due (`reliable.rs`, `bin/probe.rs`), so weak fairness per event id.
* `ReleaseSettles`, `FreshSnapshotRepairs`: snapshots are sent for as long as the
  session lasts and a link that carries some of them delivers the latest sooner or
  later: weak fairness of sending a snapshot and of delivering the current one. No
  fairness of any other datagram is assumed, nor of acknowledgements.
  `FreshSnapshotRepairs` asks for a generation newer than the last applied and no
  further silence; without either it is false, which is `snapshot_last_resort`.
* `NoControllerOutlivesItsSender`: the host's idle sweep runs on each turn of its
  loop; weak fairness of the sweep, and only once the sender is gone.
* `EveryWaitEnds`: the accept loop runs and the timeouts set on each socket fire;
  nothing is assumed of any client, which may be silent for ever. In the
  model a connection holds an acceptor until its hello is in or its budget is over; the
  budget is in fact given to each read (see below), so a peer that trickles its bytes
  waits longer than the model shows, though not for ever.
* `PicturesEnd`: the submit and the completion thread go on while they can, and the
  calls they make into driver, socket and capture return (a capture gives up after a
  second). The encoder alone owes nothing: it may never signal, and the wait for it has
  its ceiling of two seconds (`encoder-nvenc/src/lib.rs:786`).
* `ClientRunEnds`: threads that can go on do, the watchdog polls, the decoder's
  callback returns. Nothing promises a unit, a refresh or a message of the host.
* `RunEnds` (audio): the deadlines pass, the producer keeps its schedule, the receive
  loop sees its flag at the next timeout, a callback under way returns. Nothing
  promises a packet. A device that fails to start is excepted: see below.

## Where code and comments disagree

| Run | Comment | Code |
|---|---|---|
| `snapshot_last_resort` | the snapshot is the repair of last resort (`reliable.rs:35`) | a snapshot of the generation last applied is stale (`state.rs:371`), so a retransmitted press applied after it stays down |
| `retired_unapplied` | acknowledged counts events the host had applied (`reliable.rs:94`) | holes between the window's base and its oldest bit are never reported missing (`state.rs:600`), so the client retires an event the host never saw |
| `reassembly_holes` | a damaged access unit is dropped, never handed on (`reassembly.rs:17`) | a gap from the end of one unit into the next is charged to the first only (`reassembly.rs:684`); the second is handed on without its first NAL units |
| `screen_closed` | a consumer parked in `acquire` is woken when the capture closes (`wgc.rs:358`) | `acquire` reads the mark of loss (`wgc.rs:488`) before it clears the signal (`wgc.rs:503`): a close in between is the signal that is cleared, and the consumer waits out its timeout |
| `session_drain` | no frame arrives after the last access unit, so the drain adds none (`session.rs:257`, and `gate.rs:335` compares for equality) | the watchdog marks at the submission of the last unit (`session.rs:462`), before its callback and its refresh |

The models contain the following disagreements too; no run has the wrong claim as
its property.

* *Behind the barrier.* Nothing before a release may recreate held state, however
  late (`state.rs:200`); a snapshot carries no id and is not compared with the
  barrier (`state.rs:376`). `ReleaseSettles` says what remains true: it settles.
* *A full ready queue.* Nothing completed is ever thrown away (`reassembly.rs:57`);
  the forced advance assembles a whole window before the caller takes anything, and
  units beyond `READY_CAPACITY` are dropped (`reassembly.rs:654`). `drain` stops at a
  full queue with the cursor's own packet still in the ring, so the stream waits
  although nothing is missing; if that packet is then repeated it is assembled
  directly and its slot stays filled. `RingIsAhead` (in `ReceiverSound`) is stated up to the first such
  stop (`stopped` in `Depacketizer`). The unit in which the stream is joined may lack
  its beginning, which a test accepts (`reassembly.rs:824`), so `HolesAreNotHandedOn`
  excepts it.
* *A slot used again.* Reusing a texture or an output too early is said to be
  unrepresentable (`encoder-nvenc/src/lib.rs:273`). That holds of a frame whose bitstream
  was locked; one whose wait ran out gives its slot back with the encoder still at it.
  The flag then stops further frames, so `NoneIsOverwritten` is stated until a failure,
  and `WireHoldsNoGap` after it too.
* *Half a circle.* A video packet more than half the circle of sequence numbers late, or
  the first after such an outage, is taken for its opposite (`rtp.rs:69`;
  about five seconds at the rate of `rtp.rs:67`). The models of video and gamepads deliver nothing that late.
* *Two changes of focus in one turn.* `probe.rs` looks at the loss flag before the regain
  flag (`focus.rs:181`), so a regain followed by a loss within one turn is taken as a loss
  followed by a regain. The model has it.
* *A modifier down at the start.* A release of a key not believed held says nothing,
  since "sending it as a press would not" be harmless (`keyboard.rs:115`); under a
  twin that is down the flag still stands, and it is reported as a press
  (`keyboard.rs:141`). `ModifiersMatch` excepts the keys that were down when the
  monitors started.
* *The table of sessions.* It is said to be bounded by live sessions
  (`control.rs:744`); the token is inserted before the reply is written
  (`control.rs:616`), and a failed reply leaves it there with no session to remove it.
  A table filled that way refuses every later client. `SessionsAreListed` states the
  direction that holds.
* *One deadline.* The handshake's budget reads as one deadline (`control.rs:569`);
  it is the timeout of each read.
* *A device that does not start.* It leaves the scope by `?` (`receive.rs:1017`)
  while the receive thread, told nothing, listens on, and the scope waits for it.
* *A phantom loss.* `windows.rs` reads what arrived and the highest number apart, so a
  unit arriving in between is a loss of one in that window.
* *The frames gate.* The gate on frames accounted is computed from published less
  rendered less superseded, so a leak in the slot could not fail it; `FramesAccounted`
  follows the frame itself.
* *The phase loop.* "Five decisions" (`phase.rs:135`) holds of clocks that stand still
  against each other; with the creep `phase.rs` describes the error hovers around the
  creep of a decision or two, as its own comment on GAIN says. `shifted` marks the last entry of the trace
  as sent even when the decision it belongs to found the trace full (`phase.rs:474`).
* *A late mark.* The slot of a newer frame is said to have belonged to an older one
  (`collector.rs:401`); a late mark of an older frame takes the slot of a newer one the
  same way, and the newer is told as incomplete. The model has both.

## Proofs

Theorems hold for every value of the constants that satisfies the named assumptions
(`DedupAssumption`, `ClientAssumption`, `LinkAssumption`, `GamepadAssumption`,
`CaptureAssumption` and so on; each is evaluated by a run).

* **`InputLinkProofs`**, the host: begins with lemmas on the window: marking keeps it a window,
  keeps what it knows, and makes the marked id known; what is missing is not known.
  Then `HostInv == HostTypeOK /\ OsAgrees /\ InjectedIsKnown`.
  `AtMostOnce` is not inductive by itself, since the count of an id says nothing of
  whether it is fresh; `InjectedIsKnown` (an injected id is known and was injected
  once) closes it. `SupersededStaysOut`, `BarrierRises` and `NeverForgets` follow
  from one lemma, `EventStep`: a step injects nothing, or one fresh id it then marks.
* **`InputLinkProofs`**, the link: `LinkInv` conjoins the host's invariant with the client's
  accounts (`EveryEventAccounted`), with `SentInv` (ids in the network are below the
  counter, outstanding messages were sent, a generation never exceeds the counter)
  and `GroundInv` (the host knows only ids the client minted; tops of
  acknowledgements are known). The refinement maps offered and published to what is
  in the network, injected to the ids with a count, adopted to the host's generation;
  each step is an action of `InputPromise` or a stutter.
* **`HostProofs`**, the controllers: first the host fed with any messages: devices driven in order and
  attached slots watched. Then sender and host joined, for `NewestStateWins`:
  `GamepadInv` adds `ShowsWhatWasSent`, that a controller shows a state its sender sent,
  under the number it went by on the wire. Then `AheadIsLater`, arithmetic on a circle
  of any size, turns "ahead by less than half" into "sent later", given that no state is
  held back past half the circle (the guard `InTime` of the model).
* **`CaptureProofs`**: `CaptureInv` conjoins the type invariant, the order of what is
  sent (`QuietOutsideCapture`, `StartsEmpty`, `SentInTheOrderMade`), what is held
  back (`HoldIsAGesture`, `HoldsMembers`), `NeverHalfCaptured`, and the click
  (`ClickIsOwedExactly`, `ClickIsInHand`). The strengthenings say what the run
  cannot ask for: that a capture starts with nothing held back, that everything held
  is a member of the combination not held before, and that the asking click is still
  in the hand while it is owed. For the key monitor, `ModifiersMatch` is inductive with
  the types: what `Modifiers` believes down is what the callback was told is, letters
  apart, and a key seen going down asserts its own flag.
* **`AudioProofs`**: three invariants, one per part. `BufferInv` adds to the types
  and to `HeldIsAhead` that the position is the anchor's distance in counted samples
  (`PositionIsAccounted`) and on its grid, and that a buffer not yet anchored is empty
  (`Placed`); a skip to the ceiling needs all three, to land on the grid and drop only
  what it passed. `RingInv == RingTypeOK /\ RegionsHeld /\ Copied`: a fill's region is free
  and a drain's is filled for as long as either is under way, because each side's
  stale copy of the other's cursor errs on the safe side. `CarriedForward` says that
  all that was heard, is queued, and is in the producer's hands is ascending and ends
  at the position at most; `HeardForward` alone is not inductive, since the order is
  made in the buffer and only shows at the device. The refinement maps the publishing
  store of a fill to `Put` and the copy of a drain to `Get`. Nothing is assumed of
  a stream for these but that its ticks are natural numbers.
  The accounts assume more, of the sender and of the network, because the code does.
  `TimeAlwaysAccounted` needs packets with ticks of their own (`TicksDistinct`) and
  arrivals less than `SEEN_WINDOW` numbers away from whatever is held
  (`RepeatsRemembered`, an action property of the behaviour): a repeat that came
  later would be taken for a frame of its own. `ArrivalsInv`
  then adds `HeldIsRemembered`, that the slot of every frame held still shows its
  number. `SamplesAlwaysBalance` needs a clock that moves one frame a packet
  (`TicksSteady`, ticks off the grid allowed) and arrivals within half a circle of the
  furthest heard (`ArrivalsTimely`); every behaviour of the run satisfies both.
  `SamplesInv` adds one account per thread: `RingAccounted`, that each frame pulled and
  not failed is published, on its way or refused, and `SpanAccounted`, that the span of
  the numbers heard, counted through their wraps, and the span of their ticks reach
  between the same two packets. The residual is what is left when the three are added.
* **`HostProofs`**, the sound: `SourceInv` conjoins the types and the two properties with
  `Settled` (a count of zero means that none of its samples are missing; nothing is in
  hand unless a packet is carried; at least as many frames were encoded as numbered)
  and `EndsWhole` (without a residue the last packet ends where a frame does). Both are
  needed for the last part of `StampsCountSamples`, that an unbroken stream's timestamp
  is a place: it follows only from all captured samples being encoded or in hand. The
  steps of the counters rest on lemmas on remainders (`Remainder`, and that a remainder
  may be taken before or after a sum), proved for circles of any size.
* **`HostProofs`**, the pictures: `StreamIsTrue` is made inductive by following a frame across the two
  threads. `InOrder`: the frames on the wire, in the completer's hands and in the work
  channel are consecutive, and the last is the one before the submitter's next.
  `SlotsHoldTheirPictures`: the slot of a frame not copied yet holds that frame's picture.
  `FailureIsKept`: a result that is an error has raised the flag, and past it nothing more
  is sent. `SlotsAreSound` is inductive with them. A channel is a sequence whose keys
  (its slots) are distinct, and two lemmas say what taking from it and adding to it
  does to the set of its keys (`TakenOnce`, `AddedOnce`), so no step argues about positions.
* **`HostProofs`**, the screen: `ScreenInv` adds to the types what the consumer holds at
  each place of its turn. A consumer asleep with its flag down has a callback still to
  come for every frame in the pool: it looked into the pool after it cleared the flag,
  and a frame put in after that look brings its own callback.
* **`TelemetryProofs`**: `SnapshotsAreWhole` from two balances, where every mark is
  (`MarksBalance`) and where every frame is (`FramesBalance`), and from `FlushWaits`,
  which follows a flush through the two folds it waits for: the fold under way when it
  asks may have drained already, so only the drain before the second is known to see
  its marks. That is why the target is two folds away and not one. `StopWaits` and
  `Emptied` say the same of the last pass. The count of frames in the ring is the
  cardinality of a set of slots, changed one slot at a time (`OneSlot`).
* **`TelemetryProofs`**, the phase loop: `BatchesTimely` carries `OneBatchOnePhase`. As long
  as a request may still be obeyed in time nothing is in the batch and the slices to be
  ignored reach at least as far as its window; so when it is obeyed, nothing is kept that
  was picked up before it. That needs `settled_at` to count from the send
  and a send to find the batch empty, which is why a decision empties it.
  `Converging` carries `AimIsHeld`, for a host that is `Punctual`: then at most one request is on its way,
  every decision is made of the present phase (`DecidesOnPresent`), and the phase that is to come
  (`Coming`) has half the error left, rounded up, whichever way round the circle the request
  goes (`ShiftHalves`). The centre of a batch is a sum over a set,
  which is a recursion: its lemmas (`SumIsRecursion`, `RecursionExists`, `SumWithin`) rest on
  induction over a set of naturals (`SetInduction`), itself from the least element of one.
  `FiveHalvings` is where "five decisions" (`phase.rs:135`) ends: it holds of
  the streams of 120 frames a second the comment is about, and of any down to 63, but at 60 the
  worst phase is 261 µs off after five decisions and needs a sixth (TLC finds that run).
* **`SessionProofs`**, the run: `RunInv == RunTypeOK /\ DecoderSettled /\ BacklogHolds /\
  FramesHold`. `DecoderSettled` says that the decoder and its callbacks are done when
  the threads that flush them say so; the other two say, thread by thread, whose hands
  a unit or a picture is in between two counters.
* **`SessionProofs`**, the control channel: `AckMeansReceiver` carries `MediaWaitsForReceiver` over the
  wire: an acknowledgement on it, in the server's reader or already acted on means the
  client runs or has gone, and a client that prepared or runs is bound. `OnePlace` and
  `TableListsThem` say that a session is served in one place and is listed there.
  `ReadInOrder` carries `ShiftsArriveWhole`: what a client sends has places, a header's
  and a payload's for each message, and for some `r` every message before the `r`-th is
  behind the host, while what was sent from there on is exactly what is on the wire, in
  the order of its places (`Reading`). A header at the head of the wire is therefore the
  next message that was started, and anything but its payload behind it means that the
  client tore that frame (`PayloadFirst`): the only way, with the client's departure, in
  which a poll breaks (`HostReads`). The requests behind the host that went out whole
  are counted by what the relay has heard.
* **`ReassemblyProofs`**: `ReceiverSound` and `LossIsExact` speak of units that were handed
  on and of counters; neither says what the ring and the assembler hold, so neither is
  inductive. `ReassemblyInv` gives everything a place in the stream: `StreamInv` (numbers
  and units run on, each closed by its marker and made of whole NAL units), `SeenInv`
  (the places shown to the assembler ascend and stay behind the cursor's place),
  `AsmInv` (the buffer of an undamaged unit is the stream from where it began, or from
  a hole that began in the unit before, up to the last place shown; an open NAL unit
  begins at its mark; a stream without loss so far has nothing dropped), `FinishedInv`
  (finished units are tails, in order and behind the unit in hand), `RingInv` (what is
  buffered lies ahead of the cursor's place by the window at most, and how far the turns
  left in a sweep reach) and `SweepInv` (the packet swept towards lies beyond that). Two
  facts about the circle carry it: within half of it a signed distance is the
  difference of two places (`AheadIsTrue`), and two places in one slot are a window
  apart. Each step of a push is a lemma of its own; this is why the loops are steps
  and not folds.
* **`HostProofs`**, the words of the window: `WordsAlwaysHold` says that the array of words, slid down in
  place, is the window `Dedup` keeps as a set, for words of any size and any number of
  them; with it what the link's theorems say of windows and acknowledgements holds of what
  the host stores. `WordsInv` ties the two by the ids an array stands for (`Ids`). The slide
  loses nothing because a word is written from words not written yet (`Moves`), and a bit
  carried over from the next word lands where division by the word's width puts it
  (`Places`, `SlideBits`); settling one slot a turn ends at the `Frontier` that `Dedup`
  names, since what a turn drops is the id at the base (`SettledFacts`). The two loops are
  recursive functions, so each is shown to be the fixed point its definition names, and then
  followed up to its bound by induction over a set of naturals. The scans from both ends of
  the array find the greatest and the least slot held (`SlotsFacts`).
* **`PictureProofs`**: `BytesAlwaysSurvive`, from `BytesInv`, which counts the NAL units
  behind each conversion. In the Annex B stream every NAL unit has a landmark, the one of
  its start code (`Landmarks`); between its last byte, which is not zero, and the next
  landmark there are only zeros. Two zeros and a one are at a landmark or nowhere, because a
  NAL unit holds no such run (`CodeIsPlaced`), so the cursor finds them in turn
  (`NextNalIs`): a third zero before the one is taken with the start code, and those before
  it are trimmed as padding. `PrefixReadsBack` says that a length that fits its prefix is
  read back from it, and `AvccReadsBack` that a walk ends where the data does. `CutIs`
  places every fragment in its NAL unit (`Gone`). The first fragment is never the last
  (`Chunks`): a NAL unit that is cut is longer than a datagram, and each fragment has two
  bytes less than a datagram to give to it. The assembler is `Between` two NAL units or
  `Within` one, whose prefix is zeros until its last fragment writes it (`LastTakes`).
  `Gathering` is what the fixture holds after any number of NAL units: a picture for every
  slice but that of the picture in hand. The conversions are recursions over data; each is
  shown to be the fixed point its definition names and followed by induction over a set of
  naturals (`Repeated`, `UpTo`), which needs no induction rule over an operator.

Model-checked only: every liveness property, since TLAPS does not do fairness and
ENABLED here, and `AimIsHeld` with a host that obeys late, of which it is not
true at every size. `AcksAreGrounded` (acknowledgements in flight stay true) is proved and
is in no run.

## Abstractions and bounds

* Keys and buttons are one set `Controls` in the link: the host treats them alike,
  with different injections. Motion and heartbeats carry no state and are one message.
* Deadlines are nondeterministic: whatever may be due may be taken at any time. This
  includes every schedule of the backoff and of the snapshot and beat cadences.
* Settled events are kept as sets of ids where the code counts them; a generation is
  unbounded where the code has a wrapping u32 (its comment accepts the wrap).
* A beginning of a session is an action of `HostState`, though no caller outside
  `state.rs` starts a second one.
* A gamepad state is delivered at most half a circle late, and a video packet within
  half a circle; beyond that the code's signed distance means the opposite. For video
  the outage this excludes is about five seconds at the rate `rtp.rs:67` quotes; it is
  listed as a hazard.
* Socket errors end the gamepad host (`Abort`), whose bridge then disposes of the
  controllers without neutralizing them.
* The audio is its timestamps: a frame is the tick it starts at, and samples are
  counted. Wall-clock deadlines are choices, so every interleaving of a late callback
  with a stalled thread is there.
* The endpoint of the audio source may start a packet anywhere of `Skips` from its place;
  going back covers a stream that restarts and a packet whose release was refused.
  Rates, distributions, and the counts of flags and late wakeups, which nothing reads
  back, are left out; so is the tone report.
* On the control connection a frame is two pieces, header and payload: a read may find
  only the first, and a write that times out may leave only the first behind.
* A picture is the number of its frame and the encoder keeps the last one submitted in a
  slot. Pacing, measurements, the warm-up, and the watchdog that ends the process are left out.
* The compositor may put a frame in the pool whenever a buffer is free, and its callback
  comes some time after. A restart makes a new pool and lowers the flags;
  a callback of the old pool that is under way may still raise them.
* A byte in `PictureBytes` is a digit below `Radix`: big enough for every header with its
  type and reference bits, small enough that a length takes two digits where the code
  takes four bytes of 256.
* The phase loop measures stream in slices that share one phase. A batch of such
  slices has an exact mean, so circular means and resultants reduce to one, except for
  batches over two phases, which are what `OneBatchOnePhase` excludes. How widely the
  frames of a run scatter is chosen for the run, so the aim may differ from the floor.
  A request that the host obeys late is followed by decisions the claim is not about:
  `judged` counts those made with no request on its way.
* In the telemetry a mark is a frame and a stage; the idle wait always times out.
* A unit of video is the sequence of the parts its packets play; bytes are counted in
  packets, and no push begins before the one before it has returned. A
  timestamp is the unit's number (the bytes themselves are `PictureBytes`), foreign or malformed datagrams are left out because
  they only bump a counter.

## What is not modelled

The components table in `PROJECT.json` gives the reason for each. In groups:

* platform calls behind compiler-checked lifetimes: Desktop Duplication (`dda.rs`),
  how NVENC sessions, Metal layers and WASAPI clients are opened, SendInput;
* the session lifecycle (`SessionMachine`, `StartupTransaction`): a pure table and a
  set of bits which no program in the repository drives or joins, so an interleaving
  of theirs would be the model's invention;
* signal processing and byte layouts: Opus, and the encode and decode of the input
  protocol, a fixed layout whose round trip the tests go through message by message;
* statistics and report text: network health, link metrics, gates, excess and pair
  reports, capability discovery, xtask. These, with the harnesses of the next group, are
  most of the lines that no definition maps;
* programs that only exercise the system: tools, benchmarks, the input-latency
  target, the virtual display lab, and the fixture checks.

The DS4 report
parsing and the `gamepad_probe` sender, which waits for no acknowledgement, are
measurement paths and left out. `CaptureMachine`
takes transitions as the hands make them, which `KeyMonitor` is checked to report
(but for a modifier already down at the start).

## Plan

Input path, gamepads, capture, pictures from the screen to the decoder's bytes, sound from
the endpoint to the device, control, the client's run, telemetry and the phase loop are
modelled. What is left, in order of what a fault would cost the user:

1. *Session lifecycle*: `SessionMachine` and `StartupTransaction`, once a program
   drives them: an acknowledgement of an older generation starts nothing.
2. *Negotiation and classification*: two pure functions against reference definitions.
