# ReacJack in TLA+

ReacJack captures the Ethernet audio stream of a Roland REAC device and offers it to
recording programs: on macOS through the daemon `reacjackd`, a ring in POSIX shared
memory and a CoreAudio plug-in; on Linux through a PipeWire source or a JACK bridge.
This directory models the parts of it that run concurrently or for a long time, checks
them with TLC on small instances and proves the central facts with TLAPS for every
instance. Paths below are relative to the repository; `src/x.c` is its `src` directory.

## 1. Inventory

| Part | State | Operations | Talks to | What makes it correct |
|---|---|---|---|---|
| Shared ring, `shared_audio.c` | `write_pos`, `read_pos`, samples, counters, all in shared memory | `shared_audio_write`, `_read`, `_read_interleaved`, `_read_interleaved_regulated`, `_seek_to_fill` | writer: `reacjackd`; reader: the plug-in; no lock, acquire/release positions | the two copies never meet; a read delivers the next frames of the stream or silence, which is counted; neither side waits for the other |
| Clock observation, `shared_audio.c` | `clock_seq`, `clock_host_time`, `clock_sample_pos` | `_publish_clock`, `_get_clock` (sequence lock) | readers: plug-in and `reacjackctl` | pairs are whole, fresh, never go back; a fetch ends although the writer died inside a publication |
| Drift regulation | the fill from cycle to cycle | at most 8 frames dropped or duplicated per read | two drifting clocks | the fill stays in its band, returns to it, underruns stop |
| Ring life cycle | the shared memory name, segments, header fields | `shared_audio_create`, `_open`, `_close`, `_unlink`, called by `ensure_ring`, `main`, `StartIO`, `StopIO` | kernel, several daemon processes | one writer per ring; no half-made ring is accepted; nothing left behind; a restart can be recovered from |
| `reacjackd` | packet counters, last packet counter, channel count, mode | `run_capture`, `note_counter`, `print_status`, `run_tone`, exit | libpcap, ring, clock | the books balance; one format per ring; the tone keeps time; it ends when told to |
| CoreAudio plug-in, `ReacJackDriver.c` | client count, ring handle, anchor, last stamp, rate estimate, seed, under one mutex; the ring handle is also used without it | `StartIO`, `StopIO`, `DoIOOperation`, `GetZeroTimeStamp`, `update_clock_estimate` | host threads, ring, clock | time stamps never go back and follow the source; the ring is not used after it is unmapped; the realtime thread does not wait for system calls |
| plug-in properties | reference count | `HasProperty`, `IsPropertySettable`, `GetPropertyDataSize`, `GetPropertyData`, `SetPropertyData`, `QueryInterface`, `AddRef`, `Release` | host | the separate tables agree with each other; no answer writes past its buffer |
| `reacjackctl` | none | prints the header | ring | a printed fill is one the ring had |
| `reacjack-pw` | its own ring, counters, `running` | capture thread, `on_process`, start and teardown | network, PipeWire thread | samples arrive as they were sent; the summary's counters add up; nothing used after it is freed |
| `reacjack` | the kernel's packet ring, JACK ring buffer, `dataSize`, channel count, counters, `isRunning` | capture thread, `process`, start-up reset, teardown | kernel, JACK thread | whole frames, each channel on its port; every captured frame handled once; every cycle writes the ports of the known format |
| Decoder, `reac_decode.c` | none | `reac_parse_packet`, `reac_decode_samples_to_channels` | all three programs | accepts exactly the well-formed packets; sample layout |
| scripts, makefile, tests | - | - | - | (not modelled) |

What is hard to test is listed, line by line, under `hazards` in `PROJECT.json`:
interleavings of the two sides of the ring and of the clock, decisions on stale
positions, processes that die between two stores or two system calls, the boundary
cases of the regulation, two daemons at once, the wrap of the packet counter, callbacks of
a foreign thread during start and teardown, a rate estimated from stale observations, and
arithmetic that leaves its word after days.

## 2. Modules

| Module | Models | State and actions |
|---|---|---|
| `Regulation` | arithmetic of the regulated read and of the seek | operators only; shared by `SharedAudio` and `DriftRegulation` |
| `AudioFifo` | what a one-writer one-reader ring promises: a bounded queue of whole frames | `Accept`, `Remove` |
| `SharedAudio` | `shared_audio.c`, ring part | header, samples, counters; `wpc`/`wtodo` is the writer inside `shared_audio_write`, `rpc`/`rtodo`/`out` the reader inside a read or a seek; one action per load or store of a shared position and per copied sample |
| `SharedClock` | `shared_audio.c`, clock part | one action per load and store; any set of readers |
| `DriftRegulation` | the ring's fill over IO cycles | `Write` (the packets of a cycle), `Read` (the regulated read), `Lose`, `Miss` |
| `RingLifecycle` | create, open, close, unlink, restart, kill | one action per system call and per header store of each daemon; the plug-in's open in its three stages |
| `Daemon` | `reacjackd.c` | one action per way an iteration of the capture loop ends; the tone loop packet by packet; status line, signal, exit; around it device, network, reader, clock |
| `HalDriver` | `StartIO`, `StopIO`, `GetZeroTimeStamp`, `DoIOOperation` as threads of the audio server | `mutex`, `ioIsRunning`, `ringIsOpen`, `mapped`; one action per piece of a call that another thread can come between, `cpc` says where each client is |
| `HalTimeline` | `update_clock_estimate` and the arithmetic of `GetZeroTimeStamp` | anchor, last stamp, slaved rate, seed, reference; around them time, a source of constant rate, the network, the fill of the ring |
| `HalProperties` | the property interface | the tables as operators, named as in the code; a host that asks, fetches and sets, and the reference count |
| `ReacDecode` | `reac_decode.c` | operators only, and the sending side as the tests write it |
| `PwSource` | `reacjack-pw.c` | `main` step by step with the cleanup of each failure; the capture thread; `on_process`; its ring frame by frame |
| `JackBridge` | `reacjack.c`, Linux | the same for `main`, `copyData` and `process`, with the kernel's packet ring, the byte ring block by block and its reset; `note_packet_counter` load by load and store by store, since `main` clears what it counts; around them a device whose packets may be lost, come again, or jump in their counter |

`MC...` modules instantiate them for TLC, `...Proofs` modules hold theorems. The
correspondence of definitions and lines is the `map` of `PROJECT.json`.

How they fit together: `SharedAudio` works at the level of single memory accesses and is
shown to implement `AudioFifo`, in which operations are atomic. That is what entitles
`DriftRegulation`, `Daemon` and `HalDriver` to treat a read or a write as one step.
`PwSource` has a ring of its own and is shown to implement the same `AudioFifo`. It
composes with `ReacDecode`: what it receives is bytes, and what its callback delivers is
compared with what the device sent. `SharedClock` gives `HalTimeline` whole observations,
`HalDriver` gives it calls that exclude each other, and `Daemon` says when an
observation is published at all. `HalProperties` leaves to `HalDriver` what "running" means.

Definitions whose comment begins with "Mutant" are plausible faults of the definition
below them; they are used nowhere and serve to confirm that a property would notice.

### Abstractions

- A sample is the number of the stream frame it belongs to, with `Silence` and `Garbage`
  apart: a delivered buffer then says which frames it holds. The tail duplication and the
  silence of missing frames and channels are modelled by what they put in the buffer.
- `memcpy` may move samples in any order. The positions are acquire/release atomics in
  the code, so the interleavings of single accesses are the executions of the C model for
  data that is race free; that it is race free is the property `NoSlotRace`. The
  clock's loads are all acquire and its stores all release, so neither side's accesses
  change order, and a reader that sees a word of a new publication also sees its odd
  sequence number at the second look.
- Positions are natural numbers: 2^64 frames last twelve million years. The counters of
  the header do wrap (`CounterMod`). The 16 bit packet counter and the 64 bit product
  of the tone loop keep their widths (`CounterMod`, `WordMod`), scaled down.
- Daemon processes are started at most once each; a restart is another process.
- A REAC packet is what the parser says of it: accepted with a channel count and a
  counter, rejected, or foreign.
  `ReacDecode` is the exception, where a packet is its bytes; there a byte has 2 values
  (`ByteMod`) instead of 256, so that a sample has 3 bits, the first its sign, and the layout and the
  sign extension are the code's. `sample24_to_float` divides by 2^23, exactly; a sample is
  represented by the numerator.
- `HalTimeline` has exact fractions where the code has `Float64`; the casts to integers
  round down as in the code. A packet has one frame, the skew is 1/4 instead of 1/100.
- `JackBridge` has cells, one per sample, where the code has bytes, three per sample. The
  ring of libjack is external: an operation loads both pointers, copies a block up to the
  end of the ring and stores its own pointer, and then does the same with the rest, so that
  the other side may see a part of a packet; one that overlaps `jack_ringbuffer_reset` may
  store the pointer from before or from after it and is remembered in `raced`.
- A packet of `JackBridge` is its number and the base from which its counter is reckoned. A
  restarted device and a packet the network delayed both look to `reacjack` like a counter
  that jumps (another base). The packet also carries how many packets may be counted or
  reported lost by then, which `LossBounded` compares with the code's counters.
- The planar `shared_audio_read` silences the missing frames after the copy and the
  interleaved read before it. Nobody but the caller sees the buffer meanwhile, so both go
  through the same actions; they differ in their channels.
- The host (CoreAudio, PipeWire, JACK) is external: it calls IO only between a client's
  start and stop, `pw_stream_destroy` and `jack_deactivate` wait for the callback in
  progress.
- Printing, command line parsing, interface selection and permissions hints are left out.
  Two results the daemon tests for cannot occur and have no action: -2 from
  `pcap_next_ex` (nothing calls `pcap_breakloop`) and a decode error behind a successful
  parse (both check the same sizes).

## 3. Runs

| Run | Module | Checks | Shows |
|---|---|---|---|
| `ring` | `MCSharedAudio` | `NoSlotRace`, `DeliveredExact`, `SilenceIsCounted`, `ImplementsFifo`, `ReaderProgress` | all interleavings of a writer and a reader with more channels than the ring or as many, reads as long as a correction and longer, corrections, seeks and deaths of both; the refinement; the reader never blocks, and regulation does not hold frames back for ever |
| `clock` | `MCSharedClock` | `Fresh`, `FailureHonest`, `ObservationsMonotone`, `GetReturns` | a reader against five publications and a writer that may die between stores; a fetch ends also if the sequence stays odd |
| `drift` | `MCDriftRegulation` | `SlowSourceAbsorbed`, `FastSourceAbsorbed`, `Converges`, `UnderrunsStop` | the plug-in's constants, buffers of 512, every pattern of drift |
| `lifecycle` | `MCRingLifecycle` | `OneWriterPerRing`, `AttachedComplete`, `NoRingLeftBehind`, `RestartRecovers` | two daemons that may overlap, failing creates, kills, an open at any point |
| `lifecycle_overlap` | `MCRingLifecycle` | `RestartAlwaysRecovers` | **violated**, finding 1 |
| `daemon` | `MCDaemon` | `DaemonInvariant`, `LossAccounted`, `ToneKeepsUp`, `ShutdownCompletes` | every mix of packets, losses, a device restart, a full ring, both modes, a signal at any point |
| `hal_driver` | `MCHalDriver` | `DriverInvariant`, `ReadsMappedRing`, `StampNeverWaitsForSyscall` | three clients, the IO thread and a thread that asks; opening fails or not; the count at its limit |
| `hal_timeline` | `MCHalTimeline` | `TimelineInvariant`, `StampsMonotone`, `StampCurrent`, `TimelineContinuous` | two recordings, sources slower and faster than nominal and beyond the clamp, a lost packet, stamps asked for at any time |
| `hal_stale_reference` | `MCHalTimeline` | `FollowsSource` | **violated**, finding 2 |
| `hal_properties` | `MCHalProperties` | `TablesAgree`, `PropertiesInvariant` | every object, selector and scope, buffers of each size the driver names and one byte less |
| `pw` | `MCPwSource` | `SourceInvariant`, `DeliveredExact`, `LossAccounted`, `ImplementsFifo`, `ShutdownCompletes` | `reacjack-pw` from start to end, with every step failing, and samples followed from the wire to PipeWire's buffer |
| `jack` | `MCJackBridge` | `BridgeInvariant`, `WholeFramesPlayed`, `FramesHandledOnce`, `NoUseAfterRelease`, `ShutdownCompletes` | `reacjack` from start to end, with every step failing: kernel, capture thread, `process` and the reset interleaved, two formats, copies around the end of the ring, packets lost, repeated and with a counter that jumps |

A module's type invariant and smaller facts are conjuncts of one invariant, so that a run
asks few questions. The conjuncts whose names end in `Stages` say what each thread may rely
on between two of its steps; they make the invariant inductive (section 5):

- `DaemonInvariant`: `FramesAccounted`, `LossAccounted`, `OnlyRingFormatWritten`, `StatusHonest`, and
  `RingStages`, `StatusStages`, `CounterStages`, `ToneStages`;
- `DriverInvariant`: `CountExact`, `MappingTracked`, `RunningHonest`, and `MutexStages`,
  `IOStages`;
- `TimelineInvariant`: `FollowsSteadySource`, and `StampStages`, `ObservationStages`;
- `PropertiesInvariant`: `OwnershipTree`, `SetHonest`, and `QueryStages`;
- `SourceInvariant`: `NoUseAfterRelease`, `ReleasedOnExit`, `EveryFrameCounted`, and
  `MainStages`, `CaptureStages`, `RingStages`, `CallbackStages`;
- `BridgeInvariant`: `RingIsQueue`, `FormatPortsWritten`, `LossBounded`, and
  `MainStages`, `SlotStages`, `CounterStages`, `FormatStages`, `RingStages`.

Of the ring, the clock, the drift and the life cycle the type invariants and the inductive
invariants `RingInvariant`, `ClockInvariant` and `LifecycleInvariant`, with `FillWithinCapacity`,
`PositionsMonotone` and `NoTornPair`, are in no run: they are theorems (section 5).
`ReaderProgress` is `ReadReturns` and `PublishedConsumed`; the latter supposes, by way of the
fairness of its run, that among the host's reads there are always some longer than a
correction.

What some of them say in a sentence:

- `ReadsMappedRing` and `StampNeverWaitsForSyscall` are the two sides of a mutex that the
  IO path takes for stamps and not for audio. Both hold because the mutex is held over
  system calls only by the first client's start and by the last client's stop, when no IO
  is in progress; both rest on the host's rule and fail as soon as a further client does more than count.
- `TimelineContinuous`: between two stamps both times advance at the
  rate in force, up to one tick of rounding, before and after a rebase, and the rate changes
  only with the seed.
- `LossAccounted` of `PwSource` states what the summary's numbers mean: received and lost
  add up to the packets sent, packets that met a full ring are among the lost, and a packet
  delivered twice counts once too often in either.
- `SilenceIsCounted` is about reads that ask the ring for at least one frame (`rwant > 0`).
  A regulated read of no more frames than a correction may ask for none and fill the whole
  block itself; without the hypothesis the statement is false (section 4).
- `FormatPortsWritten`: once the format is known, `silence_outputs` and `process` write its
  ports only. The ports above it are then left alone in every cycle, and the property says
  nothing of them.
- `LossBounded`: packets counted and packets reported lost are together no more than the
  device sent, and two for each repeated packet (it is counted again and `note_packet_counter`
  takes it for a gap of the whole range, which it reports as one) and half the range for each jump of
  the counter, for which the code reports losses that did not happen. In between `main` may
  clear `lostPackages` and `haveLastCounter` anywhere among the thread's loads and stores.
- `WholeFramesPlayed`: the byte ring of `reacjack` is no multiple of a frame, and nothing
  in it marks the start of one; frames stay aligned because packets go in whole or not at
  all and cycles take whole frames.
- `ShutdownCompletes` of `JackBridge` admits the one way it does not: when `pthread_create`
  failed, `main` joins an uninitialised thread (phase `"undefined"`).

### Bounds

- Ring: a capacity of 4 with blocks of 2 frames and corrections of one frame
  (`MaxCorrection = 1`, a target of 3 with a band of width 0) makes blocks wrap inside, since
  corrections move the reader by odd amounts, and fills reach both limits; `MaxWritten = 6`
  goes around the ring once and a half. Reads of 1 and 2 frames: no longer than a correction,
  and longer. The caller of the interleaved reads has more channels than the ring, that of the
  planar read as many; fewer channels are covered by the theorems. One restart
  of the reader; the writer's death is final, a new daemon makes a new ring. Proofs
  remove all these bounds but keep `MaxWritten` and `MaxRestarts` as parameters.
- Clock: two publications during one call, after a first one, are enough for every way to
  tear or to repeat a pair; five are allowed. One reader, since readers store nothing that
  others load. Three attempts instead of the code's 16: an attempt that failed leaves no
  state but its number. The proofs have no such bounds.
- Drift: the fill is a number, so the real constants are used. `Jitter` is 7, one less than
  a correction: with 8 a fill outside the band need not come back. Two disturbances.
- Life cycle: two daemons are the smallest set with a race, and let a killed one leave a
  ring for the other to replace.
- Daemon: a counter of range 4 makes gaps below, at and beyond half the range possible in
  4 packets, and the first packet is followed by the wrap. A packet has 2 frames and the
  ring 3, so it fills after one packet and leaves one free frame. 6 clock ticks, in which
  the tone owes up to 9 frames.
- `HalDriver`: three clients, a count limited to 2, so that one is refused;
  clients are interchangeable and symmetric.
- `HalTimeline`: a nominal rate of 4 ticks per frame, a skew of 1/4 and sources of 3, 4 and
  6 ticks, the last one clamped to 5; 28 ticks are enough for an estimate, a rebase and several stamps
  of a second recording. The ring holds 3 frames, so that it is full before a late recording.
- `HalProperties`: the tables are complete; buffers have every size the driver names (by way of
  the size table) and one byte less (`Sizes`); references and running clients are bounded.
- `PwSource`: 4 channels, so that a channel pair has a neighbour; packets of 2 frames in a
  ring of 3, requests of 1 and 3 frames, so that copies wrap and come short; 4 packets with
  a counter of range 4 that wraps after the second; one fault and one underrun.
- `JackBridge`: formats of 2 and 3 channels, packets of 2 frames, a ring of 8 cells (7 usable),
  which is no multiple of the wide format's frame, so that the second packet finds no room or,
  when enough was played, goes around the end; 2 slots in the packet ring and 2 frames on the
  wire; cycles of 1 frame and of 3, the latter larger than the buffer for the wide format. The
  counter has range 4 and starts at 3, so that it wraps; a repeated packet is a gap of 3, beyond
  half the range, and a jump (`Jumps`) a gap of 1, below it. A gap of exactly half the range, and more
  packets, are left to the proofs, which have no such bounds.
- `CHECK_DEADLOCK FALSE` for the three programs that end.

### Fairness

- `CallFairSpec` (clock, and part of `HostFairSpec`): weak fairness of the steps inside a call that has begun;
  nothing about the other side. The code has no loop that waits for the other side; that
  is what the runs confirm.
- `HostFairSpec` (ring): a host that records calls again and again, and its calls
  proceed; strong fairness of regulated reads longer than a correction (8 frames, which
  CoreAudio's IO buffers exceed), since the alternative of a seek or another read is chosen by
  the host. With shorter reads only, `PublishedConsumed` fails: the insertion may replace the
  whole request and nothing leaves the ring.
- `DriftRegulation!FairSpec`: cycles go on.
- `RingLifecycle!FairSpec`: a daemon that is in create or on its way out is scheduled; the
  user stops and starts recording, as README.md tells to. Nothing makes daemons start,
  stop or die.
- `Daemon!FairSpec`: the process is scheduled and `pcap_next_ex` returns after the 100 ms
  that `capture_open` sets. No fairness for packets or signals.
- `PwSource!FairSpec`, `JackBridge!FairSpec`: every thread is scheduled, `poll` returns after
  its timeout, a callback that began ends. Nothing obliges the network to send, PipeWire or
  JACK to call, or anybody to quit.
- `HalDriver`, `HalTimeline` and `HalProperties` promise nothing for the future and have no
  fairness; `HalDriver` is also checked for deadlock.

## 4. Findings

1. `reacjackd.c:363`: the exit path of a daemon unlinks the name, whichever ring has it. In the
   run the old daemon is told to stop and has left its capture loop when the new one is
   started and makes its ring; the exit of the old one then removes the new ring's name, and
   the device can never be attached again, against `README.md:53-55`. The run has no kills, no
   failed creates and no overlapping creates (`OrderlyRestarts`). The unlink in
   `shared_audio_create` (`shared_audio.c:75`, "a stale ring from a dead writer") removes a
   living writer's name in the same way when two daemons are started together.
2. `ReacJackDriver.c:906`: while nobody records, the ring is full and the daemon publishes
   no clock observation for a packet it drops (`reacjackd.c:231-238`). A recording that
   starts then takes the last observation for its reference: a time from before the pause
   with a position that did not advance during it. The estimated rate is too slow and sits
   at its clamp, 1% off, until the window is a hundred times as long as the pause was,
   against `README.md:80-81` and `:122-123`.

Smaller disagreements, which the runs exclude by their constants or the properties by a
hypothesis; changing it shows them:

- `shared_audio.c:257-272`: when the fill is below the band and a regulated read asks for 8
  frames or fewer, the insertion replaces the whole request: the inner read is asked for no
  frame and counts no underrun, and with no real frame to repeat the block is silence,
  against `shared_audio.h:74` ("missing frames become silence and increment underruns").
  (`SilenceIsCounted` without `rwant > 0`.)
- `ReacJackDriver.c:1040`: IO buffers above 2400 frames are larger than what the band
  guarantees; a slightly slow source then underruns in every cycle without correction,
  against `docs/COREAUDIO_PLAN.md:180-183`. (`MCDriftRegulation.cfg` with `IOFrames = 4096`,
  `Jitter = 1`, `MaxDisturbances = 0`: `UnderrunsStop`.)
- `reacjackd.c:271`: `elapsed_ns * 48000` leaves 64 bits after 2^64 / 48000 ns, about
  4.4 days; the tone then stops for good. (`MCDaemon.cfg` with `WordMod = 48`,
  `MaxTime = 12`: `ToneKeepsUp`.)
- `reacjackd.c:109`: the status line counts accepted packets only; packets of another
  channel count make it say that none arrive. `StatusHonest` is about accepted packets.
- `reacjack.c:788`: the reset of the ring two seconds after the start may overlap a copy of
  the capture thread or of `process`. The positions are then off and what is played is not
  what was written (`WholeFramesPlayed` and `RingIsQueue` without `~ raced`).
- `reacjack.c:854`: joins `captureThread` also when it was never created.
- `reacjack.c:618`: `receivedPackages` counts packets, and `process` sets it to a number of
  frames (only a displayed time depends on it).
- `reacjack-pw.c:427-433`: a stream that was created and could not be connected is not
  destroyed (the exception in `ReleasedOnExit`).
- `reacjack-pw.c:239`: a packet delivered twice is counted as received and as lost.
- `reacjack.c:161-171`: the same, and after a restart of the device or for a packet that comes late up
  to half the range of the counter is reported lost that was not (the allowance in `LossBounded`).
- `ReacJackDriver.c:157`: the preferred channels of the output scope are denied by
  `HasProperty` and answered by the size and data functions (the exception in
  `TablesAgree`).

## 5. Proofs

All theorems hold for every value of the constants that satisfies the module's ASSUME.

`SharedAudioProofs`. `RingSafety` proves `RingInvariant`, from which follow
`TypeCorrect`, `FillBounded`, `RaceFree`, `DeliveryCorrect`, `SilenceCounted`,
`MonotonePositions` and `RingImplementsFifo`. None of these is inductive by itself: that a read delivers the right
frames depends on what is in the slots (`Queued`), which depends on the writer's copies
falling on free slots, which depends on a room the writer computed from an old `read_pos`.
The strengthening says what each side may still rely on: `WriterClaim`, the block fits
behind the reader even if the reader has moved, since it only moves forward; and
`ReaderClaim`, what the reader decided from an old `write_pos` (a drop, a seek, a number of
frames) is still covered by the present one. `SlotDistinct` turns "less than a capacity
apart" into "different slots". The refinement maps `head`, `tail` and the content of the
queue to `read_pos`, `write_pos` and the slots between them.

`SharedClockProofs`. `ClockSafety` proves `ClockInvariant`: `HeaderStages` ties the
sequence number to the number of completed publications at every stage of one,
`ReaderStages` says that what a reader has loaded is right *if the sequence number is still
the one it saw*, which is what the second look establishes. `PairsAreWhole`,
`PairsAreFresh`, `FailuresAreHonest` and `NeverBackwards` follow; for any number of readers,
attempts and publications.

`DriftRegulationProofs`. `TypeCorrect`; `FastSourceBounded` and `SlowSourceBounded`, the
latter under `Headroom` (an IO buffer fits below the band), the very condition that
large IO buffers violate. Both are step properties: from a fill in its bounds every
undisturbed step leads into the bounds and counts nothing.

`RingLifecycleProofs`. `LifecycleSafety` proves `LifecycleInvariant`: each daemon maps only
the segment it made (`OwnSegment`), the name stands for a segment whose maker will unlink
it or was killed (`NameIsOwned`), and what the opener checked stays true (`OpenStages`).
`SingleWriter`, `AcceptedRingComplete` and `ExitCleansUp` follow, for any number of
daemons.

`HalProofs` is about the three modules of the plug-in, each with a specification of its own
(`Spec` of `HalDriver`, `TimelineSpec`, `PropertiesSpec`).

- IO. `DriverSafety` proves `DriverInvariant` for any finite set of clients and any limit of
  the count. That the realtime thread may read the ring without the mutex (`ReadsAreSafe`) and
  never waits behind a system call for it (`StampsDoNotWait`) rests on one fact,
  `HeldIsQuiet`: whoever holds the mutex over a system call is the first client to come or the
  last to go, so the count is 0 and no IO is in progress (`MutexStages`), while IO in progress
  means that a client is in (`IOStages`). `CountExact` relates the count to a cardinality, so
  the lemmas on adding and removing a counted client come first.
- The clock. `TimelineSafety` proves `TimelineInvariant` for all rates, periods, skews and
  thresholds. That stamps do not go back (`StampsNeverGoBack`) does not follow from the last
  stamp being on its line: with rounding down, the same number of periods may not have passed
  yet at the host time the stamp names. `StampStages` adds that they have, and since time only
  grows, the next stamp is at least as many periods behind the anchor (`StampStep`, over the
  pure `StampArithmetic`). So the test of the code that keeps an older stamp
  (`ReacJackDriver.c:965-968`) matters only where `Float64` is not exact. `StampsAreCurrent` and
  `TimelineHasNoJump` follow from the same step. That the rate is the source's rests on
  `ObservationStages`: between the reference and the last observation lie as many source periods as frames,
  if none was lost or refused, which is exactly what finding 2 lacks; `WindowScales` says that
  an estimate over many frames, clamped, is as near as one over a single frame.
- The tables. `TablesNeverDisagree` and `PropertiesSafety` are for every size of a buffer and
  every value a host may try to set; the run has eight sizes and the one just told. The lemmas go through the tables
  object by object; `QueryStages` then says that what the host was told is an answer of the tables,
  given when some number of clients ran.

`DaemonProofs`. `DaemonSafety` proves `DaemonInvariant`, with one lemma per group of conjuncts and
per loop. `LossesAccounted` takes `CounterStages`: what the device sends next is what
`note_counter` expects plus the packets missed since, modulo the range, unless the device restarted,
in which case the books may already be off by one restart less than the statement allows. `ToneKeepsTime` has the hypothesis `NoOverflow`, that
`elapsed_ns * 48000` fits its word; without it the statement is false (section 4).

`PwSourceProofs`. `DecodeInvertsWire` and `ParseAcceptsWire` are about the decoder alone: for
every even number of channels the parser supports, every packet length and every size of a byte, decoding what
the device packs gives back the samples, with channel pairs interleaved and the sign
extended. `SourceSafety`, `PlaysTheWire` and `LossesAddUp` come from one invariant, `Inductive`:
what is in the ring are the samples of the stream (`RingStages`), what the capture thread has
copied so far are samples of its packet in free slots (`CaptureStages`), what the callback took is
still there (`CallbackStages`), and what exists follows from how far `main` has come
(`MainStages`). `RingImplementsFifo` maps the ring to `AudioFifo` as for the shared ring.

`JackBridgeProofs`. `BridgeSafety`, `PlaysWholeFrames`, `EveryFrameOnce` and `ReleasesInOrder`
come from `Inductive`, in parts: `MainStages` (what `main` still has to release is what
exists); `Slots` (the slots the kernel filled and `copyData` has not given back are
consecutive, modulo the number of slots, and hold packets in the order they were sent);
`Books` (the gap between two counters is never more than what the later packet allows,
`LostBound`, and what the thread has loaded and not yet stored is within it too, wherever
`main` clears); `Formats` (the channel count, the payload in hand and the ports belong
together); `Rings` (the cells between the two pointers are the queue, modulo the size, and
those `process` has taken so far with those in the queue are whole frames in channel order,
but for the packet whose first block is written and whose second is not: `FramesAligned`). The
remainder arithmetic of slots and pointers is in lemmas
of its own. An operation that overlaps the reset of the ring sets `raced`, and `Rings` says
nothing after it: the code promises nothing there either (section 4).

The proofs found two faults of the models that TLC had not shown: two alternatives of the
status report that overlapped, and an assumption that allowed a packet counter of range 1.

Only model-checked: every liveness property (`ReadReturns`, `PublishedConsumed`,
`GetReturns`, `Converges`, `UnderrunsStop`, `RestartRecovers`, `ShutdownCompletes`), because
reasoning under fairness is outside what the prover handles; `FollowsSource` and
`RestartAlwaysRecovers`, which are false.

## 6. Plan

All modules of the plan are there, and every invariant of a run and the safety part of every
component has its theorem. Left: the composition of `SharedClock` with `HalTimeline`, where an observation is one step.

## 7. Not modelled

- The scripts and build files, and the tests, carry no state of the program.
- `reacjackctl` changes nothing. Its clock fetch is a reader of `SharedClock`; that its two
  unordered loads of the positions can print a fill the ring never had is plain from the
  code and harms nothing.
- `reacjack` on macOS differs from the Linux build in `capture_next` only, where `pcap` takes
  the place of the packet ring; `reacjackd` uses `pcap` in the same way and is modelled.
- Level metering, interface selection, command lines and all output formatting.
- `BeginIOOperation`, `EndIOOperation`, `AddDeviceClient`, `PerformDeviceConfigurationChange`
  and their like check their arguments and change nothing.
