------------------------------- MODULE Daemon -------------------------------
(***************************************************************************)
(* reacjackd: the capture loop, which turns REAC packets into ring frames  *)
(* and keeps the books about them, and the tone loop, which replaces the   *)
(* capture by a test signal paced by the monotonic clock.                  *)
(*                                                                         *)
(* One packet is handled in one step: the daemon is single threaded, and   *)
(* what a reader sees of a write in progress is the subject of SharedAudio,*)
(* which shows that a write is atomic to it.  Samples are left out.  Around *)
(* the daemon: a REAC device that numbers its packets, a network that loses*)
(* or damages them, a reader of the ring, a clock and a signal.            *)
(***************************************************************************)
EXTENDS Integers

CONSTANTS
  CounterMod,       \* range of the packet counter, 2^16
  FramesPerPacket,  \* REAC_FRAMES_PER_PACKET
  Capacity,         \* REACJACKD_RING_FRAMES
  ChannelCounts,    \* channel counts the parser supports
  ToneChannels,     \* the tone's default channel count
  Rate, Second,     \* REACJACKD_SAMPLE_RATE and clock ticks per second
  WordMod,          \* range of a uint64_t
  MaxPackets,       \* bound: packets the device sends
  MaxRestarts,      \* bound: restarts of the device
  MaxErrors,        \* bound: failed calls of pcap_next_ex and foreign frames
  MaxTime           \* bound: clock ticks

ASSUME DaemonAssumption ==
  /\ CounterMod \in Nat /\ CounterMod >= 4 /\ CounterMod % 2 = 0
  /\ FramesPerPacket \in Nat \ {0} /\ Capacity \in Nat \ {0}
  /\ ChannelCounts \subseteq Nat \ {0} /\ ToneChannels \in ChannelCounts
  /\ Rate \in Nat \ {0} /\ Second \in Nat \ {0} /\ WordMod \in Nat \ {0}
  /\ MaxPackets \in Nat /\ MaxRestarts \in Nat /\ MaxErrors \in Nat /\ MaxTime \in Nat

Half == CounterMod \div 2

NoCounter == CounterMod   \* have_last_counter = 0

VARIABLES
  tone,         \* tone_mode
  channels,     \* daemon->channels: 0 until -c or the first packet sets it
  isRunning,
  pc,           \* "start", "loop", "status", "wait", "burst", "exit", "gone"
  ring,         \* the shared ring as the daemon sees it
  stats,        \* counters of ReacDaemon
  lastCounter,  \* last_counter, or NoCounter
  due, sent,    \* due_frames and sent_frames of run_tone
  asked,        \* frames that were really due when due was computed
  now,          \* the clock
  report,       \* what the last status line said of the stream
  net           \* device and network: next counter, packets sent, packets
                \* the daemon did not note since the last one it did (missed),
                \* those of all gaps (truth), restarts, whether a gap was
                \* longer than the counter can tell, whether packets were accepted
                \* since the last status line (heard) and between the last two (told)

vars == <<tone, channels, isRunning, pc, ring, stats, lastCounter, due, sent, asked, now,
          report, net>>

NoRing == [created |-> FALSE, write_pos |-> 0, read_pos |-> 0, dropped |-> 0,
           overruns |-> 0, clock |-> 0, wrote |-> 0]

Init ==
  /\ tone \in BOOLEAN
  /\ channels \in ChannelCounts \cup (IF tone THEN {ToneChannels} ELSE {0})
  /\ isRunning = TRUE /\ pc = "start"
  /\ ring = NoRing
  /\ stats = [received |-> 0, lost |-> 0, malformed |-> 0, nonReac |-> 0, errors |-> 0,
              statusLast |-> 0]
  /\ lastCounter = NoCounter
  /\ due = 0 /\ sent = 0 /\ asked = 0 /\ now = 0
  /\ report = "none"
  /\ net = [counter |-> CounterMod - 1, sent |-> 0, missed |-> 0, truth |-> 0,
            restarts |-> 0, longGap |-> FALSE, heard |-> 0, told |-> 0]

-----------------------------------------------------------------------------
(* Helpers of the two loops. *)

\* Mutant: the gap as an int, which a counter that went back makes negative.
LostBySigned(counter) ==
  IF lastCounter = NoCounter THEN 0
  ELSE LET gap == counter - ((lastCounter + 1) % CounterMod)
       IN IF gap < Half THEN gap ELSE 1

\* What note_counter adds to lost_packets.
LostBy(counter) ==
  IF lastCounter = NoCounter THEN 0
  ELSE LET gap == (counter - (lastCounter + 1)) % CounterMod
       IN IF gap < Half THEN gap ELSE 1

NewRing == [NoRing EXCEPT !.created = TRUE]

\* One packet of c channels into ring r: written and its position published as a
\* clock observation, or refused and counted by the ring and by the daemon.
WriteRing(r, c) ==
  IF FramesPerPacket > Capacity - (r.write_pos - r.read_pos)
  THEN [r EXCEPT !.overruns = @ + 1, !.dropped = @ + 1]
  ELSE [r EXCEPT !.write_pos = @ + FramesPerPacket,
                 !.clock = r.write_pos + FramesPerPacket, !.wrote = c]

\* due_frames: the product is taken in a uint64_t.
DueFrames == ((now * Rate) % WordMod) \div Second

\* What print_status says besides the counters, and that it remembers them.  (When
\* pcap_create itself failed it says nothing; no packet was heard of then either.)
Report ==
  /\ report' = CASE tone -> "tone"
                 [] ~tone /\ stats.received = 0 -> "no packets"
                 [] ~tone /\ stats.received # 0 /\ stats.received = stats.statusLast -> "stalled"
                 [] OTHER -> "flowing"
  /\ stats' = [stats EXCEPT !.statusLast = stats.received]
  /\ net' = [net EXCEPT !.heard = 0, !.told = net.heard]

-----------------------------------------------------------------------------
(* The daemon. *)

\* capture_open fails, or the ring cannot be made: the daemon ends.
StartFails ==
  /\ pc = "start"
  /\ pc' = "exit"
  /\ UNCHANGED <<tone, channels, isRunning, ring, stats, lastCounter, due, sent, asked, now,
                 report, net>>

\* The ring is made at once when the channel count is known.
Start ==
  /\ pc = "start"
  /\ ring' = IF channels = 0 THEN ring ELSE NewRing
  /\ pc' = "loop"
  /\ UNCHANGED <<tone, channels, isRunning, stats, lastCounter, due, sent, asked, now,
                 report, net>>

\* Mutant: isRunning is loaded once, before the loop.
LoopTestOnce ==
  /\ pc = "loop"
  /\ IF tone THEN pc' = "burst" /\ due' = DueFrames /\ asked' = (now * Rate) \div Second
             ELSE pc' = "status" /\ UNCHANGED <<due, asked>>
  /\ UNCHANGED <<tone, channels, isRunning, ring, stats, lastCounter, sent, now, report, net>>

LoopTest ==
  /\ pc = "loop"
  /\ CASE ~isRunning -> pc' = "exit" /\ UNCHANGED <<due, asked>>
       [] isRunning /\ tone -> /\ pc' = "burst"
                               /\ due' = DueFrames
                               /\ asked' = (now * Rate) \div Second
       [] OTHER -> pc' = "status" /\ UNCHANGED <<due, asked>>
  /\ UNCHANGED <<tone, channels, isRunning, ring, stats, lastCounter, sent, now, report, net>>

\* The status line, when two seconds have passed.
Status ==
  /\ pc = "status"
  /\ pc' = IF tone THEN "loop" ELSE "wait"
  /\ Report \/ UNCHANGED <<report, stats, net>>
  /\ UNCHANGED <<tone, channels, isRunning, ring, lastCounter, due, sent, asked, now>>

\* pcap_next_ex returns without a packet: the timeout, or an error.
Timeout ==
  /\ pc = "wait"
  /\ pc' = "loop"
  /\ UNCHANGED <<tone, channels, isRunning, ring, stats, lastCounter, due, sent, asked, now,
                 report, net>>

CaptureError ==
  /\ pc = "wait" /\ stats.errors + stats.nonReac < MaxErrors
  /\ stats' = [stats EXCEPT !.errors = @ + 1]
  /\ pc' = "loop"
  /\ UNCHANGED <<tone, channels, isRunning, ring, lastCounter, due, sent, asked, now,
                 report, net>>

\* The device's next packet, which the daemon does not note.
Skipped == [net EXCEPT !.counter = (@ + 1) % CounterMod, !.sent = @ + 1, !.missed = @ + 1]

\* A packet the parser rejects.
PacketMalformed ==
  /\ pc = "wait" /\ net.sent < MaxPackets
  /\ stats' = [stats EXCEPT !.malformed = @ + 1]
  /\ net' = Skipped
  /\ pc' = "loop"
  /\ UNCHANGED <<tone, channels, isRunning, ring, lastCounter, due, sent, asked, now, report>>

\* A frame that is not of the device: the filter could not be installed.
PacketNotReac ==
  /\ pc = "wait" /\ stats.errors + stats.nonReac < MaxErrors
  /\ stats' = [stats EXCEPT !.nonReac = @ + 1]
  /\ pc' = "loop"
  /\ UNCHANGED <<tone, channels, isRunning, ring, lastCounter, due, sent, asked, now,
                 report, net>>

\* The packet that would have set the format, but the ring cannot be made.
PacketCreateFails ==
  /\ pc = "wait" /\ net.sent < MaxPackets /\ ~ring.created
  /\ net' = Skipped
  /\ pc' = "exit"
  /\ UNCHANGED <<tone, channels, isRunning, ring, stats, lastCounter, due, sent, asked, now,
                 report>>

\* A REAC packet of another channel count than the ring's.
PacketOtherFormat(c) ==
  /\ pc = "wait" /\ net.sent < MaxPackets
  /\ ring.created /\ c # channels
  /\ stats' = [stats EXCEPT !.malformed = @ + 1]
  /\ net' = Skipped
  /\ pc' = "loop"
  /\ UNCHANGED <<tone, channels, isRunning, ring, lastCounter, due, sent, asked, now, report>>

\* The books of an accepted packet.
Noted ==
  [net EXCEPT !.counter = (@ + 1) % CounterMod, !.sent = @ + 1, !.missed = 0, !.heard = 1,
              !.truth = IF lastCounter = NoCounter THEN 0 ELSE @ + net.missed,
              !.longGap = lastCounter # NoCounter /\ (@ \/ net.missed >= Half)]

\* Mutant: a refused packet ends the iteration.
PacketContinue(c) ==
  /\ pc = "wait" /\ net.sent < MaxPackets
  /\ ring.created => c = channels
  /\ channels' = c
  /\ ring' = WriteRing(IF ring.created THEN ring ELSE NewRing, c)
  /\ IF ring'.overruns = ring.overruns
     THEN /\ stats' = [stats EXCEPT !.lost = @ + LostBy(net.counter), !.received = @ + 1]
          /\ lastCounter' = net.counter
          /\ net' = Noted
     ELSE net' = Skipped /\ UNCHANGED <<stats, lastCounter>>
  /\ pc' = "loop"
  /\ UNCHANGED <<tone, isRunning, due, sent, asked, now, report>>

\* A REAC packet of the ring's channel count; the first one sets it.
Packet(c) ==
  /\ pc = "wait" /\ net.sent < MaxPackets
  /\ ring.created => c = channels
  /\ channels' = c
  /\ ring' = WriteRing(IF ring.created THEN ring ELSE NewRing, c)
  /\ stats' = [stats EXCEPT !.lost = @ + LostBy(net.counter), !.received = @ + 1]
  /\ lastCounter' = net.counter
  /\ net' = Noted
  /\ pc' = "loop"
  /\ UNCHANGED <<tone, isRunning, due, sent, asked, now, report>>

\* Mutant: the first packet is sent before it is due.
ToneEarly ==
  /\ pc = "burst"
  /\ IF sent <= due
     THEN /\ ring' = WriteRing(ring, channels)
          /\ sent' = sent + FramesPerPacket
          /\ stats' = [stats EXCEPT !.received = @ + 1]
          /\ UNCHANGED pc
     ELSE pc' = "status" /\ UNCHANGED <<ring, sent, stats>>
  /\ UNCHANGED <<tone, channels, isRunning, lastCounter, due, asked, now, report, net>>

\* One packet of the tone while one is due, whether the ring takes it or not.
Tone ==
  /\ pc = "burst"
  /\ IF sent + FramesPerPacket <= due
     THEN /\ ring' = WriteRing(ring, channels)
          /\ sent' = sent + FramesPerPacket
          /\ stats' = [stats EXCEPT !.received = @ + 1]
          /\ UNCHANGED pc
     ELSE pc' = "status" /\ UNCHANGED <<ring, sent, stats>>
  /\ UNCHANGED <<tone, channels, isRunning, lastCounter, due, asked, now, report, net>>

\* The end of main: a last status line, and the ring is closed and unlinked.
Exit ==
  /\ pc = "exit"
  /\ Report
  /\ ring' = [ring EXCEPT !.created = FALSE]
  /\ pc' = "gone"
  /\ UNCHANGED <<tone, channels, isRunning, lastCounter, due, sent, asked, now>>

-----------------------------------------------------------------------------
(* Around the daemon. *)

\* SIGINT or SIGTERM.
Signal ==
  /\ isRunning /\ pc # "gone"
  /\ isRunning' = FALSE
  /\ UNCHANGED <<tone, channels, pc, ring, stats, lastCounter, due, sent, asked, now,
                 report, net>>

\* The network loses a packet, or the capture buffer overflows.
Lose ==
  /\ ~tone /\ net.sent < MaxPackets
  /\ net' = [net EXCEPT !.counter = (@ + 1) % CounterMod, !.sent = @ + 1, !.missed = @ + 1]
  /\ UNCHANGED <<tone, channels, isRunning, pc, ring, stats, lastCounter, due, sent, asked,
                 now, report>>

\* The device is switched off and on and numbers its packets from c.
DeviceRestart(c) ==
  /\ ~tone /\ net.restarts < MaxRestarts
  /\ net' = [net EXCEPT !.counter = c, !.restarts = @ + 1]
  /\ UNCHANGED <<tone, channels, isRunning, pc, ring, stats, lastCounter, due, sent, asked,
                 now, report>>

\* A reader takes n frames.
ReaderTakes(n) ==
  /\ ring.created /\ n <= ring.write_pos - ring.read_pos
  /\ ring' = [ring EXCEPT !.read_pos = @ + n]
  /\ UNCHANGED <<tone, channels, isRunning, pc, stats, lastCounter, due, sent, asked, now,
                 report, net>>

\* Time passes; also while the machine sleeps between two iterations.
Tick ==
  /\ tone /\ now < MaxTime
  /\ now' = now + 1
  /\ UNCHANGED <<tone, channels, isRunning, pc, ring, stats, lastCounter, due, sent, asked,
                 report, net>>

-----------------------------------------------------------------------------
DaemonStep ==
  \/ StartFails \/ Start \/ LoopTest \/ Status \/ Timeout \/ CaptureError
  \/ PacketMalformed \/ PacketNotReac \/ PacketCreateFails
  \/ \E c \in ChannelCounts : PacketOtherFormat(c) \/ Packet(c)
  \/ Tone \/ Exit

Next ==
  \/ DaemonStep \/ Signal \/ Lose \/ Tick
  \/ \E c \in 0 .. CounterMod - 1 : DeviceRestart(c)
  \/ \E n \in 1 .. Capacity : ReaderTakes(n)

Spec == Init /\ [][Next]_vars

\* The process is scheduled, and pcap_next_ex returns after its timeout.
FairSpec == Spec /\ WF_vars(DaemonStep)

-----------------------------------------------------------------------------
(* Properties. *)

\* Every variable stays in its domain; in particular no counter goes negative and
\* the fill is a fill.
TypeOK ==
  /\ tone \in BOOLEAN /\ isRunning \in BOOLEAN
  /\ channels \in ChannelCounts \cup {0}
  /\ pc \in {"start", "loop", "status", "wait", "burst", "exit", "gone"}
  /\ ring \in [created : BOOLEAN, write_pos : Nat, read_pos : Nat, dropped : Nat,
               overruns : Nat, clock : Nat, wrote : ChannelCounts \cup {0}]
  /\ ring.write_pos - ring.read_pos \in 0 .. Capacity
  /\ stats \in [received : Nat, lost : Nat, malformed : Nat, nonReac : Nat, errors : Nat,
                statusLast : Nat]
  /\ lastCounter \in 0 .. CounterMod
  /\ due \in Nat /\ sent \in Nat /\ asked \in Nat /\ now \in Nat
  /\ report \in {"none", "tone", "no packets", "stalled", "flowing"}
  /\ net \in [counter : 0 .. CounterMod - 1, sent : Nat, missed : Nat, truth : Nat,
              restarts : Nat, longGap : BOOLEAN, heard : 0 .. 1, told : 0 .. 1]

\* lost_packets is the number of packets missing between those received, across
\* the wrap of the 16 bit counter, as long as no gap reaches half its range; each
\* restart of the device falsifies it by less than that half.
LossAccounted ==
  ~net.longGap =>
    /\ stats.lost - net.truth <= net.restarts * (Half - 1)
    /\ net.truth - stats.lost <= net.restarts * (Half - 1)

\* received counts what was captured and dropped_packets what of it did not fit:
\* the difference is what is in the ring, and the published clock is at its end.
FramesAccounted ==
  /\ ring.write_pos = FramesPerPacket * (stats.received - ring.dropped)
  /\ ring.clock = ring.write_pos
  /\ ring.overruns = ring.dropped

\* shared_audio_write copies as many channels as the ring has: what is written
\* never has another count, for then it would copy what an older packet left.
OnlyRingFormatWritten == ring.wrote \in {0, channels}

\* After each burst the tone is behind the clock by less than a packet and not
\* ahead of it.
ToneKeepsUp ==
  tone /\ pc = "status" => sent <= asked /\ asked < sent + FramesPerPacket

\* Once a signal came the daemon ends, and its ring is gone.
ShutdownCompletes == ~isRunning ~> pc = "gone" /\ ~ring.created

\* The status line tells a flowing stream from a stalled one: "No REAC packets on ... yet"
\* and "REAC stream stalled" stand in it exactly if the daemon accepted no packet since the
\* line before; packets of another format than the ring's it does not count (print_status).
StatusHonest == report \notin {"none", "tone"} => (report = "flowing" <=> net.told = 1)

-----------------------------------------------------------------------------
(* Why it works: what each of the books is kept against between two packets. *)

\* Before the ring is made nothing was received; a daemon that starts has no ring, and
\* a tone has a channel count, so that its ring is made at once.
RingStages ==
  /\ pc # "gone" /\ ~ring.created => ring = NoRing /\ stats.received = 0
  /\ pc = "start" => ~ring.created
  /\ lastCounter = NoCounter => stats.lost = 0 /\ net.truth = 0
  /\ tone => channels # 0 /\ (pc \in {"loop", "status", "wait", "burst"} => ring.created)
  /\ pc = "burst" => tone

\* The count at the last status line is behind exactly if a packet was accepted since.
StatusStages ==
  /\ stats.statusLast <= stats.received
  /\ ~tone => (net.heard = 1 <=> stats.statusLast # stats.received)

\* The count of lost packets is off by at most e gaps.
LossWithin(e) ==
  /\ stats.lost - net.truth <= e * (Half - 1)
  /\ net.truth - stats.lost <= e * (Half - 1)

\* The device's counter is ahead of the last one noted by the packets missed, or a restart
\* since then has not yet been paid for.
CounterStages ==
  lastCounter # NoCounter /\ ~net.longGap =>
    \/ net.counter = (lastCounter + 1 + net.missed) % CounterMod
    \/ LossWithin(net.restarts - 1)

\* elapsed_ns * REACJACKD_SAMPLE_RATE stays within its word: some four days.
NoOverflow == MaxTime * Rate < WordMod

\* The tone never runs ahead of what was due, which never runs ahead of the clock.
ToneStages ==
  NoOverflow /\ tone =>
    /\ now <= MaxTime
    /\ sent <= asked /\ asked <= (now * Rate) \div Second
    /\ pc = "burst" => due = asked
    /\ pc = "status" => asked < sent + FramesPerPacket

\* What holds of the daemon in every state: the domains, the frame accounts of ring, packets
\* and clock, one format per ring, and a status line that tells the truth.
DaemonInvariant ==
  /\ TypeOK /\ FramesAccounted /\ OnlyRingFormatWritten /\ StatusHonest /\ LossAccounted
  /\ RingStages /\ StatusStages /\ CounterStages /\ ToneStages
=============================================================================
