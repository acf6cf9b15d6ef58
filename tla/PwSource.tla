------------------------------ MODULE PwSource ------------------------------
(***************************************************************************)
(* reacjack-pw: the program's start and orderly end (main), its capture    *)
(* thread (capture_thread_main) and the process callback PipeWire runs in  *)
(* its realtime thread (on_process), over the private audio ring between   *)
(* the two (audio_ring_write and audio_ring_read, copied frame by frame).  *)
(* What arrives on the socket is made byte by byte by the sending side of  *)
(* ReacDecode, so that a sample is followed from the wire to the buffer    *)
(* PipeWire plays.                                                         *)
(*                                                                         *)
(* External: the network (packets are lost or repeated, other frames       *)
(* arrive), and PipeWire, which calls on_process while the stream is       *)
(* connected and waits for the call in progress in pw_stream_destroy.      *)
(***************************************************************************)
EXTENDS ReacDecode, Sequences, FiniteSets

CONSTANTS
  Channels,       \* -c: the channels of the ring and of the stream
  Capacity,       \* REACJACK_PW_RING_FRAMES
  FirstCounter,   \* the counter of the device's first packet
  ForeignSizes,   \* sizes of captured frames that are not this device's packets
  Requested,      \* numbers of frames PipeWire asks for
  MaxPackets,     \* bound: packets the device sends
  MaxFaults,      \* bound: foreign frames, repeated packets and failures of poll or recv, together
  MaxUnderruns    \* bound: callbacks that find too few frames

ASSUME PwSourceAssumption ==
  /\ Supported(Channels) /\ Capacity \in Nat \ {0} /\ Requested \subseteq Nat \ {0}
  /\ FirstCounter \in 0 .. CounterMod - 1 /\ ForeignSizes \subseteq Nat /\ MaxPackets \in Nat

VARIABLES
  phase,      \* main: the next thing to set up, "run", "join" or "leave"
  todo,       \* what main still has to release, in order, before it returns
  live,       \* resources that exist: "ring", "socket", "loop", "stream"
  connected,  \* whether the stream is connected, so that on_process is called
  running,    \* app.running
  cap,        \* capture thread: "none", "test", "poll", "copy", "gone"
  packet,     \* capture thread: counter, number and interleaved samples being written
  written,    \* audio_ring_write: frames copied so far
  samples, read_pos, write_pos,  \* the ring
  cb,         \* process callback: "idle" or "copy"
  to_read,    \* audio_ring_read: frames it returns
  read_frames,\* audio_ring_read: frames copied so far
  out,        \* the buffer given to PipeWire
  last,       \* last_counter, once have_last_counter
  stats,      \* the counters print_summary prints
  sent,       \* history: packets the device has sent
  heard,      \* history: how many of the device's packets (and repeated ones), and of other
              \* frames, were received
  accepted    \* history: the numbers of the packets written to the ring, in order

main == <<phase, todo, live, connected, running>>
capture == <<cap, packet, written, last, sent, heard, accepted>>
callback == <<cb, to_read, read_frames, out>>
ring == <<samples, read_pos, write_pos>>
vars == <<main, capture, callback, ring, stats>>

NoCounter == -1
NoPacket == [counter |-> 0, number |-> 0, interleaved |-> << >>]
Stale == SampleMod   \* a sample nobody wrote into the buffer PipeWire handed out
Faults == heard.foreign + heard.repeats + stats.errors
Block == FramesPerPacket * Channels

\* Sample ch of the frame-th frame of the device's packet number n.
DeviceSample(n, frame, ch) ==
  (((Channels + 1) * (n * FramesPerPacket + frame) + ch) % SampleMod) - SampleMod \div 2

DevicePacket(n) ==
  make_packet((FirstCounter + n) % CounterMod, Channels,
              [frame \in 0 .. FramesPerPacket - 1 |->
                 [ch \in 0 .. Channels - 1 |-> DeviceSample(n, frame, ch)]])

\* Frames of other protocols, of other REAC formats, and damaged ones.
ForeignFrames ==
  {f \in [size : ForeignSizes, reac : BOOLEAN, marked : BOOLEAN,
          counter : {[i \in 0 .. 1 |-> 0]}, payload : {<< >>}] :
     ~ (f.size = DevicePacket(0).size /\ f.reac /\ f.marked)}

Init ==
  /\ phase = "ring" /\ todo = << >> /\ live = {} /\ connected = FALSE /\ running = TRUE
  /\ cap = "none" /\ written = 0 /\ last = NoCounter
  /\ packet = NoPacket
  /\ samples = [i \in 0 .. Capacity * Channels - 1 |-> 0] /\ read_pos = 0 /\ write_pos = 0
  /\ cb = "idle" /\ to_read = 0 /\ read_frames = 0 /\ out = [i \in {} |-> Stale]
  /\ stats = [received |-> 0, lost |-> 0, non_reac |-> 0, malformed |-> 0,
              errors |-> 0, overruns |-> 0, underruns |-> 0]
  /\ sent = 0 /\ heard = [device |-> 0, repeats |-> 0, foreign |-> 0] /\ accepted = << >>

-----------------------------------------------------------------------------
(* main: setting up, each step with the cleanup its failure takes *)

Cleanup(resources) == phase' = "leave" /\ todo' = resources

audio_ring_init ==
  /\ phase = "ring"
  /\ \/ phase' = "socket" /\ live' = {"ring"} /\ UNCHANGED todo
     \/ Cleanup(<< >>) /\ UNCHANGED live
  /\ UNCHANGED <<connected, running, capture, callback, ring, stats>>

open_capture_socket ==
  /\ phase = "socket"
  /\ \/ phase' = "loop" /\ live' = live \cup {"socket"} /\ UNCHANGED todo
     \/ Cleanup(<<"ring">>) /\ UNCHANGED live
  /\ UNCHANGED <<connected, running, capture, callback, ring, stats>>

pw_main_loop_new ==
  /\ phase = "loop"
  /\ \/ phase' = "stream" /\ live' = live \cup {"loop"} /\ UNCHANGED todo
     \/ Cleanup(<<"socket", "ring">>) /\ UNCHANGED live
  /\ UNCHANGED <<connected, running, capture, callback, ring, stats>>

\* The stream is created and connected; when only connecting fails it is left behind.
start_pipewire_stream ==
  /\ phase = "stream"
  /\ \/ /\ phase' = "thread" /\ live' = live \cup {"stream"} /\ connected' = TRUE
        /\ UNCHANGED todo
     \/ /\ Cleanup(<<"loop", "socket", "ring">>)
        /\ live' \in {live, live \cup {"stream"}} /\ UNCHANGED connected
  /\ UNCHANGED <<running, capture, callback, ring, stats>>

\* Mutant: the ring is freed before the stream that reads it is destroyed.
TeardownRingFirst == <<"ring", "stream", "loop", "socket">>

Teardown == <<"stream", "loop", "socket", "ring">>

create_capture_thread ==
  /\ phase = "thread"
  /\ \/ phase' = "run" /\ cap' = "test" /\ UNCHANGED todo
     \/ Cleanup(Teardown) /\ UNCHANGED cap
  /\ UNCHANGED <<live, connected, running, packet, written, last, sent, heard, accepted,
                 callback, ring, stats>>

\* SIGINT or SIGTERM, delivered by the main loop, which then returns.
do_quit ==
  /\ phase = "run"
  /\ running' = FALSE /\ phase' = "join"
  /\ UNCHANGED <<todo, live, connected, capture, callback, ring, stats>>

join_capture_thread ==
  /\ phase = "join" /\ cap = "gone"
  /\ Cleanup(Teardown)
  /\ UNCHANGED <<live, connected, running, capture, callback, ring, stats>>

\* pw_stream_destroy waits for the callback in progress and stops further ones.
Release ==
  /\ phase = "leave" /\ todo /= << >>
  /\ Head(todo) = "stream" => cb = "idle"
  /\ live' = live \ {Head(todo)} /\ todo' = Tail(todo)
  /\ connected' = (connected /\ Head(todo) /= "stream")
  /\ UNCHANGED <<phase, running, capture, callback, ring, stats>>

-----------------------------------------------------------------------------
(* capture_thread_main *)

TestRunning ==
  /\ cap = "test"
  /\ cap' = IF running THEN "poll" ELSE "gone"
  /\ UNCHANGED <<main, packet, written, last, sent, heard, accepted, callback, ring, stats>>

\* Mutant: a timeout polls again without looking at running.
PollForever ==
  /\ cap = "poll"
  /\ cap' = "poll"
  /\ UNCHANGED <<main, packet, written, last, sent, heard, accepted, callback, ring, stats>>

\* poll returns after 250 ms, or poll or recv is interrupted.
PollTimeout ==
  /\ cap = "poll"
  /\ cap' = "test"
  /\ UNCHANGED <<main, packet, written, last, sent, heard, accepted, callback, ring, stats>>

PollOrRecvFails ==
  /\ cap = "poll" /\ Faults < MaxFaults
  /\ cap' = "test" /\ stats' = [stats EXCEPT !.errors = @ + 1]
  /\ UNCHANGED <<main, packet, written, last, sent, heard, accepted, callback, ring>>

\* interleaved[frame * channel_count + ch]
interleave_packet(channels) ==
  [i \in 0 .. Block - 1 |-> channels[i % Channels][i \div Channels]]

\* Mutant: one frame too many fits.
RoomForOneMore(frames) == frames <= Capacity + 1 - (write_pos - read_pos)

\* audio_ring_write has room for the packet, by the read position it loads.
RoomFor(frames) == frames <= Capacity - (write_pos - read_pos)

\* What the loop does with the captured frame f, the device's packet number n.
HandleFrame(f, n) ==
  LET view == reac_parse_packet(f)
      decoded == Samples(f.payload, view.channels, FramesPerPacket)
  IN \/ /\ view.status = "not_reac"
        /\ stats' = [stats EXCEPT !.non_reac = @ + 1] /\ cap' = "test" /\ UNCHANGED <<packet, written>>
     \/ /\ \/ view.status \notin {"ok", "not_reac"}
           \/ view.status = "ok"
              /\ \/ view.channels /= Channels
                 \/ DecodeStatus(f.size - reac_packet_overhead - EndMarkerBytes,
                                 view.channels, FramesPerPacket) /= "ok"
        /\ stats' = [stats EXCEPT !.malformed = @ + 1] /\ cap' = "test" /\ UNCHANGED <<packet, written>>
     \/ /\ view.status = "ok" /\ view.channels = Channels
        /\ DecodeStatus(f.size - reac_packet_overhead - EndMarkerBytes,
                        view.channels, FramesPerPacket) = "ok"
        /\ IF RoomFor(FramesPerPacket)
             THEN /\ cap' = "copy" /\ written' = 0 /\ UNCHANGED stats
                  /\ packet' = [counter |-> view.counter, number |-> n,
                                interleaved |-> interleave_packet(decoded)]
             ELSE /\ stats' = [stats EXCEPT !.overruns = @ + 1]
                  /\ cap' = "test" /\ UNCHANGED <<packet, written>>

\* The device's next packet that is not lost, or its last one again.
RecvDevice ==
  /\ cap = "poll"
  /\ \E n \in 0 .. MaxPackets - 1 :
       /\ n >= sent \/ (n = sent - 1 /\ Faults < MaxFaults)
       /\ sent' = n + 1
       /\ heard' = [heard EXCEPT !.device = @ + 1, !.repeats = @ + (IF n < sent THEN 1 ELSE 0)]
       /\ HandleFrame(DevicePacket(n), n)
  /\ UNCHANGED <<main, last, accepted, callback, ring>>

RecvForeign ==
  /\ cap = "poll" /\ Faults < MaxFaults
  /\ heard' = [heard EXCEPT !.foreign = @ + 1]
  /\ \E f \in ForeignFrames : HandleFrame(f, 0)
  /\ UNCHANGED <<main, last, sent, accepted, callback, ring>>

\* audio_ring_write copies one more frame to its place in the ring.
WriteFrame ==
  /\ cap = "copy" /\ written < FramesPerPacket
  /\ LET write_index == (write_pos + written) % Capacity
     IN samples' = [i \in DOMAIN samples |->
                      IF i \div Channels = write_index
                        THEN packet.interleaved[written * Channels + (i % Channels)]
                        ELSE samples[i]]
  /\ written' = written + 1
  /\ UNCHANGED <<main, cap, packet, last, sent, heard, accepted, callback, read_pos,
                 write_pos, stats>>

\* Mutant: the gap is not taken modulo the range of the counter.
LostBeforeNoWrap(counter) ==
  LET gap == counter - (last + 1)
  IN IF last = NoCounter THEN 0 ELSE IF gap < CounterMod \div 2 THEN gap ELSE 1

\* The packets note_counter adds to lost_packets.
LostBefore(counter) ==
  LET gap == (counter - (last + 1)) % CounterMod
  IN IF last = NoCounter THEN 0 ELSE IF gap < CounterMod \div 2 THEN gap ELSE 1

\* The new write position is published and the packet counted.
PublishPacket ==
  /\ cap = "copy" /\ written = FramesPerPacket
  /\ write_pos' = write_pos + FramesPerPacket
  /\ stats' = [stats EXCEPT !.received = @ + 1, !.lost = @ + LostBefore(packet.counter)]
  /\ last' = packet.counter
  /\ accepted' = Append(accepted, packet.number)
  /\ cap' = "test" /\ packet' = NoPacket /\ written' = 0
  /\ UNCHANGED <<main, sent, heard, callback, samples, read_pos>>

-----------------------------------------------------------------------------
(* on_process, in PipeWire's realtime thread *)

\* A buffer is dequeued and audio_ring_read sees how much of it can be filled.
ProcessBegin(frames) ==
  LET available == write_pos - read_pos
  IN /\ connected /\ cb = "idle"
     /\ available >= frames \/ stats.underruns < MaxUnderruns
     /\ cb' = "copy" /\ read_frames' = 0
     /\ to_read' = IF available < frames THEN available ELSE frames
     /\ out' = [i \in 0 .. frames * Channels - 1 |-> Stale]
     /\ UNCHANGED <<main, capture, ring, stats>>

ReadFrame ==
  /\ cb = "copy" /\ read_frames < to_read
  /\ LET read_index == (read_pos + read_frames) % Capacity
     IN out' = [i \in DOMAIN out |->
                  IF i \div Channels = read_frames
                    THEN samples[read_index * Channels + (i % Channels)]
                    ELSE out[i]]
  /\ read_frames' = read_frames + 1
  /\ UNCHANGED <<main, capture, ring, stats, cb, to_read>>

\* Mutant: the rest of the buffer keeps what was in it.
ProcessEndKeepsRest ==
  /\ cb = "copy" /\ read_frames = to_read
  /\ read_pos' = read_pos + to_read
  /\ stats' = IF to_read * Channels < Cardinality(DOMAIN out)
                THEN [stats EXCEPT !.underruns = @ + 1] ELSE stats
  /\ cb' = "idle"
  /\ UNCHANGED <<main, capture, samples, write_pos, to_read, read_frames, out>>

\* The rest of the buffer is silenced, the read position published, the buffer queued.
ProcessEnd ==
  /\ cb = "copy" /\ read_frames = to_read
  /\ out' = [i \in DOMAIN out |-> IF i >= to_read * Channels THEN 0 ELSE out[i]]
  /\ read_pos' = read_pos + to_read
  /\ stats' = IF to_read * Channels < Cardinality(DOMAIN out)
                THEN [stats EXCEPT !.underruns = @ + 1] ELSE stats
  /\ cb' = "idle"
  /\ UNCHANGED <<main, capture, samples, write_pos, to_read, read_frames>>

-----------------------------------------------------------------------------
MainStep ==
  \/ audio_ring_init \/ open_capture_socket \/ pw_main_loop_new \/ start_pipewire_stream
  \/ create_capture_thread \/ join_capture_thread \/ Release

CaptureStep ==
  \/ TestRunning \/ PollTimeout \/ PollOrRecvFails \/ RecvDevice \/ RecvForeign
  \/ WriteFrame \/ PublishPacket

CallbackStep == (\E frames \in Requested : ProcessBegin(frames)) \/ ReadFrame \/ ProcessEnd

Next == MainStep \/ do_quit \/ CaptureStep \/ CallbackStep

Spec == Init /\ [][Next]_vars

\* Every thread is scheduled; nothing obliges PipeWire to begin a callback or anyone to quit.
FairSpec ==
  /\ Spec
  /\ WF_vars(MainStep) /\ WF_vars(CaptureStep) /\ WF_vars(ReadFrame \/ ProcessEnd)

-----------------------------------------------------------------------------
Resources == {"ring", "socket", "loop", "stream"}

TypeOK ==
  /\ phase \in {"ring", "socket", "loop", "stream", "thread", "run", "join", "leave"}
  /\ live \subseteq Resources /\ todo \in Seq(Resources)
  /\ connected \in BOOLEAN /\ running \in BOOLEAN
  /\ cap \in {"none", "test", "poll", "copy", "gone"} /\ cb \in {"idle", "copy"}
  /\ read_pos \in Nat /\ write_pos \in Nat /\ write_pos - read_pos \in 0 .. Capacity
  /\ written \in 0 .. FramesPerPacket /\ to_read \in Nat /\ read_frames \in 0 .. to_read
  /\ last \in {NoCounter} \cup 0 .. CounterMod - 1
  /\ samples \in [0 .. Capacity * Channels - 1 -> - (SampleMod \div 2) .. SampleMod \div 2 - 1]
  /\ stats \in [received : Nat, lost : Nat, non_reac : Nat, malformed : Nat, errors : Nat,
                overruns : Nat, underruns : Nat]
  /\ sent \in Nat /\ heard \in [device : Nat, repeats : Nat, foreign : Nat]
  /\ accepted \in Seq(Nat) /\ DOMAIN out \subseteq Nat

\* Frame q of the stream of accepted packets, one sample per channel, as the device made it.
StreamSample(q, ch) ==
  DeviceSample(accepted[q \div FramesPerPacket + 1], q % FramesPerPacket, ch)

\* What PipeWire gets is what the device put on the wire: every sample of the buffer
\* comes from the channel and the frame it stands for, with its sign and its byte order,
\* in the order of the accepted packets and without one skipped or repeated; after the
\* frames there are, silence, and never a sample nobody wrote (reac_decode.c:109-121,
\* interleave_packet, audio_ring_write, audio_ring_read).
DeliveredExact ==
  LET first == IF cb = "idle" THEN read_pos - to_read ELSE read_pos
  IN \A i \in DOMAIN out :
       LET frame == i \div Channels
       IN /\ frame < read_frames => out[i] = StreamSample(first + frame, i % Channels)
          /\ cb = "idle" /\ frame >= to_read => out[i] = 0

\* Nobody touches what is gone: the capture thread polls an open socket and writes an
\* allocated ring, the callback reads one, at any point of the start, of the teardown
\* and of the cleanup after each failed step (reacjack-pw.c:486-540).
NoUseAfterRelease ==
  /\ cap \in {"poll", "copy"} => "socket" \in live
  /\ cap = "copy" \/ cb = "copy" => "ring" \in live
  /\ connected => "stream" \in live /\ "loop" \in live

\* When main has returned, nothing is left over, except the stream that was created
\* and could not be connected (reacjack-pw.c:427-433, 509-514).
ReleasedOnExit ==
  phase = "leave" /\ todo = << >> =>
    ~ connected /\ cap \in {"none", "gone"} /\ live \subseteq {"stream"}
    /\ (cap = "gone" => live = {})

\* Every frame received is counted once, the device's packets as received or as an
\* overrun and only what is not the device's as malformed or as not REAC
\* (reacjack-pw.c:302-334).
EveryFrameCounted ==
  /\ heard.device = stats.received + stats.overruns + (IF cap = "copy" THEN 1 ELSE 0)
  /\ heard.foreign = stats.malformed + stats.non_reac

\* While no gap reaches half the range of the counter, received and lost packets add up
\* to the packets the device sent from the first one accepted to the last, however often
\* the counter wrapped; packets that found the ring full are among the lost.  A packet
\* delivered twice is counted twice over, once as received and once as lost
\* (note_counter, and the order of the calls at reacjack-pw.c:328-334).
LossAccounted ==
  LET n == Len(accepted)
      repeats == {i \in 2 .. n : accepted[i] = accepted[i - 1]}
  IN n > 0 /\ (\A i \in 2 .. n : accepted[i] - accepted[i - 1] <= CounterMod \div 2) =>
       stats.received + stats.lost =
         accepted[n] - accepted[1] + 1 + 2 * Cardinality(repeats)

-----------------------------------------------------------------------------
(* Why it works: how far each of the three has come, and what the ring holds then. *)

\* main has set up what the phase says, and has still to release what it has.
MainStages ==
  /\ phase /= "leave" =>
       /\ todo = << >>
       /\ "ring" \in live <=> phase /= "ring"
       /\ "socket" \in live <=> phase \notin {"ring", "socket"}
       /\ "loop" \in live <=> phase \notin {"ring", "socket", "loop"}
       /\ "stream" \in live <=> phase \in {"thread", "run", "join"}
       /\ connected <=> phase \in {"thread", "run", "join"}
       /\ cap = "none" <=> phase \notin {"run", "join"}
  /\ phase = "leave" =>
       /\ cap \in {"none", "gone"}
       /\ todo \in {Teardown, <<"loop", "socket", "ring">>, <<"socket", "ring">>, <<"ring">>, << >>}
       /\ live \ {"stream"} = {todo[i] : i \in DOMAIN todo} \ {"stream"}
       /\ connected <=> todo = Teardown
       /\ connected => "stream" \in live
       /\ cap = "gone" /\ ~ connected => "stream" \notin live
  /\ cb = "copy" => connected

\* The books of the capture thread agree with the packets it accepted, and a packet being
\* written is the last one received, decoded, and has its room in the ring.
CaptureStages ==
  /\ \A i \in 1 .. Len(accepted) : accepted[i] < sent
  /\ \A i \in 2 .. Len(accepted) : accepted[i - 1] <= accepted[i]
  /\ write_pos = FramesPerPacket * Len(accepted) /\ stats.received = Len(accepted)
  /\ accepted = << >> => stats.lost = 0
  /\ last = IF accepted = << >> THEN NoCounter
            ELSE (FirstCounter + accepted[Len(accepted)]) % CounterMod
  /\ cap = "copy" =>
       /\ sent > 0 /\ write_pos + FramesPerPacket - read_pos <= Capacity
       /\ packet = [counter |-> (FirstCounter + (sent - 1)) % CounterMod, number |-> sent - 1,
                    interleaved |-> [i \in 0 .. Block - 1 |->
                                       DeviceSample(sent - 1, i \div Channels, i % Channels)]]

RingSample(q, ch) == samples[(q % Capacity) * Channels + ch]

\* Every frame between the positions is in its place, and what is already written of the
\* next packet behind them.
RingStages ==
  /\ \A q \in read_pos .. write_pos - 1, ch \in 0 .. Channels - 1 :
       RingSample(q, ch) = StreamSample(q, ch)
  /\ cap = "copy" => \A w \in 0 .. written - 1, ch \in 0 .. Channels - 1 :
       RingSample(write_pos + w, ch) = DeviceSample(sent - 1, w, ch)

\* A callback takes frames that are in the ring; between two, those of the last one are
\* those before the read position.
CallbackStages ==
  /\ cb = "copy" => to_read <= write_pos - read_pos
  /\ cb = "idle" => read_frames = to_read /\ to_read <= read_pos

\* What holds of reacjack-pw in every state, from the first step of the start to the end of
\* the last cleanup: nobody uses what is gone, all is given back, every frame is counted.
SourceInvariant ==
  /\ TypeOK /\ NoUseAfterRelease /\ ReleasedOnExit /\ EveryFrameCounted
  /\ MainStages /\ CaptureStages /\ RingStages /\ CallbackStages

\* The ring implements the bounded queue of frames of AudioFifo: packets go in whole and
\* in order or not at all, frames come out in order, and a frame in the queue is never
\* overwritten (audio_ring_write and audio_ring_read).
Fifo == INSTANCE AudioFifo WITH
  head <- read_pos, tail <- write_pos,
  buffer <- [q \in read_pos .. write_pos - 1 |->
              [ch \in 0 .. Channels - 1 |->
                 IF samples[(q % Capacity) * Channels + ch] = StreamSample(q, ch)
                   THEN q ELSE -1]]

ImplementsFifo == Fifo!Spec

\* Once asked to quit, or once a step of the start failed, main returns: the capture
\* thread sees running within a poll timeout, the callback ends (reacjack-pw.c:529-542).
ShutdownCompletes == phase \in {"join", "leave"} ~> (phase = "leave" /\ todo = << >>)
=============================================================================
