----------------------------- MODULE JackBridge -----------------------------
(***************************************************************************)
(* reacjack on Linux: main's start and end, the capture thread (copyData)  *)
(* over the packet ring it shares with the kernel (process_rx and          *)
(* process_rx_release), and JACK's process callback, with the byte ring    *)
(* between the two and main's jack_ringbuffer_reset after two seconds.     *)
(*                                                                         *)
(* The byte ring holds cells: a frame of the format with w channels is w   *)
(* cells (3w bytes in the code), and as in the code the size of the ring   *)
(* is a power of two that need not be a multiple of a frame.  A cell is    *)
(* written <<n, k>>: cell k of the device's packet number n.               *)
(*                                                                         *)
(* External: the kernel, which fills the packet ring; JACK, which calls    *)
(* process while the client is active; and libjack's ring, whose           *)
(* operations load both pointers first, copy a block up to the end of the  *)
(* ring and store their own pointer, and then do so with the rest.  Its    *)
(* reset is not safe against them: one that overlaps it is remembered in   *)
(* raced, and its store may use the pointer from before or after.          *)
(* Counters that are only printed are left out, except the lost packets.   *)
(***************************************************************************)
EXTENDS Integers, Sequences, FiniteSets

CONSTANTS
  Widths,           \* channel counts the device sends
  MaxChannels,      \* NUMBER_OF_CHANNELS
  FramesPerPacket,  \* REAC_FRAMES_PER_PACKET
  RingSize,         \* size of the ring in cells, a power of two
  RxFrames,         \* CONF_RING_FRAMES
  CounterMod,       \* 2^16, the range of the packet counter
  FirstCounter,     \* the counter of the device's first packet
  BufferFrames,     \* jack_get_buffer_size when the process buffer is allocated
  CycleFrames,      \* the nframes of process
  MaxFrames,        \* bound: frames on the wire
  Jumps             \* bound: the bases the device's counter may jump to

ASSUME JackBridgeAssumption ==
  /\ Widths \subseteq 1 .. MaxChannels /\ MaxChannels \in Nat \ {0}
  /\ RingSize \in Nat \ {0} /\ RxFrames \in Nat \ {0} /\ FramesPerPacket \in Nat \ {0}
  /\ CounterMod \in Nat /\ CounterMod >= 4 /\ FirstCounter \in 0 .. CounterMod - 1
  /\ BufferFrames \in Nat /\ CycleFrames \subseteq Nat /\ Jumps \subseteq 0 .. CounterMod - 1

VARIABLES
  phase,        \* main: the next thing to set up, "sleep", "reset", "clear", "loop", "join",
                \* "leave", or "undefined" after joining a thread that was never created
  todo,         \* what main still has to release, in order, before it returns
  live,         \* resources that exist: "capture", "client", "buffer", "ring"
  active,       \* whether JACK calls process
  isRunning,
  rx,           \* the packet ring: what is in each slot
  kernel,       \* the slot the kernel fills next
  rxring_offset,
  cap,          \* capture thread: "none", "test", "wait", "format"; "note", "load", "store",
                \* "last" in note_packet_counter; "room", "write", "copy"; "gone"
  dataSize,     \* cells of a packet of the format, 0 when not yet known
  currentNumberOfChannels,
  lostPackages, lastCounter, haveLastCounter,
  loss,         \* capture thread: what lostPackages += adds, then the sum
  buf, read_ptr, write_ptr,   \* the byte ring
  wload,        \* capture thread: its write pointer, the cells written and to be written
  cb,           \* process: "idle", "checked" (enough data seen), "copy"
  want,         \* process: cells of this cycle
  rload,        \* process: its read pointer, the cells it takes and those it has
  cycle,        \* what the last cycle gave to JACK: ports written, and the cells played
  wire,         \* history: frames on the wire, and the device's last packet
  kept,         \* history: frames the kernel put into rx
  handled,      \* history: frames the capture thread is done with
  noted,        \* history: packets whose counter was noted, and the last of them
  queue,        \* history: the cells written and not yet taken, in order
  raced         \* history: an operation on the ring overlapped its reset

main == <<phase, todo, live, active>>
counters == <<lostPackages, lastCounter, haveLastCounter, loss, noted>>
format == <<dataSize, currentNumberOfChannels>>
ring == <<buf, read_ptr, write_ptr, queue>>
packets == <<rx, kernel, rxring_offset, wire, kept, handled>>
callback == <<cb, want, rload, cycle>>
vars == <<main, isRunning, packets, cap, wload, format, counters, ring, callback, raced>>

\* A packet of the device: its number, its channels, and the base its counter is reckoned
\* from; due is how many packets may be counted and reported lost once it is noted.
Packets == [n : Int, width : Nat, base : 0 .. CounterMod - 1, due : Nat]
NoPacket == [n |-> -1, width |-> 0, base |-> FirstCounter, due |-> 0]
CounterOf(packet) == (packet.base + packet.n) % CounterMod
Half == CounterMod \div 2

NoFrame == [kind |-> "none", seq |-> -1, packet |-> NoPacket]
NoWrite == [ptr |-> 0, done |-> 0, cells |-> 0]
NoRead == [ptr |-> 0, cells |-> 0, got |-> << >>]
Nothing == <<-1, 0>>
Least(a, b) == IF a <= b THEN a ELSE b
Used == (write_ptr - read_ptr) % RingSize
PacketCells(width) == FramesPerPacket * width

Init ==
  /\ phase = "capture" /\ todo = << >> /\ live = {} /\ active = FALSE /\ isRunning = TRUE
  /\ rx = [s \in 0 .. RxFrames - 1 |-> NoFrame] /\ kernel = 0 /\ rxring_offset = 0
  /\ cap = "none" /\ wload = NoWrite /\ dataSize = 0 /\ currentNumberOfChannels = 0
  /\ lostPackages = 0 /\ lastCounter = 0 /\ haveLastCounter = FALSE /\ loss = 0
  /\ buf = [i \in 0 .. RingSize - 1 |-> Nothing] /\ read_ptr = 0 /\ write_ptr = 0
  /\ cb = "idle" /\ want = 0 /\ rload = NoRead
  /\ cycle = [ports |-> MaxChannels, cells |-> << >>]
  /\ wire = [frames |-> 0, last |-> NoPacket] /\ kept = 0 /\ handled = 0
  /\ noted = [count |-> 0, last |-> NoPacket] /\ queue = << >> /\ raced = FALSE

-----------------------------------------------------------------------------
(* main *)

Rest == <<isRunning, packets, cap, wload, format, counters, ring, callback, raced>>

\* A step of the start: the resource is there and main goes on, or main cleans up.
SetUp(step, resource, next, cleanup) ==
  /\ phase = step
  /\ \/ phase' = next /\ live' = live \cup resource /\ UNCHANGED todo
     \/ phase' = "leave" /\ todo' = cleanup /\ UNCHANGED live
  /\ UNCHANGED <<active, Rest>>

\* capture_open may fail with the socket open and the packet ring mapped or not.
capture_open ==
  /\ phase = "capture"
  /\ live' \in {{}, {"capture"}}
  /\ \/ live' = {"capture"} /\ phase' = "client" /\ UNCHANGED todo
     \/ phase' = "leave" /\ todo' = <<"capture">>
  /\ UNCHANGED <<active, Rest>>

jack_client_open == SetUp("client", {"client"}, "ports", <<"capture">>)

RegisterPorts == SetUp("ports", {}, "buffer", <<"client", "capture">>)

AllocateProcessBuffer == SetUp("buffer", {"buffer"}, "ring", <<"client", "capture">>)

CreateRing == SetUp("ring", {"ring"}, "activate", <<"buffer", "client", "capture">>)

Activate ==
  /\ phase = "activate"
  /\ \/ phase' = "thread" /\ active' = TRUE /\ UNCHANGED todo
     \/ phase' = "leave" /\ todo' = <<"ring", "buffer", "client", "capture">> /\ UNCHANGED active
  /\ UNCHANGED <<live, Rest>>

\* A failure only clears isRunning.
CreateThread ==
  /\ phase = "thread" /\ phase' = "sleep"
  /\ \/ cap' = "test" /\ UNCHANGED isRunning
     \/ isRunning' = FALSE /\ UNCHANGED cap
  /\ UNCHANGED <<todo, live, active, packets, wload, format, counters, ring, callback, raced>>

RingInUse == cap = "copy" \/ cb = "copy"

\* After sleep(2), jack_ringbuffer_reset: first the one pointer and then the other.
ResetRead ==
  /\ phase = "sleep" /\ phase' = "reset"
  /\ read_ptr' = 0 /\ queue' = << >>
  /\ raced' = (raced \/ RingInUse)
  /\ UNCHANGED <<todo, live, active, isRunning, packets, cap, wload, format, counters, buf,
                 write_ptr, callback>>

ResetWrite ==
  /\ phase = "reset" /\ phase' = "clear"
  /\ write_ptr' = 0
  /\ raced' = (raced \/ RingInUse)
  /\ UNCHANGED <<todo, live, active, isRunning, packets, cap, wload, format, counters, buf,
                 read_ptr, queue, callback>>

\* The counters, haveLastCounter last.
ClearLost ==
  /\ phase = "clear" /\ phase' = "clearHave"
  /\ lostPackages' = 0
  /\ UNCHANGED <<todo, live, active, isRunning, packets, cap, wload, format, lastCounter,
                 haveLastCounter, loss, noted, ring, callback, raced>>

ClearHave ==
  /\ phase = "clearHave" /\ phase' = "loop"
  /\ haveLastCounter' = FALSE
  /\ UNCHANGED <<todo, live, active, isRunning, packets, cap, wload, format, lastCounter,
                 lostPackages, loss, noted, ring, callback, raced>>

\* The status loop ends when isRunning is seen clear.
LeaveLoop ==
  /\ phase = "loop" /\ ~ isRunning
  /\ phase' = "join"
  /\ UNCHANGED <<todo, live, active, Rest>>

\* Mutant: the ring is freed while JACK still calls process.
TeardownRingFirst == <<"ring", "deactivate", "client", "capture", "buffer">>

Teardown == <<"deactivate", "ring", "client", "capture", "buffer">>

\* captureThread is not initialised when the thread could not be created.
JoinThread ==
  /\ phase = "join"
  /\ \/ cap = "gone" /\ phase' = "leave" /\ todo' = Teardown
     \/ cap = "none" /\ phase' = "undefined" /\ UNCHANGED todo
  /\ UNCHANGED <<live, active, Rest>>

\* jack_deactivate and jack_client_close wait for the cycle in progress.
Release ==
  /\ phase = "leave" /\ todo /= << >>
  /\ Head(todo) \in {"deactivate", "client"} => cb = "idle"
  /\ live' = live \ {Head(todo)} /\ todo' = Tail(todo)
  /\ active' = (active /\ Head(todo) \notin {"deactivate", "client"})
  /\ UNCHANGED <<phase, Rest>>

Returned == phase = "leave" /\ todo = << >>

\* SIGINT or SIGTERM, at any time.
request_shutdown ==
  /\ isRunning /\ ~ Returned
  /\ isRunning' = FALSE
  /\ UNCHANGED <<main, packets, cap, wload, format, counters, ring, callback, raced>>

\* The JACK server goes away: no further cycle, and isRunning is cleared.
shutdownReac ==
  /\ active /\ cb = "idle"
  /\ active' = FALSE /\ isRunning' = FALSE
  /\ UNCHANGED <<phase, todo, live, packets, cap, wload, format, counters, ring, callback, raced>>

-----------------------------------------------------------------------------
(* The kernel, and the capture thread *)

\* What the device may send after its last packet: the next one; the same one again, when
\* the network duplicates it; or one whose counter jumps, because the device started anew
\* or the network delayed it.
Arriving ==
  LET last == wire.last
  IN [n : {last.n + 1}, width : Widths, base : {last.base}, due : {last.due + 1}]
     \cup (IF last.n >= 0 THEN {[last EXCEPT !.due = last.due + 2]} ELSE {})
     \cup [n : {last.n + 1}, width : Widths, base : Jumps \ {last.base}, due : {last.due + Half}]

\* The kernel puts the frame into its next slot; it is lost if that is not free, and may be
\* lost on the network.
StoreFrame(f) ==
  \/ /\ rx[kernel] = NoFrame
     /\ rx' = [rx EXCEPT ![kernel] = f]
     /\ kernel' = (kernel + 1) % RxFrames /\ kept' = kept + 1
  \/ UNCHANGED <<rx, kernel, kept>>

\* A frame arrives, a packet of the device or another one (not REAC, malformed, or truncated
\* by the kernel, which all end alike).
FrameArrives ==
  /\ "capture" \in live /\ wire.frames < MaxFrames
  /\ \/ \E packet \in Arriving :
          /\ wire' = [frames |-> wire.frames + 1, last |-> packet]
          /\ StoreFrame([kind |-> "reac", seq |-> kept, packet |-> packet])
     \/ /\ wire' = [wire EXCEPT !.frames = wire.frames + 1]
        /\ StoreFrame([kind |-> "other", seq |-> kept, packet |-> NoPacket])
  /\ UNCHANGED <<main, isRunning, rxring_offset, handled, cap, wload, format, counters, ring,
                 callback, raced>>

\* The slot goes back to the kernel and the thread turns to the next one.
process_rx_release ==
  /\ rx' = [rx EXCEPT ![rxring_offset] = NoFrame]
  /\ rxring_offset' = (rxring_offset + 1) % RxFrames

\* The thread is done with the frame and returns to the head of its loop.
Done ==
  /\ process_rx_release
  /\ handled' = handled + 1 /\ cap' = "test"
  /\ UNCHANGED <<kernel, wire, kept>>

TestRunning ==
  /\ cap = "test"
  /\ cap' = IF isRunning THEN "wait" ELSE "gone"
  /\ UNCHANGED <<main, isRunning, packets, wload, format, counters, ring, callback, raced>>

\* Mutant: process_rx waits for a frame whatever isRunning says.
WaitNeverEnds ==
  /\ cap = "wait" /\ ~ isRunning
  /\ cap' = "wait"
  /\ UNCHANGED <<main, isRunning, packets, wload, format, counters, ring, callback, raced>>

\* process_rx sees isRunning clear: capture_next reports it and the thread ends.
WaitEnds ==
  /\ cap = "wait" /\ ~ isRunning
  /\ cap' = "gone"
  /\ UNCHANGED <<main, isRunning, packets, wload, format, counters, ring, callback, raced>>

\* poll fails: no frame, and the loop is entered again.
PollFails ==
  /\ cap = "wait" /\ isRunning /\ rx[rxring_offset] = NoFrame
  /\ cap' = "test"
  /\ UNCHANGED <<main, isRunning, packets, wload, format, counters, ring, callback, raced>>

\* Mutant: the slot of a rejected frame is not released.
RejectKeepsSlot ==
  LET f == rx[rxring_offset]
  IN /\ cap = "wait" /\ isRunning /\ f /= NoFrame
     /\ \/ f.kind /= "reac"
        \/ dataSize /= 0 /\ dataSize /= PacketCells(f.packet.width)
     /\ handled' = handled + 1 /\ cap' = "test"
     /\ UNCHANGED <<main, isRunning, rx, kernel, rxring_offset, wire, kept, wload, format,
                    counters, ring, callback, raced>>

\* A frame that is truncated, not REAC, malformed or of another format than the first one.
RejectFrame ==
  LET f == rx[rxring_offset]
  IN /\ cap = "wait" /\ isRunning /\ f /= NoFrame
     /\ \/ f.kind /= "reac"
        \/ dataSize /= 0 /\ dataSize /= PacketCells(f.packet.width)
     /\ Done
     /\ UNCHANGED <<main, isRunning, wload, format, counters, ring, callback, raced>>

\* A packet of the format; the first one decides the format.
TakeFrame ==
  LET f == rx[rxring_offset]
  IN /\ cap = "wait" /\ isRunning /\ f /= NoFrame
     /\ f.kind = "reac" /\ dataSize \in {0, PacketCells(f.packet.width)}
     /\ dataSize' = PacketCells(f.packet.width)
     /\ cap' = IF dataSize = 0 THEN "format" ELSE "note"
     /\ UNCHANGED <<main, isRunning, packets, wload, currentNumberOfChannels, counters, ring,
                    callback, raced>>

SetChannels ==
  /\ cap = "format"
  /\ currentNumberOfChannels' = rx[rxring_offset].packet.width
  /\ cap' = "note"
  /\ UNCHANGED <<main, isRunning, packets, wload, dataSize, counters, ring, callback, raced>>

\* Mutant: a counter that goes back is taken for a gap of nearly the whole range.
LostByWholeGap(counter) ==
  IF haveLastCounter THEN (counter - (lastCounter + 1)) % CounterMod ELSE 0

\* The packets missing between the last counter and this one, or one if it cannot be told.
LostBy(counter) ==
  LET gap == (counter - (lastCounter + 1)) % CounterMod
  IN IF ~ haveLastCounter THEN 0 ELSE IF gap < Half THEN gap ELSE 1

\* note_packet_counter compares the counters, adds to lostPackages, and keeps the counter;
\* main may clear lostPackages and haveLastCounter in between.
NoteTest ==
  LET packet == rx[rxring_offset].packet
  IN /\ cap = "note"
     /\ loss' = LostBy(CounterOf(packet))
     /\ noted' = [count |-> noted.count + 1, last |-> packet]
     /\ cap' = IF loss' = 0 THEN "last" ELSE "load"
     /\ UNCHANGED <<main, isRunning, packets, wload, format, lostPackages, lastCounter,
                    haveLastCounter, ring, callback, raced>>

LoadLost ==
  /\ cap = "load" /\ cap' = "store"
  /\ loss' = lostPackages + loss
  /\ UNCHANGED <<main, isRunning, packets, wload, format, lostPackages, lastCounter,
                 haveLastCounter, noted, ring, callback, raced>>

StoreLost ==
  /\ cap = "store" /\ cap' = "last"
  /\ lostPackages' = loss
  /\ UNCHANGED <<main, isRunning, packets, wload, format, lastCounter, haveLastCounter, loss,
                 noted, ring, callback, raced>>

NoteLast ==
  /\ cap = "last" /\ cap' = "room"
  /\ lastCounter' = CounterOf(rx[rxring_offset].packet)
  /\ haveLastCounter' = TRUE /\ loss' = 0
  /\ UNCHANGED <<main, isRunning, packets, wload, format, lostPackages, noted, ring, callback,
                 raced>>

RoomForPacket == dataSize <= RingSize - 1 - Used

\* write_payload_to_ring goes on if there is room for all of the packet.
CheckRoom ==
  /\ cap = "room"
  /\ \/ RoomForPacket /\ cap' = "write" /\ UNCHANGED packets
     \/ ~ RoomForPacket /\ Done
  /\ UNCHANGED <<main, isRunning, wload, format, counters, ring, callback, raced>>

\* jack_ringbuffer_write looks at the room again.
WriteBegin ==
  /\ cap = "write" /\ cap' = "copy"
  /\ wload' = [ptr |-> write_ptr, done |-> 0, cells |-> Least(dataSize, RingSize - 1 - Used)]
  /\ raced' = (raced \/ phase = "reset")
  /\ UNCHANGED <<main, isRunning, packets, format, counters, ring, callback>>

\* Where a ring operation that took n cells from the pointer it loaded leaves that pointer.
Advanced(loaded, current, n) ==
  IF n = 0 THEN {current}
  ELSE {(p + n) % RingSize : p \in IF raced THEN {loaded, current} ELSE {loaded}}

\* A block of the payload, up to the end of the ring, is copied out of the packet ring and
\* the pointer advanced; after the last block the slot is released.
WriteBlock ==
  LET Cell(k) == <<rx[rxring_offset].packet.n, k>>
      n == Least(wload.cells - wload.done, RingSize - wload.ptr)
  IN /\ cap = "copy"
     /\ buf' = [i \in DOMAIN buf |->
                  LET k == (i - wload.ptr) % RingSize
                  IN IF k < n THEN Cell(wload.done + k) ELSE buf[i]]
     /\ queue' = queue \o [k \in 1 .. n |-> Cell(wload.done + k - 1)]
     /\ write_ptr' \in Advanced(wload.ptr, write_ptr, n)
     /\ \/ wload.done + n < wload.cells
           /\ wload' = [ptr |-> write_ptr', done |-> wload.done + n, cells |-> wload.cells]
           /\ UNCHANGED <<cap, packets>>
        \/ wload.done + n = wload.cells
           /\ Done /\ wload' = NoWrite
     /\ UNCHANGED <<main, isRunning, format, counters, read_ptr, callback, raced>>

-----------------------------------------------------------------------------
(* process *)

silence_outputs(channels) ==
  cycle' = [ports |-> IF channels \in 1 .. MaxChannels THEN channels ELSE MaxChannels,
            cells |-> << >>]

\* A cycle with nothing to play: no format yet, a cycle larger than the process buffer, or
\* too little data.
ProcessSilence(nframes) ==
  LET cells == nframes * currentNumberOfChannels
  IN /\ active /\ cb = "idle"
     /\ \/ (currentNumberOfChannels = 0 \/ dataSize = 0) /\ silence_outputs(MaxChannels)
        \/ /\ currentNumberOfChannels /= 0 /\ dataSize /= 0
           /\ cells > BufferFrames * MaxChannels \/ Used < cells
           /\ silence_outputs(currentNumberOfChannels)
     /\ UNCHANGED <<main, isRunning, packets, cap, wload, format, counters, ring, cb, want, rload,
                    raced>>

\* Mutant: the amount is that of a single channel.
ProcessBeginOneChannel(nframes) ==
  LET cells == nframes
  IN /\ active /\ cb = "idle"
     /\ currentNumberOfChannels /= 0 /\ dataSize /= 0
     /\ cells <= BufferFrames * MaxChannels /\ Used >= cells
     /\ cb' = "checked" /\ want' = cells
     /\ UNCHANGED <<main, isRunning, packets, cap, wload, format, counters, ring, rload, cycle,
                    raced>>

ProcessBegin(nframes) ==
  LET cells == nframes * currentNumberOfChannels
  IN /\ active /\ cb = "idle"
     /\ currentNumberOfChannels /= 0 /\ dataSize /= 0
     /\ cells <= BufferFrames * MaxChannels /\ Used >= cells
     /\ cb' = "checked" /\ want' = cells
     /\ UNCHANGED <<main, isRunning, packets, cap, wload, format, counters, ring, rload, cycle,
                    raced>>

\* jack_ringbuffer_read takes what there is, up to what is asked for.
ReadBegin ==
  /\ cb = "checked"
  /\ cb' = "copy"
  /\ rload' = [ptr |-> read_ptr, cells |-> Least(Used, want), got |-> << >>]
  /\ raced' = (raced \/ phase = "reset")
  /\ UNCHANGED <<main, isRunning, packets, cap, wload, format, counters, ring, want, cycle>>

\* A block, up to the end of the ring, is copied and the pointer advanced.  After the last
\* one the cells read are played if they are all there; if not, or if JACK has no buffer for
\* a port, the cycle is silent.
ReadBlock ==
  LET n == Least(rload.cells - Len(rload.got), RingSize - rload.ptr)
      got == rload.got \o [k \in 1 .. n |-> buf[(rload.ptr + k - 1) % RingSize]]
  IN /\ cb = "copy"
     /\ read_ptr' \in Advanced(rload.ptr, read_ptr, n)
     /\ queue' = IF Len(queue) < n THEN << >> ELSE SubSeq(queue, n + 1, Len(queue))
     /\ \/ Len(got) < rload.cells
           /\ rload' = [ptr |-> read_ptr', cells |-> rload.cells, got |-> got]
           /\ UNCHANGED <<cb, want, cycle>>
        \/ Len(got) = rload.cells
           /\ \/ /\ rload.cells = want
                 /\ cycle' = [ports |-> currentNumberOfChannels, cells |-> got]
              \/ silence_outputs(currentNumberOfChannels)
           /\ cb' = "idle" /\ want' = 0 /\ rload' = NoRead
     /\ UNCHANGED <<main, isRunning, packets, cap, wload, format, counters, buf, write_ptr, raced>>

-----------------------------------------------------------------------------
MainStep ==
  \/ capture_open \/ jack_client_open \/ RegisterPorts \/ AllocateProcessBuffer \/ CreateRing
  \/ Activate \/ CreateThread \/ ResetRead \/ ResetWrite \/ ClearLost \/ ClearHave \/ LeaveLoop
  \/ JoinThread \/ Release

CaptureStep ==
  \/ TestRunning \/ WaitEnds \/ PollFails \/ RejectFrame \/ TakeFrame \/ SetChannels
  \/ NoteTest \/ LoadLost \/ StoreLost \/ NoteLast \/ CheckRoom \/ WriteBegin \/ WriteBlock

CallbackStep ==
  \/ \E nframes \in CycleFrames : ProcessSilence(nframes) \/ ProcessBegin(nframes)
  \/ ReadBegin \/ ReadBlock

Next == MainStep \/ request_shutdown \/ shutdownReac \/ FrameArrives \/ CaptureStep \/ CallbackStep

Spec == Init /\ [][Next]_vars

\* Every thread is scheduled, and poll returns within a second; neither the network nor
\* JACK is obliged to do anything but to finish a cycle that has begun.
FairSpec ==
  /\ Spec
  /\ WF_vars(MainStep) /\ WF_vars(CaptureStep) /\ WF_vars(ReadBegin \/ ReadBlock)

-----------------------------------------------------------------------------
Resources == {"capture", "client", "buffer", "ring"}
Cells == Int \X Nat

TypeOK ==
  /\ phase \in {"capture", "client", "ports", "buffer", "ring", "activate", "thread", "sleep",
                "reset", "clear", "clearHave", "loop", "join", "leave", "undefined"}
  /\ live \subseteq Resources /\ active \in BOOLEAN /\ isRunning \in BOOLEAN /\ raced \in BOOLEAN
  /\ rx \in [0 .. RxFrames - 1 -> [kind : {"none", "reac", "other"}, seq : Int, packet : Packets]]
  /\ kernel \in 0 .. RxFrames - 1 /\ rxring_offset \in 0 .. RxFrames - 1
  /\ wire \in [frames : Nat, last : Packets] /\ kept \in Nat /\ handled \in Nat
  /\ cap \in {"none", "test", "wait", "format", "note", "load", "store", "last", "room", "write",
              "copy", "gone"}
  /\ currentNumberOfChannels \in {0} \cup Widths /\ dataSize \in Nat
  /\ currentNumberOfChannels /= 0 => dataSize = PacketCells(currentNumberOfChannels)
  /\ lastCounter \in 0 .. CounterMod - 1 /\ lostPackages \in Nat /\ haveLastCounter \in BOOLEAN
  /\ loss \in Nat /\ noted \in [count : Nat, last : Packets]
  /\ buf \in [0 .. RingSize - 1 -> Cells] /\ queue \in Seq(Cells)
  /\ read_ptr \in 0 .. RingSize - 1 /\ write_ptr \in 0 .. RingSize - 1
  /\ wload \in [ptr : 0 .. RingSize - 1, done : Nat, cells : Nat] /\ wload.done <= wload.cells
  /\ cb \in {"idle", "checked", "copy"} /\ want \in 0 .. BufferFrames * MaxChannels
  /\ rload \in [ptr : 0 .. RingSize - 1, cells : Nat, got : Seq(Cells)]
  /\ Len(rload.got) <= rload.cells
  /\ cycle \in [ports : Nat, cells : Seq(Cells)]

\* The byte ring holds exactly the cells written and not yet taken, in order, as long as
\* no operation overlapped its reset; an operation that merely began before the reset, as
\* process does when it has compared the data amount, does no harm
\* (write_payload_to_ring, process, reacjack.c:788).
RingIsQueue ==
  ~ raced /\ phase /= "reset" =>
    queue = [k \in 1 .. Used |-> buf[(read_ptr + k - 1) % RingSize]]

\* The cells of s are those of whole frames, one channel after the other.
WholeFrames(s) ==
  \A k \in DOMAIN s :
    /\ s[k][1] >= 0
    /\ s[k][2] % currentNumberOfChannels = (k - 1) % currentNumberOfChannels
    /\ (k - 1) % currentNumberOfChannels /= 0 => s[k][1] = s[k - 1][1]

\* Every cycle that plays plays whole frames, each channel on its own port: a block starts
\* at the beginning of a frame of a packet and no packet is cut, although the size of the
\* ring is no multiple of a frame and packets and cycles differ in size; unless an operation
\* overlapped the reset (reacjack.c:177-190, 615-651).
WholeFramesPlayed == ~ raced => WholeFrames(cycle.cells)

\* The capture thread deals with every frame the kernel put into the packet ring exactly
\* once and in the order of arrival, whatever becomes of the frame, and no slot is given
\* back before its payload is copied (process_rx, process_rx_release, copyData).
FramesHandledOnce ==
  /\ kept - handled \in 0 .. RxFrames
  /\ \A i \in 0 .. RxFrames - 1 :
       LET slot == rx[(rxring_offset + i) % RxFrames]
       IN IF i < kept - handled THEN slot.seq = handled + i ELSE slot = NoFrame

\* Every cycle leaves every port of the known format written, with audio or with silence:
\* on these JACK never plays the buffer of an earlier cycle.  The ports above the format are
\* written only until it is known (process, silence_outputs).
FormatPortsWritten == cycle.ports >= currentNumberOfChannels \/ cycle.ports = MaxChannels

\* Packets counted and packets reported lost are together never more than the device sent
\* up to the last one counted, and two for each packet that came again and half the range of
\* the counter for each jump of it, for there the code reports losses that did not happen;
\* across the wrap of the counter and wherever main's clears fall between the thread's
\* loads and stores (note_packet_counter, reacjack.c:161-174, 789-797).
LossBounded == lostPackages + noted.count <= noted.last.due

\* The capture thread never uses a closed socket or a freed ring, and process never runs
\* without the client, the ring and the process buffer, at any point of the start, of the
\* teardown and of the cleanup after a failed step (reacjack.c:715-785, 853-860).
NoUseAfterRelease ==
  /\ cap \notin {"none", "test", "gone"} => {"capture", "ring"} \subseteq live
  /\ active \/ cb /= "idle" => {"client", "ring", "buffer"} \subseteq live
  /\ Returned => live = {}

-----------------------------------------------------------------------------
(* Why it works: how far main, the kernel, the capture thread and process have come. *)

\* What a cleanup or the teardown may have left to do.
Cleanups ==
  {Teardown, <<"ring", "client", "capture", "buffer">>, <<"client", "capture", "buffer">>,
   <<"capture", "buffer">>, <<"buffer">>, << >>, <<"capture">>, <<"client", "capture">>,
   <<"buffer", "client", "capture">>, <<"ring", "buffer", "client", "capture">>}

\* main has set up what the phase says, and has still to release what it has; the thread
\* runs between its creation and its join, process while the client is active.
MainStages ==
  /\ phase /= "leave" =>
       /\ todo = << >>
       /\ "capture" \in live <=> phase /= "capture"
       /\ "client" \in live <=> phase \notin {"capture", "client"}
       /\ "buffer" \in live <=> phase \notin {"capture", "client", "ports", "buffer"}
       /\ "ring" \in live <=> phase \notin {"capture", "client", "ports", "buffer", "ring"}
       /\ active => phase \notin {"capture", "client", "ports", "buffer", "ring", "activate"}
  /\ phase = "leave" =>
       /\ todo \in Cleanups /\ live \subseteq {todo[i] : i \in DOMAIN todo}
       /\ active => todo = Teardown /\ live = Resources
  /\ cap \notin {"none", "gone"} => phase \in {"sleep", "reset", "clear", "clearHave", "loop", "join"}
  /\ cb /= "idle" => active

\* The frame in the i-th slot from the one the capture thread looks at.
Pending(i) == rx[(rxring_offset + i) % RxFrames]

Sent(packet) == packet.n >= 0 /\ packet.width \in Widths

\* Packet g came after packet f.
Follows(f, g) ==
  /\ g.n >= f.n /\ g.due - f.due >= g.n - f.n
  /\ g.n = f.n => g.base = f.base /\ g.due >= f.due + 2
  /\ g.base /= f.base => g.due >= f.due + Half

\* The capture thread has noted the counter of the packet it works on.
Counted == cap \in {"load", "store", "last", "room", "write", "copy"}

\* The kernel is ahead of the thread by the frames not dealt with; these hold the device's
\* packets in the order they came, all later than those counted, and the thread works on
\* the first of them.
SlotStages ==
  /\ kernel = (rxring_offset + (kept - handled)) % RxFrames
  /\ wire.last = NoPacket \/ Sent(wire.last)
  /\ cap = "format" \/ cap = "note" \/ Counted =>
       /\ kept > handled /\ Pending(0).kind = "reac"
       /\ dataSize = PacketCells(Pending(0).packet.width)
  /\ \A i \in 0 .. kept - handled - 1 : Pending(i).kind = "reac" =>
       /\ Sent(Pending(i).packet)
       /\ Pending(i).packet = wire.last \/ Follows(Pending(i).packet, wire.last)
       /\ IF i = 0 /\ Counted THEN Pending(i).packet = noted.last
          ELSE Follows(noted.last, Pending(i).packet)
       /\ \A j \in 0 .. i - 1 :
            Pending(j).kind = "reac" => Follows(Pending(j).packet, Pending(i).packet)

\* The counter note_packet_counter keeps is that of the last packet counted, and the sum it
\* is about to store is no larger than the losses due.
CounterStages ==
  /\ noted.last = wire.last \/ Follows(noted.last, wire.last)
  /\ haveLastCounter /\ cap \notin {"load", "store", "last"} =>
       lastCounter = CounterOf(noted.last)
  /\ cap = "load" => lostPackages + loss + noted.count <= noted.last.due
  /\ cap = "store" => loss + noted.count <= noted.last.due

\* Between the first packet's size and its channels nothing is played; before, nothing is
\* there; between cycles process asks for nothing.
FormatStages ==
  /\ dataSize = 0 => currentNumberOfChannels = 0
  /\ cap = "format" <=> dataSize /= 0 /\ currentNumberOfChannels = 0
  /\ cap = "note" \/ Counted => currentNumberOfChannels /= 0
  /\ cb = "idle" => want = 0
  /\ currentNumberOfChannels = 0 =>
       cycle = [ports |-> MaxChannels, cells |-> << >>] /\ cb = "idle" /\ queue = << >>

\* The cells process has and those in the ring, with as many of a frame at the end as the
\* thread has written of it.
FramesAligned ==
  LET s == rload.got \o queue
      c == currentNumberOfChannels
  IN /\ WholeFrames(s) /\ Len(s) % c = wload.done % c
     /\ wload.done > 0 /\ s /= << >> => s[Len(s)][1] = Pending(0).packet.n
     /\ want % c = 0 /\ rload.cells % c = 0

\* As long as no operation overlapped the reset: the thread writes behind the cells in the
\* ring and has room for all of them, process reads cells that are there, and those it has
\* with those in the ring are whole frames, but for the packet being written: its second
\* block goes to the beginning of the ring.
RingStages ==
  /\ cap /= "copy" => wload = NoWrite
  /\ cb /= "copy" => rload = NoRead
  /\ ~ raced =>
       /\ phase = "reset" => queue = << >> /\ read_ptr = 0 /\ ~ RingInUse
       /\ cap = "write" => dataSize < RingSize /\ (phase /= "reset" => RoomForPacket)
       /\ cap = "copy" =>
            /\ wload.ptr = write_ptr /\ wload.cells = dataSize
            /\ wload.cells - wload.done <= RingSize - 1 - Used
            /\ wload.done > 0 => write_ptr = 0
       /\ cb = "checked" => want <= Used \/ read_ptr = 0
       /\ cb = "copy" => rload.ptr = read_ptr /\ rload.cells - Len(rload.got) <= Used
       /\ currentNumberOfChannels /= 0 => FramesAligned

\* What holds of the bridge's data path in every state: the ring is a queue, no port of the
\* format keeps an old block, and the losses reported are bounded.
BridgeInvariant ==
  /\ TypeOK /\ RingIsQueue /\ FormatPortsWritten /\ LossBounded
  /\ MainStages /\ SlotStages /\ CounterStages /\ FormatStages /\ RingStages

\* Once isRunning is cleared, main returns, whatever was going on; if the capture thread
\* could not be created, it joins a thread that never was (reacjack.c:781-785, 853-854).
ShutdownCompletes == ~ isRunning ~> (Returned \/ (phase = "undefined" /\ cap = "none"))
=============================================================================
