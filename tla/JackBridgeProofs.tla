-------------------------- MODULE JackBridgeProofs --------------------------
(***************************************************************************)
(* Proofs about JackBridge for every set of formats, packet size, size of  *)
(* the packet ring and of the byte ring, counter range and cycle length.   *)
(***************************************************************************)
EXTENDS JackBridge, TLAPS

-----------------------------------------------------------------------------
(* Remainders. *)

LEMMA Remainder ==
  ASSUME NEW x \in Int, NEW m \in Nat \ {0}
  PROVE  x % m \in 0 .. m - 1 /\ x \div m \in Int /\ x = m * (x \div m) + (x % m)
OBVIOUS

LEMMA RemainderUnique ==
  ASSUME NEW x \in Int, NEW m \in Nat \ {0}, NEW q \in Int, NEW r \in 0 .. m - 1, x = m * q + r
  PROVE  x % m = r
<1> DEFINE p == x \div m
           s == x % m
<1>1. p \in Int /\ s \in 0 .. m - 1 /\ x = m * p + s
  BY Remainder
<1> HIDE DEF p, s
<1>2. m * (p - q) = r - s
  <2>1. m * (p - q) = m * p - m * q
    BY <1>1
  <2> QED BY <1>1, <2>1
<1>3. ASSUME p > q PROVE FALSE
  <2>1. m * (p - q) >= m
    BY <1>1, <1>3
  <2> QED BY <1>1, <1>2, <2>1
<1>4. ASSUME p < q PROVE FALSE
  <2>1. m * (p - q) <= 0 - m
    BY <1>1, <1>4
  <2> QED BY <1>1, <1>2, <2>1
<1>5. p = q
  BY <1>1, <1>3, <1>4
<1>6. s = r
  BY <1>1, <1>5
<1> QED BY <1>6 DEF s

LEMMA SmallRemainder ==
  ASSUME NEW m \in Nat \ {0}, NEW x \in 0 .. m - 1
  PROVE  x % m = x
<1>1. x \in Int /\ x = m * 0 + x /\ 0 \in Int
  OBVIOUS
<1> QED BY <1>1, RemainderUnique

\* A remainder may be taken before a sum.
LEMMA RemainderOfSum ==
  ASSUME NEW a \in Int, NEW c \in Int, NEW m \in Nat \ {0}
  PROVE  ((a % m) + c) % m = (a + c) % m
<1> DEFINE p == a \div m
           r == a % m
           x == r + c
           k == x \div m
           g == x % m
           y == a + c
<1>1. p \in Int /\ r \in Int /\ a = m * p + r
  BY Remainder
<1> HIDE DEF p, r
<1>2. x \in Int /\ y \in Int
  BY <1>1
<1>x. x = r + c /\ y = a + c
  OBVIOUS
<1> HIDE DEF x, y
<1>3. k \in Int /\ g \in 0 .. m - 1 /\ x = m * k + g
  BY <1>2, Remainder
<1> HIDE DEF k, g
<1>4. y = m * (p + k) + g
  <2>1. m * (p + k) = m * p + m * k
    BY <1>1, <1>3
  <2> QED BY <1>1, <1>3, <1>x, <2>1
<1>5. p + k \in Int
  BY <1>1, <1>3
<1>6. y % m = g
  BY <1>2, <1>3, <1>4, <1>5, RemainderUnique
<1> QED BY <1>6 DEF y, g, x, r

\* Whole rounds do not count.
LEMMA RemainderOfRound ==
  ASSUME NEW a \in Int, NEW m \in Nat \ {0}
  PROVE  (a + m) % m = a % m
<1> DEFINE p == a \div m
           r == a % m
           y == a + m
<1>1. p \in Int /\ r \in 0 .. m - 1 /\ a = m * p + r
  BY Remainder
<1> HIDE DEF p, r
<1>2. y = m * (p + 1) + r /\ p + 1 \in Int /\ y \in Int
  BY <1>1
<1> HIDE DEF y
<1>3. y % m = r
  BY <1>1, <1>2, RemainderUnique
<1> QED BY <1>3 DEF y, r

\* Numbers less than a round apart have different remainders.
LEMMA RemaindersDiffer ==
  ASSUME NEW p \in Int, NEW q \in Int, NEW m \in Nat \ {0}, p < q, q < p + m
  PROVE  p % m /= q % m
<1> DEFINE a == p \div m
           b == q \div m
<1>1. /\ p % m \in Int /\ a \in Int /\ p = m * a + (p % m)
      /\ q % m \in Int /\ b \in Int /\ q = m * b + (q % m)
  BY Remainder
<1> HIDE DEF a, b
<1> SUFFICES ASSUME p % m = q % m PROVE FALSE
  OBVIOUS
<1>2. q - p = m * (b - a)
  <2>1. m * (b - a) = m * b - m * a
    BY <1>1
  <2> QED BY <1>1, <2>1
<1>3. ASSUME b <= a PROVE FALSE
  <2>1. m * (b - a) <= 0
    BY <1>1, <1>3
  <2> QED BY <1>2, <2>1
<1>4. ASSUME b > a PROVE FALSE
  <2>1. m * (b - a) >= m
    BY <1>1, <1>4
  <2> QED BY <1>2, <2>1
<1> QED BY <1>1, <1>3, <1>4

-----------------------------------------------------------------------------
(* The parts of the invariant, by what they are about. *)

LEMMA Constants ==
  /\ Widths \subseteq Nat \ {0} /\ \A w \in Widths : w \in 1 .. MaxChannels
  /\ MaxChannels \in Nat \ {0} /\ RingSize \in Nat \ {0} /\ RxFrames \in Nat \ {0}
  /\ FramesPerPacket \in Nat \ {0} /\ CounterMod \in Nat \ {0} /\ CounterMod >= 4
  /\ FirstCounter \in 0 .. CounterMod - 1 /\ BufferFrames \in Nat /\ CycleFrames \subseteq Nat
  /\ Jumps \subseteq 0 .. CounterMod - 1
BY JackBridgeAssumption

\* A frame, as the kernel stores it.
Frames == [kind : {"none", "reac", "other"}, seq : Int, packet : Packets]

MainType ==
  /\ phase \in {"capture", "client", "ports", "buffer", "ring", "activate", "thread", "sleep",
                "reset", "clear", "clearHave", "loop", "join", "leave", "undefined"}
  /\ live \subseteq Resources /\ active \in BOOLEAN

FlagType == isRunning \in BOOLEAN /\ raced \in BOOLEAN

PacketsType ==
  /\ rx \in [0 .. RxFrames - 1 -> Frames]
  /\ kernel \in 0 .. RxFrames - 1 /\ rxring_offset \in 0 .. RxFrames - 1
  /\ wire \in [frames : Nat, last : Packets] /\ kept \in Nat /\ handled \in Nat

CaptureType ==
  /\ cap \in {"none", "test", "wait", "format", "note", "load", "store", "last", "room", "write",
              "copy", "gone"}
  /\ wload \in [ptr : 0 .. RingSize - 1, done : Nat, cells : Nat] /\ wload.done <= wload.cells

FormatType ==
  /\ currentNumberOfChannels \in {0} \cup Widths /\ dataSize \in Nat
  /\ currentNumberOfChannels /= 0 => dataSize = PacketCells(currentNumberOfChannels)

CounterType ==
  /\ lastCounter \in 0 .. CounterMod - 1 /\ lostPackages \in Nat /\ haveLastCounter \in BOOLEAN
  /\ loss \in Nat /\ noted \in [count : Nat, last : Packets]

RingType ==
  /\ buf \in [0 .. RingSize - 1 -> Cells] /\ queue \in Seq(Cells)
  /\ read_ptr \in 0 .. RingSize - 1 /\ write_ptr \in 0 .. RingSize - 1

CallbackType ==
  /\ cb \in {"idle", "checked", "copy"} /\ want \in 0 .. BufferFrames * MaxChannels
  /\ rload \in [ptr : 0 .. RingSize - 1, cells : Nat, got : Seq(Cells)]
  /\ Len(rload.got) <= rload.cells
  /\ cycle \in [ports : Nat, cells : Seq(Cells)]

LEMMA TypeParts ==
  TypeOK <=> /\ MainType /\ FlagType /\ PacketsType /\ CaptureType /\ FormatType /\ CounterType
             /\ RingType /\ CallbackType
BY DEF TypeOK, MainType, FlagType, PacketsType, CaptureType, FormatType, CounterType, RingType,
   CallbackType, Frames

Slots == FramesHandledOnce /\ SlotStages
Books == CounterStages /\ LossBounded
Formats == FormatStages /\ FormatPortsWritten
Rings == RingIsQueue /\ RingStages /\ WholeFramesPlayed

\* The inductive invariant; by StagesSuffice it contains all invariants of the bridge.
Inductive == TypeOK /\ MainStages /\ Slots /\ Books /\ Formats /\ Rings

-----------------------------------------------------------------------------
(* Start, quit and teardown. *)

LEMMA CleanupFacts ==
  ASSUME NEW t \in Cleanups
  PROVE  /\ t = << >> => {t[i] : i \in DOMAIN t} = {}
         /\ t /= << >> => /\ Tail(t) \in Cleanups
                          /\ {t[i] : i \in DOMAIN t} \ {Head(t)} \subseteq {Tail(t)[i] : i \in DOMAIN Tail(t)}
         /\ t = Teardown => t /= << >> /\ Head(t) = "deactivate"
<1>1. t = << >> => {t[i] : i \in DOMAIN t} = {}
  OBVIOUS
<1>2. t = Teardown => t /= << >> /\ Head(t) = "deactivate"
  BY DEF Teardown
<1>3. ASSUME t /= << >> PROVE Tail(t) \in Cleanups
  <2>1. /\ Tail(Teardown) = <<"ring", "client", "capture", "buffer">>
        /\ Tail(<<"ring", "client", "capture", "buffer">>) = <<"client", "capture", "buffer">>
        /\ Tail(<<"client", "capture", "buffer">>) = <<"capture", "buffer">>
        /\ Tail(<<"capture", "buffer">>) = <<"buffer">>
        /\ Tail(<<"buffer">>) = << >> /\ Tail(<<"capture">>) = << >>
    BY DEF Teardown
  <2>2. /\ Tail(<<"client", "capture">>) = <<"capture">>
        /\ Tail(<<"buffer", "client", "capture">>) = <<"client", "capture">>
        /\ Tail(<<"ring", "buffer", "client", "capture">>) = <<"buffer", "client", "capture">>
    OBVIOUS
  <2> QED BY <1>3, <2>1, <2>2, Zenon DEF Cleanups
<1>4. ASSUME t /= << >>
      PROVE  {t[i] : i \in DOMAIN t} \ {Head(t)} \subseteq {Tail(t)[i] : i \in DOMAIN Tail(t)}
  <2>1. t \in Seq(Resources \cup {"deactivate"})
    <3> DEFINE S == Resources \cup {"deactivate"}
    <3>0. "deactivate" \in S /\ "ring" \in S /\ "client" \in S /\ "capture" \in S /\ "buffer" \in S
      BY DEF Resources
    <3> HIDE DEF S
    <3>1. /\ Teardown \in Seq(S) /\ <<"ring", "client", "capture", "buffer">> \in Seq(S)
          /\ <<"client", "capture", "buffer">> \in Seq(S)
      BY <3>0 DEF Teardown
    <3>2. /\ <<"capture", "buffer">> \in Seq(S) /\ <<"buffer">> \in Seq(S) /\ << >> \in Seq(S)
          /\ <<"capture">> \in Seq(S) /\ <<"client", "capture">> \in Seq(S)
      BY <3>0
    <3>3. /\ <<"buffer", "client", "capture">> \in Seq(S)
          /\ <<"ring", "buffer", "client", "capture">> \in Seq(S)
      BY <3>0
    <3>4. t \in Seq(S)
      BY <3>1, <3>2, <3>3, Zenon DEF Cleanups
    <3> QED BY <3>4 DEF S
  <2>2. ASSUME NEW i \in DOMAIN t, t[i] /= Head(t)
        PROVE  \E j \in DOMAIN Tail(t) : t[i] = Tail(t)[j]
    <3>1. i \in 2 .. Len(t)
      BY <1>4, <2>1, <2>2
    <3>2. i - 1 \in DOMAIN Tail(t) /\ Tail(t)[i - 1] = t[i]
      BY <1>4, <2>1, <3>1
    <3> QED BY <3>2
  <2> QED BY <2>2
<1> QED BY <1>1, <1>2, <1>3, <1>4

LEMMA StagesSuffice ==
  ASSUME TypeOK, MainStages
  PROVE  NoUseAfterRelease
<1>1. CASE phase /= "leave"
  BY <1>1 DEF TypeOK, MainStages, NoUseAfterRelease, Returned
<1>2. CASE phase = "leave"
  <2>1. todo = << >> => live = {} /\ ~ active
    BY <1>2, CleanupFacts DEF MainStages
  <2> QED BY <1>2, <2>1 DEF TypeOK, MainStages, NoUseAfterRelease, Returned, Resources
<1> QED BY <1>1, <1>2

\* Leaving with t to do, which names all that is live.
LEMMA LeaveStage ==
  ASSUME phase' = "leave", cap' \in {"none", "gone"}, cb' /= "idle" => active',
         NEW t \in Cleanups, todo' = t, live' \subseteq {t[i] : i \in DOMAIN t},
         active' => t = Teardown /\ live' = Resources
  PROVE  MainStages'
BY DEF MainStages

\* The cleanups main begins with, and what they name.
LEMMA CleanupNames ==
  /\ Teardown \in Cleanups /\ {Teardown[i] : i \in DOMAIN Teardown} = Resources \cup {"deactivate"}
  /\ LET t == <<"capture">> IN t \in Cleanups /\ {t[i] : i \in DOMAIN t} = {"capture"}
  /\ LET t == <<"client", "capture">>
     IN t \in Cleanups /\ {t[i] : i \in DOMAIN t} = {"client", "capture"}
  /\ LET t == <<"buffer", "client", "capture">>
     IN t \in Cleanups /\ {t[i] : i \in DOMAIN t} = {"buffer", "client", "capture"}
  /\ LET t == <<"ring", "buffer", "client", "capture">>
     IN t \in Cleanups /\ {t[i] : i \in DOMAIN t} = Resources
BY DEF Cleanups, Teardown, Resources

\* A step of the start either goes on or leaves.
LEMMA SetUpControl ==
  ASSUME MainType, MainStages, NEW step, NEW resource, NEW next, NEW cleanup \in Cleanups,
         SetUp(step, resource, next, cleanup),
         \/ step = "client" /\ resource = {"client"} /\ next = "ports" /\ cleanup = <<"capture">>
         \/ step = "ports" /\ resource = {} /\ next = "buffer" /\ cleanup = <<"client", "capture">>
         \/ step = "buffer" /\ resource = {"buffer"} /\ next = "ring" /\ cleanup = <<"client", "capture">>
         \/ step = "ring" /\ resource = {"ring"} /\ next = "activate"
            /\ cleanup = <<"buffer", "client", "capture">>
  PROVE  MainType' /\ MainStages'
<1>0. phase = step /\ UNCHANGED <<active, cap, cb>>
  BY DEF SetUp, Rest, callback
<1>1. CASE phase' = next /\ live' = live \cup resource /\ UNCHANGED todo
  BY <1>0, <1>1 DEF MainType, MainStages, Resources
<1>2. CASE phase' = "leave" /\ todo' = cleanup /\ UNCHANGED live
  <2>1. ~ active /\ cap \in {"none", "gone"} /\ cb = "idle"
    BY <1>0 DEF MainStages, MainType
  <2>2. live \subseteq {cleanup[i] : i \in DOMAIN cleanup}
    BY <1>0, CleanupNames DEF MainStages, MainType, Resources
  <2> QED BY <1>0, <1>2, <2>1, <2>2, LeaveStage DEF MainType
<1> QED BY <1>1, <1>2 DEF SetUp

LEMMA MainControl ==
  ASSUME MainType, CaptureType, CallbackType, MainStages, MainStep \/ request_shutdown \/ shutdownReac
  PROVE  MainType' /\ MainStages'
<1>1. CASE capture_open
  <2>0. UNCHANGED <<active, cap, cb>> /\ ~ active /\ cap \in {"none", "gone"} /\ cb = "idle"
    BY <1>1 DEF capture_open, Rest, callback, MainStages
  <2>1. CASE live' = {"capture"} /\ phase' = "client" /\ UNCHANGED todo
    BY <1>1, <2>0, <2>1 DEF capture_open, MainType, MainStages, Resources
  <2>2. CASE phase' = "leave" /\ todo' = <<"capture">>
    BY <1>1, <2>0, <2>2, CleanupNames, LeaveStage DEF capture_open, MainType, Resources
  <2> QED BY <1>1, <2>1, <2>2 DEF capture_open
<1>2. CASE jack_client_open \/ RegisterPorts \/ AllocateProcessBuffer \/ CreateRing
  BY <1>2, SetUpControl, CleanupNames
     DEF jack_client_open, RegisterPorts, AllocateProcessBuffer, CreateRing
<1>3. CASE Activate
  <2>0. UNCHANGED <<live, cap, cb>> /\ ~ active /\ cap \in {"none", "gone"} /\ cb = "idle" /\ live \subseteq Resources
    BY <1>3 DEF Activate, Rest, callback, MainStages, MainType
  <2>1. CASE phase' = "thread" /\ active' = TRUE /\ UNCHANGED todo
    BY <1>3, <2>0, <2>1 DEF Activate, MainType, MainStages
  <2>2. CASE phase' = "leave" /\ todo' = <<"ring", "buffer", "client", "capture">> /\ UNCHANGED active
    BY <1>3, <2>0, <2>2, CleanupNames, LeaveStage DEF MainType
  <2> QED BY <1>3, <2>1, <2>2 DEF Activate
<1>4. CASE CreateThread \/ ResetRead \/ ResetWrite \/ ClearLost \/ ClearHave \/ LeaveLoop
  BY <1>4 DEF CreateThread, ResetRead, ResetWrite, ClearLost, ClearHave, LeaveLoop, Rest, callback,
     MainType, MainStages
<1>5. CASE JoinThread
  <2>0. /\ UNCHANGED <<live, active, cap, cb>> /\ phase = "join" /\ live = Resources
        /\ cb /= "idle" => active
    BY <1>5 DEF JoinThread, Rest, callback, MainStages, MainType, Resources
  <2>1. CASE cap = "gone" /\ phase' = "leave" /\ todo' = Teardown
    BY <2>0, <2>1, CleanupNames, LeaveStage DEF MainType
  <2>2. CASE cap = "none" /\ phase' = "undefined" /\ UNCHANGED todo
    BY <2>0, <2>2 DEF MainType, MainStages, Resources
  <2> QED BY <1>5, <2>1, <2>2 DEF JoinThread
<1>6. CASE Release
  <2>0. /\ phase = "leave" /\ phase' = "leave" /\ todo /= << >> /\ UNCHANGED <<cap, cb>>
        /\ Head(todo) \in {"deactivate", "client"} => cb = "idle"
        /\ live' = live \ {Head(todo)} /\ todo' = Tail(todo)
        /\ active' = (active /\ Head(todo) \notin {"deactivate", "client"})
    BY <1>6 DEF Release, Rest, callback
  <2>1. /\ todo \in Cleanups /\ live \subseteq {todo[i] : i \in DOMAIN todo}
        /\ active => todo = Teardown /\ cap \in {"none", "gone"} /\ (cb /= "idle" => active)
    BY <2>0 DEF MainStages, MainType
  <2>2. ~ active'
    BY <2>0, <2>1, CleanupFacts
  <2>3. live' \subseteq {todo'[i] : i \in DOMAIN todo'} /\ todo' \in Cleanups
    BY <2>0, <2>1, CleanupFacts
  <2>4. cb' = "idle" /\ cap' \in {"none", "gone"}
    BY <2>0, <2>1, CleanupFacts DEF MainStages, MainType, CaptureType
  <2> QED BY <2>0, <2>2, <2>3, <2>4, LeaveStage DEF MainType
<1>7. CASE request_shutdown
  BY <1>7 DEF request_shutdown, main, callback, MainType, MainStages
<1>8. CASE shutdownReac
  BY <1>8 DEF shutdownReac, callback, MainType, MainStages
<1> QED BY <1>1, <1>2, <1>3, <1>4, <1>5, <1>6, <1>7, <1>8 DEF MainStep

LEMMA ThreadControl ==
  ASSUME MainType, MainStages, UNCHANGED <<main, cb>>, cap \notin {"none", "gone"}
  PROVE  MainType' /\ MainStages'
BY DEF MainType, MainStages, main

LEMMA CallbackControl ==
  ASSUME MainType, MainStages, UNCHANGED <<main, cap>>, cb' /= "idle" => active
  PROVE  MainType' /\ MainStages'
BY DEF MainType, MainStages, main

-----------------------------------------------------------------------------
(* Steps that leave the data alone. *)

Loose == {"none", "test", "wait", "gone"}

LEMMA QuietKeeps ==
  ASSUME Slots, Books, Formats, Rings,
         UNCHANGED <<packets, wload, format, counters, ring, callback, raced>>,
         cap' = cap \/ (cap \in Loose /\ cap' \in Loose),
         phase' = "reset" <=> phase = "reset"
  PROVE  Slots' /\ Books' /\ Formats' /\ Rings'
<1> USE DEF packets, format, counters, ring, callback, Loose
<1>1. Slots'
  BY DEF Slots, FramesHandledOnce, SlotStages, Pending, Counted
<1>2. Books'
  BY DEF Books, CounterStages, LossBounded
<1>3. Formats'
  BY DEF Formats, FormatStages, FormatPortsWritten, Counted
<1>4. Rings'
  <2>1. RingIsQueue'
    BY DEF Rings, RingIsQueue, Used
  <2>2. FramesAligned' <=> FramesAligned
    BY DEF FramesAligned, WholeFrames, Pending
  <2>3. RingStages'
    BY <2>2 DEF Rings, RingStages, RingInUse, RoomForPacket, Used
  <2>4. WholeFramesPlayed'
    BY DEF Rings, WholeFramesPlayed, WholeFrames
  <2> QED BY <2>1, <2>3, <2>4 DEF Rings
<1> QED BY <1>1, <1>2, <1>3, <1>4

\* main's steps but those on the ring and on the counters.
LEMMA MainQuietInductive ==
  ASSUME Inductive,
         \/ capture_open \/ jack_client_open \/ RegisterPorts \/ AllocateProcessBuffer \/ CreateRing
         \/ Activate \/ CreateThread \/ LeaveLoop \/ JoinThread \/ Release
         \/ request_shutdown \/ shutdownReac
  PROVE  Inductive'
<1>0. /\ MainType /\ FlagType /\ PacketsType /\ CaptureType /\ FormatType /\ CounterType
      /\ RingType /\ CallbackType
  BY TypeParts DEF Inductive
<1>1. /\ UNCHANGED <<packets, wload, format, counters, ring, callback, raced>>
      /\ cap' = cap \/ (cap \in Loose /\ cap' \in Loose)
      /\ isRunning' \in BOOLEAN /\ (phase' = "reset" <=> phase = "reset")
  <2>1. CASE CreateThread
    <3>1. cap \in Loose
      BY <1>0, <2>1 DEF CreateThread, Inductive, MainStages, CaptureType, Loose
    <3> QED BY <1>0, <2>1, <3>1 DEF CreateThread, FlagType, Loose
  <2>2. CASE \/ jack_client_open \/ RegisterPorts \/ AllocateProcessBuffer \/ CreateRing
    BY <1>0, <2>2 DEF jack_client_open, RegisterPorts, AllocateProcessBuffer, CreateRing, SetUp, Rest,
       FlagType
  <2>3. CASE \/ capture_open \/ Activate \/ LeaveLoop \/ JoinThread \/ Release
    BY <1>0, <2>3 DEF capture_open, Activate, LeaveLoop, JoinThread, Release, Rest, FlagType
  <2>4. CASE request_shutdown \/ shutdownReac
    BY <1>0, <2>4 DEF request_shutdown, shutdownReac, main, FlagType
  <2> QED BY <2>1, <2>2, <2>3, <2>4
<1>2. MainType' /\ MainStages'
  BY <1>0, MainControl DEF Inductive, MainStep
<1>3. /\ FlagType' /\ PacketsType' /\ CaptureType' /\ FormatType' /\ CounterType'
      /\ RingType' /\ CallbackType'
  <2>1. FlagType' /\ CaptureType'
    BY <1>0, <1>1 DEF FlagType, CaptureType, Loose
  <2>2. PacketsType' /\ FormatType' /\ CounterType'
    BY <1>0, <1>1 DEF PacketsType, FormatType, CounterType, packets, format, counters
  <2>3. RingType' /\ CallbackType'
    BY <1>0, <1>1 DEF RingType, CallbackType, ring, callback
  <2> QED BY <2>1, <2>2, <2>3
<1>4. TypeOK'
  BY <1>2, <1>3 DEF TypeOK, MainType, FlagType, PacketsType, CaptureType, FormatType, CounterType,
     RingType, CallbackType, Frames
<1>5. Slots' /\ Books' /\ Formats' /\ Rings'
  BY <1>1, QuietKeeps DEF Inductive
<1> QED BY <1>2, <1>4, <1>5 DEF Inductive

\* The capture thread between two frames.
LEMMA ThreadQuietInductive ==
  ASSUME Inductive, TestRunning \/ WaitEnds \/ PollFails
  PROVE  Inductive'
<1>0. /\ MainType /\ FlagType /\ PacketsType /\ CaptureType /\ FormatType /\ CounterType
      /\ RingType /\ CallbackType
  BY TypeParts DEF Inductive
<1>1. /\ UNCHANGED <<packets, wload, format, counters, ring, callback, raced>>
      /\ UNCHANGED <<main, isRunning>>
      /\ cap \in {"test", "wait"} /\ cap' \in {"test", "wait", "gone"}
  BY DEF TestRunning, WaitEnds, PollFails
<1>2. MainType' /\ MainStages'
  BY <1>0, <1>1, ThreadControl DEF Inductive, callback
<1>3. /\ FlagType' /\ PacketsType' /\ CaptureType' /\ FormatType' /\ CounterType'
      /\ RingType' /\ CallbackType'
  <2>1. FlagType' /\ CaptureType'
    BY <1>0, <1>1 DEF FlagType, CaptureType
  <2>2. PacketsType' /\ FormatType' /\ CounterType'
    BY <1>0, <1>1 DEF PacketsType, FormatType, CounterType, packets, format, counters
  <2>3. RingType' /\ CallbackType'
    BY <1>0, <1>1 DEF RingType, CallbackType, ring, callback
  <2> QED BY <2>1, <2>2, <2>3
<1>4. TypeOK'
  BY <1>2, <1>3 DEF TypeOK, MainType, FlagType, PacketsType, CaptureType, FormatType, CounterType,
     RingType, CallbackType, Frames
<1>5. Slots' /\ Books' /\ Formats' /\ Rings'
  <2>1. phase' = phase
    BY <1>1 DEF main
  <2> QED BY <1>1, <2>1, QuietKeeps DEF Inductive, Loose
<1> QED BY <1>2, <1>4, <1>5 DEF Inductive

-----------------------------------------------------------------------------
(* The packet ring. *)

LEMMA SlotPlace ==
  ASSUME PacketsType, NEW i \in Nat
  PROVE  (rxring_offset + i) % RxFrames \in 0 .. RxFrames - 1
<1>1. rxring_offset + i \in Int /\ RxFrames \in Nat \ {0}
  BY Constants DEF PacketsType
<1> QED BY <1>1, Remainder

LEMMA SlotsDiffer ==
  ASSUME PacketsType, NEW i \in 0 .. RxFrames - 1, NEW j \in 0 .. RxFrames - 1, i /= j
  PROVE  (rxring_offset + i) % RxFrames /= (rxring_offset + j) % RxFrames
<1> DEFINE p == rxring_offset + i
           q == rxring_offset + j
<1>1. /\ p \in Int /\ q \in Int /\ RxFrames \in Nat \ {0} /\ p /= q
      /\ p < q + RxFrames /\ q < p + RxFrames
  BY Constants DEF PacketsType
<1> HIDE DEF p, q
<1>2. CASE p < q
  BY <1>1, <1>2, RemaindersDiffer DEF p, q
<1>3. CASE q < p
  <2>1. q % RxFrames /= p % RxFrames
    BY <1>1, <1>3, RemaindersDiffer
  <2> QED BY <2>1 DEF p, q
<1> QED BY <1>1, <1>2, <1>3

\* The slot the thread looks at is the first pending one, and holds a frame if one is pending.
LEMMA FirstPending ==
  ASSUME PacketsType, FramesHandledOnce
  PROVE  /\ Pending(0) = rx[rxring_offset]
         /\ rx[rxring_offset] /= NoFrame <=> kept > handled
<1>1. (rxring_offset + 0) % RxFrames = rxring_offset
  <2>1. rxring_offset \in 0 .. RxFrames - 1 /\ RxFrames \in Nat \ {0} /\ rxring_offset + 0 = rxring_offset
    BY Constants DEF PacketsType
  <2> QED BY <2>1, SmallRemainder
<1>2. kept \in Nat /\ handled \in Nat /\ 0 \in 0 .. RxFrames - 1 /\ kept - handled >= 0
  BY Constants DEF PacketsType, FramesHandledOnce
<1>3. IF 0 < kept - handled THEN rx[rxring_offset].seq = handled + 0 ELSE rx[rxring_offset] = NoFrame
  BY <1>1, <1>2 DEF FramesHandledOnce
<1>4. NoFrame.seq = -1
  BY DEF NoFrame
<1> QED BY <1>1, <1>2, <1>3, <1>4 DEF Pending

\* After a release the slots move up by one.
LEMMA Released ==
  ASSUME PacketsType, process_rx_release, NEW i \in 0 .. RxFrames - 1
  PROVE  rx'[(rxring_offset' + i) % RxFrames] = IF i = RxFrames - 1 THEN NoFrame ELSE Pending(i + 1)
<1> DEFINE o == rxring_offset
           R == RxFrames
<1>0. o \in 0 .. R - 1 /\ R \in Nat \ {0} /\ o \in Int /\ o + 1 \in Int /\ i \in Int
      /\ DOMAIN rx = 0 .. R - 1 /\ i \in 0 .. R - 1
  BY Constants DEF PacketsType
<1>1. rxring_offset' = (o + 1) % R /\ rx' = [rx EXCEPT ![o] = NoFrame]
  BY DEF process_rx_release
<1>2. (rxring_offset' + i) % R = ((o + 1) + i) % R
  BY <1>0, <1>1, RemainderOfSum
<1> HIDE DEF o, R
<1>3. (o + 1) + i = o + (i + 1)
  BY <1>0
<1>4. CASE i = R - 1
  <2>1. (o + 1) + i = o + R
    BY <1>0, <1>4
  <2>2. (o + R) % R = o
    BY <1>0, RemainderOfRound, SmallRemainder
  <2>3. (rxring_offset' + i) % R = o
    BY <1>2, <2>1, <2>2
  <2> QED BY <1>0, <1>1, <1>4, <2>3 DEF R
<1>5. CASE i /= R - 1
  <2>1. i + 1 \in 0 .. R - 1 /\ 0 \in 0 .. R - 1 /\ i + 1 /= 0 /\ i + 1 \in Nat
    BY <1>0, <1>5
  <2>2. (o + (i + 1)) % R /= (o + 0) % R
    BY <2>1, SlotsDiffer DEF o, R
  <2>3. (o + 0) % R = o
    BY <1>0, o + 0 = o, SmallRemainder
  <2>4. (o + (i + 1)) % R \in 0 .. R - 1
    BY <2>1, SlotPlace DEF o, R
  <2>5. rx'[(o + (i + 1)) % R] = rx[(o + (i + 1)) % R]
    BY <1>0, <1>1, <2>2, <2>3, <2>4
  <2> QED BY <1>2, <1>3, <1>5, <2>5 DEF Pending, o, R
<1> QED BY <1>4, <1>5

-----------------------------------------------------------------------------
(* The order in which packets come. *)

LEMMA HalfFacts == Half \in Nat /\ Half >= 2 /\ Half <= CounterMod - 1
<1>1. CounterMod \in Nat /\ CounterMod >= 4
  BY Constants
<1> QED BY <1>1 DEF Half

LEMMA PacketFields ==
  ASSUME NEW f \in Packets
  PROVE  f.n \in Int /\ f.due \in Nat /\ f.width \in Nat /\ f.base \in 0 .. CounterMod - 1 /\ f.base \in Int
BY Constants DEF Packets

LEMMA NoPacketIs == NoPacket \in Packets /\ NoPacket.n = -1 /\ NoPacket.due = 0 /\ NoFrame \in Frames
<1>1. NoPacket \in Packets /\ NoPacket.n = -1 /\ NoPacket.due = 0
  BY Constants DEF NoPacket, Packets
<1> QED BY <1>1 DEF NoFrame, Frames

LEMMA FollowsTransitive ==
  ASSUME NEW f \in Packets, NEW g \in Packets, NEW h \in Packets, Follows(f, g), Follows(g, h)
  PROVE  Follows(f, h)
<1>1. /\ f.n \in Int /\ g.n \in Int /\ h.n \in Int /\ f.due \in Nat /\ g.due \in Nat /\ h.due \in Nat
      /\ Half \in Nat
  BY PacketFields, HalfFacts
<1>2. /\ g.n >= f.n /\ g.due - f.due >= g.n - f.n /\ h.n >= g.n /\ h.due - g.due >= h.n - g.n
      /\ g.n = f.n => g.base = f.base /\ g.due >= f.due + 2
      /\ h.n = g.n => h.base = g.base /\ h.due >= g.due + 2
      /\ g.base /= f.base => g.due >= f.due + Half
      /\ h.base /= g.base => h.due >= g.due + Half
  BY DEF Follows
<1>3. h.n >= f.n /\ h.due - f.due >= h.n - f.n
  BY <1>1, <1>2
<1>4. h.n = f.n => h.base = f.base /\ h.due >= f.due + 2
  BY <1>1, <1>2
<1>5. h.base /= f.base => h.due >= f.due + Half
  BY <1>1, <1>2
<1> QED BY <1>3, <1>4, <1>5 DEF Follows

\* What came before the last packet on the wire, or is it, came before a later one.
LEMMA StillBefore ==
  ASSUME NEW p \in Packets, NEW a \in Packets, NEW b \in Packets, p = a \/ Follows(p, a)
  PROVE  /\ Follows(a, b) => Follows(p, b)
         /\ a = b \/ Follows(a, b) => p = b \/ Follows(p, b)
BY FollowsTransitive, Zenon

\* A packet that arrives was sent after the last one.
LEMMA ArrivingFollows ==
  ASSUME wire.last \in Packets, wire.last = NoPacket \/ Sent(wire.last), NEW p \in Arriving
  PROVE  p \in Packets /\ Follows(wire.last, p) /\ Sent(p)
<1> DEFINE l == wire.last
<1>0. /\ l.n \in Int /\ l.due \in Nat /\ l.width \in Nat /\ l.base \in 0 .. CounterMod - 1
      /\ Half \in Nat /\ Half >= 2 /\ Widths \subseteq Nat
      /\ l.n >= -1 /\ (l.n >= 0 => l.width \in Widths) /\ Jumps \subseteq 0 .. CounterMod - 1
  BY PacketFields, HalfFacts, Constants, NoPacketIs DEF Sent
<1>1. ASSUME p \in [n : {l.n + 1}, width : Widths, base : {l.base}, due : {l.due + 1}]
      PROVE  p \in Packets /\ Follows(l, p) /\ Sent(p)
  <2>1. p.n = l.n + 1 /\ p.width \in Widths /\ p.base = l.base /\ p.due = l.due + 1
    BY <1>1
  <2>2. l.n + 1 \in Int /\ l.due + 1 \in Nat
    BY <1>0
  <2>3. p \in Packets
    BY <1>0, <1>1, <2>2 DEF Packets
  <2> HIDE DEF l
  <2> QED BY <1>0, <2>1, <2>3 DEF Follows, Sent
<1>2. ASSUME l.n >= 0, p = [l EXCEPT !.due = l.due + 2]
      PROVE  p \in Packets /\ Follows(l, p) /\ Sent(p)
  <2>1. p.n = l.n /\ p.width = l.width /\ p.base = l.base /\ p.due = l.due + 2 /\ p \in Packets
    BY <1>0, <1>2 DEF Packets
  <2> HIDE DEF l
  <2> QED BY <1>0, <1>2, <2>1 DEF Follows, Sent
<1>3. ASSUME p \in [n : {l.n + 1}, width : Widths, base : Jumps \ {l.base}, due : {l.due + Half}]
      PROVE  p \in Packets /\ Follows(l, p) /\ Sent(p)
  <2>1. p.n = l.n + 1 /\ p.width \in Widths /\ p.base \in 0 .. CounterMod - 1 /\ p.due = l.due + Half
    BY <1>0, <1>3
  <2>2. l.n + 1 \in Int /\ l.due + Half \in Nat
    BY <1>0
  <2>3. p \in Packets
    BY <1>0, <1>3, <2>2 DEF Packets
  <2> HIDE DEF l
  <2> QED BY <1>0, <2>1, <2>3 DEF Follows, Sent
<1>4. \/ p \in [n : {l.n + 1}, width : Widths, base : {l.base}, due : {l.due + 1}]
      \/ l.n >= 0 /\ p = [l EXCEPT !.due = l.due + 2]
      \/ p \in [n : {l.n + 1}, width : Widths, base : Jumps \ {l.base}, due : {l.due + Half}]
  BY Zenon DEF Arriving
<1> QED BY <1>1, <1>2, <1>3, <1>4, Zenon

-----------------------------------------------------------------------------
(* The packet ring, used. *)

LEMMA PendingFrame ==
  ASSUME PacketsType, NEW i \in Nat
  PROVE  Pending(i) \in Frames /\ Pending(i).packet \in Packets
<1>1. Pending(i) \in Frames
  BY SlotPlace DEF Pending, PacketsType
<1> QED BY <1>1 DEF Frames

LEMMA DoneSlots ==
  ASSUME PacketsType, Slots, Done, kept > handled, noted' = noted
  PROVE  PacketsType' /\ Slots'
<1> DEFINE o == rxring_offset
           R == RxFrames
           d == kept - handled
<1>0. /\ o \in 0 .. R - 1 /\ R \in Nat \ {0} /\ kept \in Nat /\ handled \in Nat /\ d \in 1 .. R
      /\ rx' = [rx EXCEPT ![o] = NoFrame] /\ rxring_offset' = (o + 1) % R
      /\ handled' = handled + 1 /\ cap' = "test" /\ UNCHANGED <<kernel, wire, kept>>
      /\ kept' - handled' = d - 1 /\ process_rx_release
  BY Constants DEF PacketsType, Slots, FramesHandledOnce, Done, process_rx_release
<1>1. PacketsType'
  <2>1. rxring_offset' \in 0 .. RxFrames - 1
    BY <1>0, o + 1 \in Int, Remainder
  <2>2. NoFrame \in Frames
    BY NoPacketIs
  <2>3. rx \in [0 .. RxFrames - 1 -> Frames]
    BY DEF PacketsType
  <2>4. rx' \in [0 .. RxFrames - 1 -> Frames]
    BY <1>0, <2>2, <2>3
  <2>5. handled' \in Nat
    BY <1>0
  <2> QED BY <1>0, <2>1, <2>4, <2>5, Zenon DEF PacketsType
<1>2. \A i \in 0 .. R - 1 :
        rx'[(rxring_offset' + i) % R] = IF i = R - 1 THEN NoFrame ELSE Pending(i + 1)
  BY <1>0, Released
<1>3. FramesHandledOnce'
  <2>1. ASSUME NEW i \in 0 .. R - 1
        PROVE  IF i < d - 1 THEN rx'[(rxring_offset' + i) % R].seq = handled' + i
               ELSE rx'[(rxring_offset' + i) % R] = NoFrame
    <3>1. CASE i = R - 1
      <4>1. ~ (i < d - 1)
        BY <1>0, <3>1
      <4> QED BY <1>2, <3>1, <4>1
    <3>2. CASE i /= R - 1
      <4>1. i + 1 \in 0 .. R - 1 /\ (i < d - 1 <=> i + 1 < d) /\ handled' + i = handled + (i + 1)
        BY <1>0, <3>2
      <4>2. IF i + 1 < d THEN Pending(i + 1).seq = handled + (i + 1) ELSE Pending(i + 1) = NoFrame
        BY <4>1 DEF Slots, FramesHandledOnce, Pending
      <4>3. rx'[(rxring_offset' + i) % R] = Pending(i + 1)
        BY <1>2, <3>2
      <4> QED BY <4>1, <4>2, <4>3
    <3> QED BY <3>1, <3>2
  <2>2. kept' - handled' \in 0 .. R
    BY <1>0
  <2> QED BY <1>0, <2>1, <2>2 DEF FramesHandledOnce
<1>4. kernel' = (rxring_offset' + (kept' - handled')) % R
  <2>1. (rxring_offset' + (d - 1)) % R = ((o + 1) + (d - 1)) % R
    BY <1>0, o + 1 \in Int, d - 1 \in Int, RemainderOfSum
  <2>2. (o + 1) + (d - 1) = o + d
    BY <1>0
  <2> QED BY <1>0, <2>1, <2>2 DEF Slots, SlotStages
<1>5. ASSUME NEW i \in 0 .. d - 2
      PROVE  Pending(i)' = Pending(i + 1)
  <2>1. i \in 0 .. R - 1 /\ i /= R - 1
    BY <1>0
  <2> QED BY <1>2, <2>1 DEF Pending
<1>6. ASSUME NEW i \in 0 .. d - 2, Pending(i + 1).kind = "reac"
      PROVE  /\ Sent(Pending(i + 1).packet)
             /\ Pending(i + 1).packet = wire.last \/ Follows(Pending(i + 1).packet, wire.last)
             /\ Follows(noted.last, Pending(i + 1).packet)
             /\ \A j \in 0 .. i - 1 : Pending(j + 1).kind = "reac"
                                        => Follows(Pending(j + 1).packet, Pending(i + 1).packet)
  <2>0. i + 1 \in 0 .. d - 1 /\ i + 1 /= 0 /\ \A j \in 0 .. i - 1 : j + 1 \in 0 .. (i + 1) - 1
    BY <1>0
  <2> DEFINE h == i + 1
  <2>1. h \in 0 .. d - 1 /\ h /= 0 /\ Pending(h).kind = "reac"
    BY <1>6, <2>0
  <2> HIDE DEF h
  <2>2. /\ Sent(Pending(h).packet)
        /\ Pending(h).packet = wire.last \/ Follows(Pending(h).packet, wire.last)
        /\ Follows(noted.last, Pending(h).packet)
        /\ \A j \in 0 .. h - 1 : Pending(j).kind = "reac" => Follows(Pending(j).packet, Pending(h).packet)
    BY <2>1 DEF Slots, SlotStages
  <2> QED BY <2>0, <2>2 DEF h
<1>7. SlotStages'
  <2>1. \A i \in 0 .. kept' - handled' - 1 : Pending(i)'.kind = "reac" =>
          /\ Sent(Pending(i)'.packet)
          /\ Pending(i)'.packet = wire'.last \/ Follows(Pending(i)'.packet, wire'.last)
          /\ Follows(noted'.last, Pending(i)'.packet)
          /\ \A j \in 0 .. i - 1 : Pending(j)'.kind = "reac"
                                     => Follows(Pending(j)'.packet, Pending(i)'.packet)
    <3>2. ASSUME NEW i \in 0 .. d - 2, NEW j \in 0 .. i - 1 PROVE Pending(j)' = Pending(j + 1)
      <4>1. j \in 0 .. d - 2
        BY <1>0
      <4> QED BY <1>5, <4>1
    <3>3. kept' - handled' - 1 = d - 2 /\ wire' = wire
      BY <1>0
    <3> HIDE DEF d
    <3> QED BY <1>5, <1>6, <3>2, <3>3
  <2>2. wire'.last = NoPacket \/ Sent(wire'.last)
    BY <1>0 DEF Slots, SlotStages
  <2>3. cap' = "test" /\ ~ Counted'
    BY <1>0 DEF Counted
  <2> QED BY <1>4, <2>1, <2>2, <2>3 DEF SlotStages, Sent, Follows
<1> QED BY <1>1, <1>3, <1>7 DEF Slots

\* The kernel fills the slot after the last pending frame.
LEMMA ArriveSlots ==
  ASSUME PacketsType, Slots, noted.last \in Packets, noted.last = wire.last \/ Follows(noted.last, wire.last),
         NEW f \in Frames,
         rx[kernel] = NoFrame, rx' = [rx EXCEPT ![kernel] = f], kernel' = (kernel + 1) % RxFrames,
         kept' = kept + 1, f.seq = kept, wire' \in [frames : Nat, last : Packets],
         wire'.last = wire.last \/ Follows(wire.last, wire'.last),
         wire'.last = NoPacket \/ Sent(wire'.last),
         f.kind = "reac" => Sent(f.packet) /\ f.packet = wire'.last /\ Follows(wire.last, f.packet),
         UNCHANGED <<rxring_offset, handled, cap, dataSize, noted>>
  PROVE  PacketsType' /\ Slots'
<1> DEFINE o == rxring_offset
           R == RxFrames
           d == kept - handled
<1>0. /\ o \in 0 .. R - 1 /\ R \in Nat \ {0} /\ kept \in Nat /\ handled \in Nat /\ d \in 0 .. R
      /\ kernel = (o + d) % R /\ kernel \in 0 .. R - 1 /\ rxring_offset' = o /\ handled' = handled
      /\ wire.last \in Packets /\ wire'.last \in Packets /\ rx \in [0 .. R - 1 -> Frames]
      /\ kept' = kept + 1
  BY Constants DEF PacketsType, Slots, FramesHandledOnce, SlotStages
<1>1. d \in 0 .. R - 1
  <2> SUFFICES ASSUME d = R PROVE FALSE
    BY <1>0
  <2>1. (o + d) % R = o
    <3>1. o \in Int
      BY <1>0
    <3>2. (o + R) % R = o % R /\ o % R = o
      BY <1>0, <3>1, RemainderOfRound, SmallRemainder
    <3> QED BY <3>2
  <2>2. rx[o] /= NoFrame
    <3>1. kept > handled
      BY <1>0
    <3> QED BY <3>1, FirstPending DEF Slots
  <2> QED BY <1>0, <2>1, <2>2
<1>2. PacketsType'
  <2>1. rx' \in [0 .. R - 1 -> Frames]
    BY <1>0
  <2>2. kernel' \in 0 .. R - 1
    <3>1. kernel + 1 \in Int
      BY <1>0
    <3> QED BY <1>0, <3>1, Remainder
  <2>3. kept' \in Nat
    BY <1>0
  <2> QED BY <1>0, <2>1, <2>2, <2>3, Zenon DEF PacketsType
<1>3. ASSUME NEW i \in 0 .. R - 1
      PROVE  Pending(i)' = IF i = d THEN f ELSE Pending(i)
  <2>1. Pending(i)' = rx'[(o + i) % R]
    BY <1>0 DEF Pending
  <2>2. (o + i) % R \in 0 .. R - 1 /\ i \in Nat
    <3>1. i \in Nat
      BY <1>0
    <3> QED BY <1>0, <3>1, SlotPlace, ZenonT(40)
  <2>3. CASE i = d
    BY <1>0, <2>1, <2>2, <2>3
  <2>4. CASE i /= d
    <3>1. (o + i) % R /= (o + d) % R
      BY <1>1, <2>4, SlotsDiffer
    <3> QED BY <1>0, <2>1, <2>2, <2>4, <3>1 DEF Pending
  <2> QED BY <2>3, <2>4
<1>4. kept' - handled' = d + 1 /\ kept' - handled' \in 0 .. R /\ handled + d = kept
  BY <1>0, <1>1
<1> HIDE DEF d
<1>5. FramesHandledOnce'
  <2>1. ASSUME NEW i \in 0 .. R - 1
        PROVE  IF i < d + 1 THEN Pending(i)'.seq = handled' + i ELSE Pending(i)' = NoFrame
    <3>1. IF i < d THEN Pending(i).seq = handled + i ELSE Pending(i) = NoFrame
      BY DEF Slots, FramesHandledOnce, Pending, d
    <3>2. CASE i = d
      <4>1. Pending(i)' = f
        BY <1>3, <3>2
      <4>2. i < d + 1 /\ handled' + i = kept
        BY <1>0, <1>1, <1>4, <3>2
      <4> QED BY <4>1, <4>2
    <3>3. CASE i /= d
      <4>1. Pending(i)' = Pending(i)
        BY <1>3, <3>3
      <4>2. i < d + 1 <=> i < d
        BY <1>1, <3>3
      <4> QED BY <1>0, <3>1, <4>1, <4>2
    <3> QED BY <3>2, <3>3
  <2> QED BY <1>4, <2>1 DEF FramesHandledOnce, Pending
<1>6. kernel' = (rxring_offset' + (kept' - handled')) % R
  <2>1. o + d \in Int /\ 1 \in Int /\ (o + d) + 1 = o + (d + 1)
    BY <1>0, <1>1
  <2>2. (((o + d) % R) + 1) % R = ((o + d) + 1) % R
    BY <1>0, <2>1, RemainderOfSum
  <2> QED BY <1>0, <1>4, <2>1, <2>2
<1>7. cap = "format" \/ cap = "note" \/ Counted =>
        /\ kept' > handled' /\ Pending(0)'.kind = "reac"
        /\ dataSize' = PacketCells(Pending(0)'.packet.width)
  <2> SUFFICES ASSUME cap = "format" \/ cap = "note" \/ Counted
               PROVE  /\ kept' > handled' /\ Pending(0)'.kind = "reac"
                      /\ dataSize' = PacketCells(Pending(0)'.packet.width)
    OBVIOUS
  <2>1. kept > handled /\ Pending(0).kind = "reac" /\ dataSize = PacketCells(Pending(0).packet.width)
    BY DEF Slots, SlotStages
  <2>2. 0 \in 0 .. R - 1 /\ 0 /= d /\ kept' > handled'
    BY <1>0, <1>4, <2>1
  <2>3. Pending(0)' = Pending(0)
    BY <1>3, <2>2
  <2> QED BY <2>1, <2>2, <2>3
<1>8. ASSUME NEW i \in 0 .. d, Pending(i)'.kind = "reac"
      PROVE  /\ Sent(Pending(i)'.packet)
             /\ Pending(i)'.packet = wire'.last \/ Follows(Pending(i)'.packet, wire'.last)
             /\ IF i = 0 /\ Counted THEN Pending(i)'.packet = noted.last
                ELSE Follows(noted.last, Pending(i)'.packet)
             /\ \A j \in 0 .. i - 1 :
                  Pending(j)'.kind = "reac" => Follows(Pending(j)'.packet, Pending(i)'.packet)
  <2>z. R \in Nat /\ d \in Int /\ d <= R - 1 /\ i \in Nat
    BY <1>0, <1>1
  <2> HIDE DEF R
  <2>0. i \in 0 .. R - 1 /\ (i /= d => i \in 0 .. d - 1)
    BY <2>z
  <2>1. ASSUME NEW j \in 0 .. i - 1
        PROVE  j \in 0 .. d - 1 /\ Pending(j)' = Pending(j) /\ Pending(j).packet \in Packets
    <3>1. j \in 0 .. d - 1 /\ j \in 0 .. R - 1 /\ j /= d /\ j \in Nat
      BY <2>z
    <3> QED BY <1>3, <3>1, PendingFrame
  <2>2. \A k \in 0 .. d - 1 : Pending(k).kind = "reac" =>
          /\ Sent(Pending(k).packet)
          /\ Pending(k).packet = wire.last \/ Follows(Pending(k).packet, wire.last)
          /\ IF k = 0 /\ Counted THEN Pending(k).packet = noted.last
             ELSE Follows(noted.last, Pending(k).packet)
          /\ \A j \in 0 .. k - 1 : Pending(j).kind = "reac" => Follows(Pending(j).packet, Pending(k).packet)
    BY DEF Slots, SlotStages, d
  <2>3. CASE i = d
    <3>1. /\ Pending(i)' = f /\ Sent(f.packet) /\ f.packet = wire'.last /\ Follows(wire.last, f.packet)
          /\ f.packet \in Packets
      BY <1>0, <1>3, <1>8, <2>0, <2>3
    <3>3. ~ (i = 0 /\ Counted)
      <4>1. Counted => kept > handled
        BY DEF Slots, SlotStages
      <4> QED BY <1>0, <2>3, <4>1 DEF d
    <3>5. Follows(noted.last, f.packet)
      BY <1>0, <3>1, StillBefore
    <3>4. ASSUME NEW j \in 0 .. i - 1, Pending(j)'.kind = "reac" PROVE Follows(Pending(j)'.packet, f.packet)
      <4>1. j \in 0 .. d - 1 /\ Pending(j)' = Pending(j) /\ Pending(j).packet \in Packets
        BY <2>1
      <4>2. Pending(j).packet = wire.last \/ Follows(Pending(j).packet, wire.last)
        BY <2>2, <3>4, <4>1
      <4> QED BY <1>0, <3>1, <4>1, <4>2, StillBefore
    <3> QED BY <3>1, <3>3, <3>4, <3>5
  <2>4. CASE i /= d
    <3>1. Pending(i)' = Pending(i) /\ i \in 0 .. d - 1 /\ Pending(i).packet \in Packets
      BY <1>3, <2>0, <2>z, <2>4, PendingFrame
    <3>2. /\ Sent(Pending(i).packet)
          /\ Pending(i).packet = wire.last \/ Follows(Pending(i).packet, wire.last)
          /\ IF i = 0 /\ Counted THEN Pending(i).packet = noted.last
             ELSE Follows(noted.last, Pending(i).packet)
          /\ \A j \in 0 .. i - 1 : Pending(j).kind = "reac" => Follows(Pending(j).packet, Pending(i).packet)
      BY <1>8, <2>2, <3>1
    <3>3. Pending(i).packet = wire'.last \/ Follows(Pending(i).packet, wire'.last)
      BY <1>0, <3>1, <3>2, StillBefore
    <3>4. \A j \in 0 .. i - 1 : Pending(j)' = Pending(j)
      BY <2>1
    <3> QED BY <3>1, <3>2, <3>3, <3>4
  <2> QED BY <2>3, <2>4
<1>9. SlotStages'
  <2>1. kept' - handled' - 1 = d
    BY <1>1, <1>4
  <2>2. Counted' = Counted
    BY DEF Counted
  <2> QED BY <1>6, <1>7, <1>8, <2>1, <2>2 DEF SlotStages, Sent, Follows
<1> QED BY <1>2, <1>5, <1>9 DEF Slots

-----------------------------------------------------------------------------
(* What a step leaves alone it keeps. *)

LEMMA BooksKept ==
  ASSUME Books, UNCHANGED <<counters, wire>>,
         cap' = cap \/ (cap \notin {"load", "store", "last"} /\ cap' \notin {"load", "store", "last"})
  PROVE  Books'
BY DEF Books, CounterStages, LossBounded, counters

LEMMA FormatsKept ==
  ASSUME Formats, UNCHANGED <<format, cb, want, cycle, queue>>,
         cap' = cap \/ (cap /= "format" /\ cap' \in {"test", "wait"})
  PROVE  Formats'
BY DEF Formats, FormatStages, FormatPortsWritten, format, Counted

LEMMA AlignedKept ==
  ASSUME UNCHANGED <<queue, currentNumberOfChannels, wload, want, rload>>,
         wload.done > 0 => Pending(0)' = Pending(0)
  PROVE  FramesAligned' <=> FramesAligned
BY DEF FramesAligned, WholeFrames

LEMMA RingsKept ==
  ASSUME Rings, UNCHANGED <<raced, phase, ring, currentNumberOfChannels, wload, callback>>,
         \/ cap' = cap /\ dataSize' = dataSize
         \/ cap /= "copy" /\ cap' \notin {"write", "copy"},
         cap = "copy" => Pending(0)' = Pending(0)
  PROVE  Rings'
<1> USE DEF ring, callback
<1>1. RingIsQueue'
  BY DEF Rings, RingIsQueue, Used
<1>2. FramesAligned' <=> FramesAligned
  <2>1. cap /= "copy" => wload.done = 0
    BY DEF Rings, RingStages, NoWrite
  <2> QED BY <2>1, AlignedKept
<1>3. RingStages'
  BY <1>2 DEF Rings, RingStages, RingInUse, RoomForPacket, Used
<1>4. WholeFramesPlayed'
  BY DEF Rings, WholeFramesPlayed, WholeFrames
<1> QED BY <1>1, <1>3, <1>4 DEF Rings

LEMMA Assembled ==
  ASSUME MainType', FlagType', PacketsType', CaptureType', FormatType', CounterType', RingType',
         CallbackType', MainStages', Slots', Books', Formats', Rings'
  PROVE  Inductive'
<1>1. TypeOK'
  BY DEF TypeOK, MainType, FlagType, PacketsType, CaptureType, FormatType, CounterType, RingType,
     CallbackType, Frames
<1> QED BY <1>1 DEF Inductive

LEMMA TypesKept ==
  /\ FlagType /\ UNCHANGED <<isRunning, raced>> => FlagType'
  /\ FormatType /\ UNCHANGED format => FormatType'
  /\ CounterType /\ UNCHANGED counters => CounterType'
  /\ RingType /\ UNCHANGED ring => RingType'
  /\ CallbackType /\ UNCHANGED callback => CallbackType'
  /\ PacketsType /\ UNCHANGED packets => PacketsType'
<1>1. FormatType /\ UNCHANGED format => FormatType'
  BY DEF FormatType, format
<1>2. CounterType /\ UNCHANGED counters => CounterType'
  BY DEF CounterType, counters
<1>3. RingType /\ UNCHANGED ring => RingType'
  BY DEF RingType, ring
<1>4. CallbackType /\ UNCHANGED callback => CallbackType'
  BY DEF CallbackType, callback
<1>5. PacketsType /\ UNCHANGED packets => PacketsType'
  BY DEF PacketsType, packets
<1> QED BY <1>1, <1>2, <1>3, <1>4, <1>5 DEF FlagType

LEMMA Parts ==
  Inductive => /\ MainType /\ FlagType /\ PacketsType /\ CaptureType /\ FormatType /\ CounterType
               /\ RingType /\ CallbackType
               /\ MainStages /\ Slots /\ Books /\ Formats /\ Rings
BY TypeParts DEF Inductive

LEMMA FrameArrivesInductive ==
  ASSUME Inductive, FrameArrives
  PROVE  Inductive'
<1>0. /\ MainType /\ FlagType /\ PacketsType /\ CaptureType /\ FormatType /\ CounterType
      /\ RingType /\ CallbackType
      /\ MainStages /\ Slots /\ Books /\ Formats /\ Rings
  BY Parts
<1>1. UNCHANGED <<main, isRunning, rxring_offset, handled, cap, wload, format, counters, ring, callback,
                  raced>>
  BY DEF FrameArrives
<1>3. /\ wire.frames \in Nat /\ wire.last \in Packets /\ kept \in Nat
      /\ noted.last \in Packets
  BY <1>0 DEF PacketsType, CounterType
<1>2. PICK f \in Frames :
        /\ StoreFrame(f) /\ f.seq = kept
        /\ wire' \in [frames : Nat, last : Packets]
        /\ wire'.last = wire.last \/ Follows(wire.last, wire'.last)
        /\ wire'.last = NoPacket \/ Sent(wire'.last)
        /\ f.kind = "reac" => Sent(f.packet) /\ f.packet = wire'.last /\ Follows(wire.last, f.packet)
  <2>1. ASSUME NEW p \in Arriving,
               wire' = [frames |-> wire.frames + 1, last |-> p],
               StoreFrame([kind |-> "reac", seq |-> kept, packet |-> p])
        PROVE  \E f \in Frames :
                 /\ StoreFrame(f) /\ f.seq = kept
                 /\ wire' \in [frames : Nat, last : Packets]
                 /\ wire'.last = wire.last \/ Follows(wire.last, wire'.last)
                 /\ wire'.last = NoPacket \/ Sent(wire'.last)
                 /\ f.kind = "reac" => Sent(f.packet) /\ f.packet = wire'.last /\ Follows(wire.last, f.packet)
    <3>1. p \in Packets /\ Follows(wire.last, p) /\ Sent(p)
      BY <1>0, <1>3, ArrivingFollows DEF Slots, SlotStages
    <3> DEFINE f == [kind |-> "reac", seq |-> kept, packet |-> p]
    <3>2. f \in Frames /\ f.seq = kept /\ f.packet = p
      BY <1>3, <3>1 DEF Frames
    <3>3. wire.frames + 1 \in Nat
      BY <1>3
    <3>4. wire' \in [frames : Nat, last : Packets] /\ wire'.last = p
      BY <2>1, <3>1, <3>3
    <3>5. StoreFrame(f)
      BY <2>1
    <3> HIDE DEF f
    <3> QED BY <3>1, <3>2, <3>4, <3>5
  <2>2. ASSUME wire' = [wire EXCEPT !.frames = wire.frames + 1],
               StoreFrame([kind |-> "other", seq |-> kept, packet |-> NoPacket])
        PROVE  \E f \in Frames :
                 /\ StoreFrame(f) /\ f.seq = kept
                 /\ wire' \in [frames : Nat, last : Packets]
                 /\ wire'.last = wire.last \/ Follows(wire.last, wire'.last)
                 /\ wire'.last = NoPacket \/ Sent(wire'.last)
                 /\ f.kind = "reac" => Sent(f.packet) /\ f.packet = wire'.last /\ Follows(wire.last, f.packet)
    <3> DEFINE f == [kind |-> "other", seq |-> kept, packet |-> NoPacket]
    <3>1. f \in Frames /\ f.seq = kept /\ f.kind = "other"
      BY <1>3, NoPacketIs DEF Frames
    <3>2. wire.frames + 1 \in Nat
      BY <1>3
    <3>3. wire' \in [frames : Nat, last : Packets] /\ wire'.last = wire.last
      BY <1>0, <2>2, <3>2 DEF PacketsType
    <3>4. wire.last = NoPacket \/ Sent(wire.last)
      BY <1>0 DEF Slots, SlotStages
    <3>5. StoreFrame(f)
      BY <2>2
    <3> HIDE DEF f
    <3> QED BY <3>1, <3>3, <3>4, <3>5
  <2> QED BY <2>1, <2>2 DEF FrameArrives
<1>4. wire'.last \in Packets
  BY <1>2
<1>5. noted.last = wire.last \/ Follows(noted.last, wire.last)
  BY <1>0 DEF Books, CounterStages
<1>p. UNCHANGED <<rxring_offset, handled, cap, dataSize, noted>>
  BY <1>1 DEF format, counters
<1>6. PacketsType' /\ Slots' /\ (cap = "copy" => Pending(0)' = Pending(0))
  <2>2. CASE /\ rx[kernel] = NoFrame
             /\ rx' = [rx EXCEPT ![kernel] = f]
             /\ kernel' = (kernel + 1) % RxFrames /\ kept' = kept + 1
    <3>1. PacketsType' /\ Slots'
      BY <1>0, <1>2, <1>3, <1>5, <1>p, <2>2, ArriveSlots
    <3>2. ASSUME cap = "copy" PROVE Pending(0)' = Pending(0)
      <4>1. kept > handled
        BY <1>0, <3>2 DEF Slots, SlotStages, Counted
      <4>2. rx[rxring_offset] /= NoFrame /\ Pending(0) = rx[rxring_offset]
        BY <1>0, <4>1, FirstPending DEF Slots
      <4>3. rxring_offset /= kernel
        BY <2>2, <4>2
      <4>4. (rxring_offset + 0) % RxFrames = rxring_offset
        <5>1. rxring_offset \in 0 .. RxFrames - 1 /\ RxFrames \in Nat \ {0} /\ rxring_offset + 0 = rxring_offset
          BY <1>0, Constants DEF PacketsType
        <5> QED BY <5>1, SmallRemainder
      <4>5. Pending(0)' = rx'[rxring_offset]
        BY <1>p, <4>4 DEF Pending
      <4>6. rxring_offset \in 0 .. RxFrames - 1 /\ rx \in [0 .. RxFrames - 1 -> Frames]
        BY <1>0 DEF PacketsType
      <4> QED BY <2>2, <4>2, <4>3, <4>5, <4>6
    <3> QED BY <3>1, <3>2
  <2>3. CASE UNCHANGED <<rx, kernel, kept>>
    <3>1. PacketsType'
      BY <1>0, <1>1, <1>2, <2>3 DEF PacketsType
    <3>2. FramesHandledOnce'
      BY <1>0, <1>1, <2>3 DEF Slots, FramesHandledOnce
    <3>3. \A i : Pending(i)' = Pending(i)
      BY <1>p, <2>3 DEF Pending
    <3>4. ASSUME NEW i \in 0 .. kept - handled - 1, Pending(i).kind = "reac"
          PROVE  Pending(i).packet = wire'.last \/ Follows(Pending(i).packet, wire'.last)
      <4>1. Pending(i).packet = wire.last \/ Follows(Pending(i).packet, wire.last)
        BY <1>0, <3>4 DEF Slots, SlotStages
      <4>2. i \in Nat
        OBVIOUS
      <4>3. Pending(i).packet \in Packets
        BY <1>0, <4>2, PendingFrame
      <4> QED BY <1>2, <1>3, <1>4, <4>1, <4>3, StillBefore
    <3>5. SlotStages'
      <4>1. Counted' = Counted
        BY <1>p DEF Counted
      <4> HIDE DEF Counted
      <4>2. kernel' = (rxring_offset' + (kept' - handled')) % RxFrames
        BY <1>0, <1>p, <2>3 DEF Slots, SlotStages
      <4>3. cap' = "format" \/ cap' = "note" \/ Counted' =>
              /\ kept' > handled' /\ Pending(0)'.kind = "reac"
              /\ dataSize' = PacketCells(Pending(0)'.packet.width)
        BY <1>0, <1>p, <2>3, <3>3, <4>1 DEF Slots, SlotStages
      <4>4. \A i \in 0 .. kept - handled - 1 : Pending(i).kind = "reac" =>
              /\ Sent(Pending(i).packet)
              /\ IF i = 0 /\ Counted THEN Pending(i).packet = noted.last
                 ELSE Follows(noted.last, Pending(i).packet)
              /\ \A j \in 0 .. i - 1 :
                   Pending(j).kind = "reac" => Follows(Pending(j).packet, Pending(i).packet)
        BY <1>0 DEF Slots, SlotStages
      <4> QED BY <1>2, <1>p, <2>3, <3>3, <3>4, <4>1, <4>2, <4>3, <4>4 DEF SlotStages, Sent, Follows
    <3> QED BY <3>1, <3>2, <3>3, <3>5 DEF Slots
  <2> QED BY <1>2, <2>2, <2>3 DEF StoreFrame
<1>7. Books'
  <2>1. noted.last = wire'.last \/ Follows(noted.last, wire'.last)
    BY <1>2, <1>3, <1>4, <1>5, StillBefore
  <2> QED BY <1>0, <1>1, <2>1 DEF Books, CounterStages, LossBounded, counters, CounterOf, Follows
<1>8. Formats' /\ Rings'
  <2>1. Formats'
    BY <1>0, <1>1, FormatsKept DEF callback, ring, format
  <2>2. Rings'
    BY <1>0, <1>1, <1>6, RingsKept DEF main, format
  <2> QED BY <2>1, <2>2
<1>9. MainType' /\ MainStages'
  BY <1>0, <1>1 DEF MainType, MainStages, main, callback
<1>10. FlagType' /\ CaptureType' /\ FormatType' /\ CounterType' /\ RingType' /\ CallbackType'
  BY <1>0, <1>1, TypesKept DEF CaptureType
<1> QED BY <1>6, <1>7, <1>8, <1>9, <1>10, Assembled

LEMMA RejectFrameInductive ==
  ASSUME Inductive, RejectFrame
  PROVE  Inductive'
<1>0. /\ MainType /\ FlagType /\ PacketsType /\ CaptureType /\ FormatType /\ CounterType
      /\ RingType /\ CallbackType
      /\ MainStages /\ Slots /\ Books /\ Formats /\ Rings
  BY Parts
<1>1. /\ UNCHANGED <<main, isRunning, wload, format, counters, ring, callback, raced>>
      /\ Done /\ cap = "wait" /\ cap' = "test" /\ wire' = wire /\ rx[rxring_offset] /= NoFrame
  BY DEF RejectFrame, Done
<1>2. noted' = noted /\ kept > handled
  BY <1>0, <1>1, FirstPending DEF counters, Slots
<1>3. PacketsType' /\ Slots'
  BY <1>0, <1>1, <1>2, DoneSlots
<1>4. Books'
  BY <1>0, <1>1, BooksKept
<1>5. Formats' /\ Rings'
  BY <1>0, <1>1, FormatsKept, RingsKept DEF main, callback, ring, format
<1>6. MainType' /\ MainStages'
  BY <1>0, <1>1, ThreadControl DEF callback
<1>7. FlagType' /\ CaptureType' /\ FormatType' /\ CounterType' /\ RingType' /\ CallbackType'
  BY <1>0, <1>1, TypesKept DEF CaptureType
<1> QED BY <1>3, <1>4, <1>5, <1>6, <1>7, Assembled

\* The size of a packet of a format.
LEMMA PacketCellsFacts ==
  ASSUME NEW w \in Widths
  PROVE  PacketCells(w) \in Nat \ {0} /\ PacketCells(w) = FramesPerPacket * w
<1>1. w \in Nat \ {0} /\ FramesPerPacket \in Nat \ {0}
  BY Constants
<1>2. FramesPerPacket * w \in Nat /\ FramesPerPacket * w >= 1
  BY <1>1
<1> QED BY <1>2 DEF PacketCells

\* The first pending packet, before its counter is noted.
LEMMA FirstPacket ==
  ASSUME PacketsType, Slots, kept > handled, Pending(0).kind = "reac"
  PROVE  /\ 0 \in 0 .. kept - handled - 1 /\ Pending(0) = rx[rxring_offset]
         /\ Pending(0).packet \in Packets /\ Sent(Pending(0).packet)
         /\ Pending(0).packet = wire.last \/ Follows(Pending(0).packet, wire.last)
         /\ IF Counted THEN Pending(0).packet = noted.last ELSE Follows(noted.last, Pending(0).packet)
<1>1. 0 \in 0 .. kept - handled - 1
  BY DEF PacketsType
<1>2. Pending(0) = rx[rxring_offset]
  BY FirstPending DEF Slots
<1>3. Pending(0).packet \in Packets
  BY PendingFrame
<1> QED BY <1>1, <1>2, <1>3 DEF Slots, SlotStages

LEMMA TakeFrameInductive ==
  ASSUME Inductive, TakeFrame
  PROVE  Inductive'
<1>0. /\ MainType /\ FlagType /\ PacketsType /\ CaptureType /\ FormatType /\ CounterType
      /\ RingType /\ CallbackType
      /\ MainStages /\ Slots /\ Books /\ Formats /\ Rings
  BY Parts
<1> DEFINE f == rx[rxring_offset]
           w == f.packet.width
<1>1. /\ UNCHANGED <<main, isRunning, packets, wload, currentNumberOfChannels, counters, ring, callback,
                     raced>>
      /\ cap = "wait" /\ f /= NoFrame /\ f.kind = "reac" /\ dataSize \in {0, PacketCells(w)}
      /\ dataSize' = PacketCells(w) /\ cap' = IF dataSize = 0 THEN "format" ELSE "note"
  BY DEF TakeFrame
<1>2. kept > handled /\ Pending(0) = f /\ w \in Widths
  <2>1. kept > handled /\ Pending(0) = f
    BY <1>0, <1>1, FirstPending DEF Slots
  <2> QED BY <1>0, <1>1, <2>1, FirstPacket DEF Sent
<1> HIDE DEF f
<1>3. dataSize' \in Nat \ {0}
  BY <1>1, <1>2, PacketCellsFacts
<1>4. /\ dataSize = 0 => currentNumberOfChannels = 0
      /\ dataSize /= 0 => currentNumberOfChannels /= 0 /\ dataSize' = dataSize
  BY <1>0, <1>1 DEF Formats, FormatStages
<1>c. ~ Counted /\ ~ Counted'
  BY <1>1 DEF Counted
<1>5. Slots'
  <2>1. FramesHandledOnce'
    BY <1>0, <1>1 DEF Slots, FramesHandledOnce, packets
  <2>2. (\A i : Pending(i)' = Pending(i)) /\ noted' = noted
    BY <1>1 DEF Pending, packets, counters
  <2>3. UNCHANGED <<kept, handled, wire, kernel, rxring_offset>>
    BY <1>1 DEF packets
  <2>4. /\ \A i \in 0 .. kept - handled - 1 : Pending(i).kind = "reac" =>
             /\ Sent(Pending(i).packet)
             /\ Pending(i).packet = wire.last \/ Follows(Pending(i).packet, wire.last)
             /\ Follows(noted.last, Pending(i).packet)
             /\ \A j \in 0 .. i - 1 :
                  Pending(j).kind = "reac" => Follows(Pending(j).packet, Pending(i).packet)
        /\ wire.last = NoPacket \/ Sent(wire.last)
    BY <1>0, <1>c DEF Slots, SlotStages
  <2>5. kernel = (rxring_offset + (kept - handled)) % RxFrames
    BY <1>0 DEF Slots, SlotStages
  <2>6. kept' > handled' /\ Pending(0)'.kind = "reac" /\ dataSize' = PacketCells(Pending(0)'.packet.width)
    BY <1>1, <1>2, <2>2, <2>3
  <2>7. SlotStages'
    BY <1>c, <2>2, <2>3, <2>4, <2>5, <2>6 DEF SlotStages, Sent, Follows
  <2> QED BY <2>1, <2>7 DEF Slots
<1>6. Books'
  BY <1>0, <1>1, BooksKept DEF packets
<1>7. Formats'
  BY <1>0, <1>1, <1>3, <1>4, <1>c DEF Formats, FormatStages, FormatPortsWritten, callback, ring
<1>8. Rings'
  BY <1>0, <1>1, RingsKept DEF main
<1>9. MainType' /\ MainStages'
  BY <1>0, <1>1, ThreadControl DEF callback
<1>10. FlagType' /\ PacketsType' /\ CaptureType' /\ CounterType' /\ RingType' /\ CallbackType'
  BY <1>0, <1>1, TypesKept DEF CaptureType
<1>11. FormatType'
  BY <1>0, <1>1, <1>3, <1>4 DEF FormatType
<1> QED BY <1>5, <1>6, <1>7, <1>8, <1>9, <1>10, <1>11, Assembled

LEMMA ZeroRemainder ==
  ASSUME NEW m \in Nat \ {0}
  PROVE  0 % m = 0
<1>1. 0 \in 0 .. m - 1
  OBVIOUS
<1> QED BY <1>1, SmallRemainder

\* With nothing in the ring and nothing on the way, every frame is whole.
LEMMA EmptyAligned ==
  ASSUME NEW c \in Nat \ {0}, currentNumberOfChannels' = c, queue' = << >>, rload' = NoRead,
         wload' = NoWrite, want' % c = 0
  PROVE  FramesAligned'
<1>1. rload'.got \o queue' = << >> /\ rload'.cells = 0 /\ wload'.done = 0
  BY DEF NoRead, NoWrite
<1>2. 0 % c = 0 /\ Len(<< >>) = 0
  BY ZeroRemainder
<1>3. WholeFrames(<< >>)'
  BY DEF WholeFrames
<1> QED BY <1>1, <1>2, <1>3 DEF FramesAligned, WholeFrames

LEMMA SetChannelsInductive ==
  ASSUME Inductive, SetChannels
  PROVE  Inductive'
<1>0. /\ MainType /\ FlagType /\ PacketsType /\ CaptureType /\ FormatType /\ CounterType
      /\ RingType /\ CallbackType
      /\ MainStages /\ Slots /\ Books /\ Formats /\ Rings
  BY Parts
<1>1. /\ UNCHANGED <<main, isRunning, packets, wload, dataSize, counters, ring, callback, raced>>
      /\ cap = "format" /\ cap' = "note" /\ currentNumberOfChannels' = rx[rxring_offset].packet.width
  BY DEF SetChannels
<1> DEFINE w == currentNumberOfChannels'
<1>2. /\ currentNumberOfChannels = 0 /\ cycle = [ports |-> MaxChannels, cells |-> << >>] /\ cb = "idle"
      /\ queue = << >> /\ want = 0 /\ dataSize /= 0
  BY <1>0, <1>1 DEF Formats, FormatStages
<1>3. w \in Widths /\ dataSize = PacketCells(w) /\ w \in Nat \ {0}
  <2>1. kept > handled /\ Pending(0) = rx[rxring_offset] /\ Pending(0).kind = "reac"
        /\ dataSize = PacketCells(Pending(0).packet.width)
    BY <1>0, <1>1, FirstPending DEF Slots, SlotStages
  <2>3. Pending(0).packet.width \in Widths
    BY <1>0, <2>1, FirstPacket DEF Sent
  <2> QED BY <1>1, <2>1, <2>3, Constants
<1>4. UNCHANGED <<cycle, cb, queue, want, rload, kept, handled, wire, kernel, rxring_offset, rx, phase,
                  read_ptr, write_ptr, buf, noted>>
  BY <1>1 DEF callback, ring, packets, counters, main
<1> HIDE DEF w
<1>c. ~ Counted /\ ~ Counted'
  BY <1>1 DEF Counted
<1>5. Slots'
  <2>1. FramesHandledOnce'
    BY <1>0, <1>4 DEF Slots, FramesHandledOnce
  <2>2. \A i : Pending(i)' = Pending(i)
    BY <1>4 DEF Pending
  <2>3. SlotStages'
    BY <1>0, <1>1, <1>4, <1>c, <2>2 DEF Slots, SlotStages
  <2> QED BY <2>1, <2>3 DEF Slots
<1>6. Books'
  BY <1>0, <1>1, <1>4, BooksKept
<1>7. Formats'
  BY <1>1, <1>2, <1>3, <1>4 DEF Formats, FormatStages, FormatPortsWritten, w
<1>8. Rings'
  <2>1. RingIsQueue'
    BY <1>0, <1>1, <1>4 DEF Rings, RingIsQueue, Used
  <2>2. WholeFrames(cycle.cells)'
    BY <1>2, <1>4 DEF WholeFrames
  <2>3. rload = NoRead /\ wload = NoWrite
    BY <1>0, <1>1, <1>2 DEF Rings, RingStages
  <2>4. FramesAligned'
    <3>1. want' % w = 0 /\ queue' = << >> /\ rload' = NoRead /\ wload' = NoWrite
      BY <1>1, <1>2, <1>3, <1>4, <2>3, ZeroRemainder
    <3> QED BY <1>3, <3>1, EmptyAligned DEF w
  <2>5. RingStages'
    BY <1>0, <1>1, <1>2, <1>4, <2>3, <2>4 DEF Rings, RingStages, RingInUse, Used
  <2>6. WholeFramesPlayed'
    BY <2>2 DEF WholeFramesPlayed
  <2> QED BY <2>1, <2>5, <2>6 DEF Rings
<1>9. MainType' /\ MainStages'
  BY <1>0, <1>1, <1>4, ThreadControl
<1>10. FlagType' /\ PacketsType' /\ CaptureType' /\ CounterType' /\ RingType' /\ CallbackType'
  BY <1>0, <1>1, TypesKept DEF CaptureType
<1>11. FormatType'
  BY <1>0, <1>1, <1>3 DEF FormatType, w
<1> QED BY <1>5, <1>6, <1>7, <1>8, <1>9, <1>10, <1>11, Assembled

\* The thread may go on with a packet it has taken, as long as it neither notes nor drops it.
LEMMA SlotsKept ==
  ASSUME Slots, UNCHANGED <<packets, noted, dataSize>>, Counted' <=> Counted,
         (cap' = "format" \/ cap' = "note") <=> (cap = "format" \/ cap = "note")
  PROVE  Slots'
<1>1. FramesHandledOnce'
  BY DEF Slots, FramesHandledOnce, packets
<1>2. (\A i : Pending(i)' = Pending(i)) /\ UNCHANGED <<kept, handled, wire, kernel, rxring_offset>>
  BY DEF Pending, packets
<1>3. SlotStages'
  BY <1>2 DEF Slots, SlotStages
<1> QED BY <1>1, <1>3 DEF Slots

\* main clears the counters.
LEMMA ClearInductive ==
  ASSUME Inductive, ClearLost \/ ClearHave
  PROVE  Inductive'
<1>0. /\ MainType /\ FlagType /\ PacketsType /\ CaptureType /\ FormatType /\ CounterType
      /\ RingType /\ CallbackType
      /\ MainStages /\ Slots /\ Books /\ Formats /\ Rings
  BY Parts
<1>1. /\ UNCHANGED <<isRunning, packets, cap, wload, format, lastCounter, loss, noted, ring, callback,
                     raced>>
      /\ phase /= "reset" /\ phase' /= "reset"
      /\ lostPackages' \in {0, lostPackages}
  BY DEF ClearLost, ClearHave
<1>h. haveLastCounter' \in BOOLEAN /\ (haveLastCounter' => haveLastCounter)
  <2>1. CASE ClearLost
    <3>1. haveLastCounter' = haveLastCounter
      BY <2>1 DEF ClearLost
    <3> QED BY <1>0, <3>1, Zenon DEF CounterType
  <2>2. CASE ClearHave
    <3>1. haveLastCounter' = FALSE
      BY <2>2 DEF ClearHave
    <3> QED BY <3>1, Zenon
  <2> QED BY <2>1, <2>2
<1>2. MainType' /\ MainStages'
  BY <1>0, MainControl DEF MainStep
<1>3. Slots'
  BY <1>0, <1>1, SlotsKept DEF format, Counted
<1>4. CounterType'
  BY <1>0, <1>1, <1>h DEF CounterType
<1>5. Books'
  <2>1. UNCHANGED wire /\ lostPackages' <= lostPackages /\ lostPackages' \in Nat /\ lostPackages \in Nat
        /\ noted.count \in Nat /\ noted.last \in Packets /\ loss \in Nat
    BY <1>0, <1>1 DEF CounterType, packets
  <2>d. noted.last.due \in Nat
    BY <2>1, PacketFields
  <2>2. CounterStages'
    <3>1. noted'.last = wire'.last \/ Follows(noted'.last, wire'.last)
      BY <1>0, <1>1, <2>1 DEF Books, CounterStages
    <3>2. haveLastCounter' /\ cap' \notin {"load", "store", "last"} => lastCounter' = CounterOf(noted'.last)
      BY <1>0, <1>1, <1>h DEF Books, CounterStages
    <3>3. cap' = "load" => lostPackages' + loss' + noted'.count <= noted'.last.due
      BY <1>0, <1>1, <2>1, <2>d DEF Books, CounterStages
    <3>4. cap' = "store" => loss' + noted'.count <= noted'.last.due
      BY <1>0, <1>1 DEF Books, CounterStages
    <3> QED BY <3>1, <3>2, <3>3, <3>4 DEF CounterStages, Follows, CounterOf
  <2>3. LossBounded'
    BY <1>0, <1>1, <2>1, <2>d DEF Books, LossBounded
  <2> QED BY <2>2, <2>3 DEF Books
<1>6. Formats'
  BY <1>0, <1>1, FormatsKept DEF callback, ring
<1>7. Rings'
  <2> USE DEF ring, callback, format
  <2>1. RingIsQueue'
    BY <1>0, <1>1 DEF Rings, RingIsQueue, Used
  <2>a. FramesAligned' <=> FramesAligned
    BY <1>1, AlignedKept DEF Pending, packets
  <2>2. RingStages'
    BY <1>0, <1>1, <2>a DEF Rings, RingStages, RingInUse, RoomForPacket, Used
  <2>3. WholeFramesPlayed'
    BY <1>0, <1>1 DEF Rings, WholeFramesPlayed, WholeFrames
  <2> QED BY <2>1, <2>2, <2>3 DEF Rings
<1>8. FlagType' /\ PacketsType' /\ CaptureType' /\ FormatType' /\ RingType' /\ CallbackType'
  BY <1>0, <1>1, TypesKept DEF CaptureType
<1> QED BY <1>2, <1>3, <1>4, <1>5, <1>6, <1>7, <1>8, Assembled

\* The reset empties the ring, unless an operation overlaps it.
LEMMA ResetInductive ==
  ASSUME Inductive, ResetRead \/ ResetWrite
  PROVE  Inductive'
<1>0. /\ MainType /\ FlagType /\ PacketsType /\ CaptureType /\ FormatType /\ CounterType
      /\ RingType /\ CallbackType
      /\ MainStages /\ Slots /\ Books /\ Formats /\ Rings
  BY Parts
<1>1. /\ UNCHANGED <<isRunning, packets, cap, wload, format, counters, buf, callback>>
      /\ raced' = (raced \/ RingInUse)
  BY DEF ResetRead, ResetWrite
<1>2. MainType' /\ MainStages'
  BY <1>0, MainControl DEF MainStep
<1>3. Slots'
  BY <1>0, <1>1, SlotsKept DEF format, counters, Counted
<1>4. Books'
  BY <1>0, <1>1, BooksKept DEF packets
<1>5. Formats'
  <2>1. queue' \in {<< >>, queue}
    BY DEF ResetRead, ResetWrite
  <2> QED BY <1>0, <1>1, <2>1 DEF Formats, FormatStages, FormatPortsWritten, callback, format, Counted
<1>6. FlagType' /\ PacketsType' /\ CaptureType' /\ FormatType' /\ CounterType' /\ CallbackType'
  BY <1>0, <1>1, TypesKept DEF CaptureType, FlagType, RingInUse
<1>7. RingType'
  <2>1. 0 \in 0 .. RingSize - 1 /\ << >> \in Seq(Cells)
    BY Constants
  <2> QED BY <1>0, <1>1, <2>1 DEF RingType, ResetRead, ResetWrite
<1>8. WholeFramesPlayed'
  <2>1. ~ raced' => ~ raced
    BY <1>1, Zenon
  <2> QED BY <1>0, <1>1, <2>1 DEF Rings, WholeFramesPlayed, WholeFrames, callback, format
<1>9. ASSUME ~ raced'
      PROVE  /\ ~ raced /\ ~ RingInUse /\ cap' /= "copy" /\ cb' /= "copy" /\ queue' = << >> /\ read_ptr' = 0
             /\ phase' = "reset" \/ write_ptr' = 0
             /\ wload' = NoWrite /\ rload' = NoRead
             /\ currentNumberOfChannels' /= 0 => want' % currentNumberOfChannels' = 0
             /\ cap' = "write" => dataSize' < RingSize
  <2>1. ~ raced /\ ~ RingInUse
    BY <1>1, <1>9, Zenon
  <2>2. cap' /= "copy" /\ cb' /= "copy"
    BY <1>1, <2>1 DEF RingInUse, callback
  <2>3. queue' = << >> /\ read_ptr' = 0 /\ (phase' = "reset" \/ write_ptr' = 0)
    BY <1>0, <2>1 DEF ResetRead, ResetWrite, Rings, RingStages
  <2>4. currentNumberOfChannels' /= 0 => want' % currentNumberOfChannels' = 0
    BY <1>0, <1>1, <2>1 DEF Rings, RingStages, callback, format, FramesAligned
  <2>5. wload' = NoWrite /\ rload' = NoRead /\ (cap' = "write" => dataSize' < RingSize)
    BY <1>0, <1>1, <2>1, <2>2 DEF Rings, RingStages, callback, format
  <2> QED BY <2>1, <2>2, <2>3, <2>4, <2>5
<1>e. ASSUME ~ raced', phase' /= "reset" PROVE Used' = 0
  <2>1. write_ptr' - read_ptr' = 0 /\ 0 % RingSize = 0
    BY <1>9, <1>e, ZeroRemainder, Constants
  <2> QED BY <2>1 DEF Used
<1>10. RingIsQueue'
  <2> SUFFICES ASSUME ~ raced', phase' /= "reset"
               PROVE  queue' = [k \in 1 .. Used' |-> buf'[(read_ptr' + k - 1) % RingSize]]
    BY DEF RingIsQueue
  <2> QED BY <1>9, <1>e
<1>11. RingStages'
  <2>1. (cap' /= "copy" => wload' = NoWrite) /\ (cb' /= "copy" => rload' = NoRead)
    BY <1>0, <1>1 DEF Rings, RingStages, callback
  <2>2. ASSUME ~ raced'
        PROVE  /\ ~ RingInUse' /\ queue' = << >> /\ read_ptr' = 0 /\ cap' /= "copy" /\ cb' /= "copy"
               /\ cap' = "write" => dataSize' < RingSize /\ (phase' /= "reset" => RoomForPacket')
               /\ currentNumberOfChannels' /= 0 => FramesAligned'
    <3>1. ASSUME currentNumberOfChannels' /= 0 PROVE FramesAligned'
      <4>1. currentNumberOfChannels' \in Nat \ {0}
        BY <1>6, <3>1, Constants DEF FormatType
      <4> QED BY <1>9, <2>2, <3>1, <4>1, EmptyAligned
    <3>2. ASSUME cap' = "write", phase' /= "reset" PROVE RoomForPacket'
      <4>1. Used' = 0 /\ dataSize' < RingSize /\ dataSize' \in Nat /\ RingSize \in Nat
        BY <1>6, <1>9, <1>e, <2>2, <3>2, Constants DEF FormatType
      <4>2. dataSize' <= RingSize - 1 - Used'
        BY <4>1
      <4> QED BY <4>2 DEF RoomForPacket
    <3> QED BY <1>9, <2>2, <3>1, <3>2 DEF RingInUse
  <2> QED BY <2>1, <2>2 DEF RingStages
<1>12. Rings'
  BY <1>8, <1>10, <1>11 DEF Rings
<1> QED BY <1>2, <1>3, <1>4, <1>5, <1>6, <1>7, <1>12, Assembled

-----------------------------------------------------------------------------
(* The packet counter. *)

LEMMA RemainderAtMost ==
  ASSUME NEW z \in Nat, NEW m \in Nat \ {0}
  PROVE  z % m <= z
<1> DEFINE t == z \div m
           r == z % m
<1>1. t \in Int /\ r \in 0 .. m - 1 /\ z = m * t + r
  BY Remainder
<1> HIDE DEF t, r
<1>2. ASSUME t < 0 PROVE FALSE
  <2>1. m * t <= 0 - m
    BY <1>1, <1>2
  <2> QED BY <1>1, <2>1
<1>3. t >= 0
  BY <1>1, <1>2
<1>4. m * t >= 0
  BY <1>1, <1>3
<1>5. r <= z
  BY <1>1, <1>4
<1> QED BY <1>5 DEF r

\* The gap between two counters is that between the packets, but for whole rounds.
LEMMA GapOfCounters ==
  ASSUME NEW m \in Nat \ {0}, NEW x \in Int, NEW y \in Int
  PROVE  ((x % m) - ((y % m) + 1)) % m = (x - y - 1) % m
<1> DEFINE p == x \div m
           a == x % m
           q == y \div m
           b == y % m
           z == x - y - 1
           t == z \div m
           r == z % m
           g == a - (b + 1)
<1>1. p \in Int /\ a \in Int /\ x = m * p + a
  BY Remainder
<1>2. q \in Int /\ b \in Int /\ y = m * q + b
  BY Remainder
<1>3. z \in Int /\ z = x - y - 1
  OBVIOUS
<1> HIDE DEF z
<1>4. t \in Int /\ r \in 0 .. m - 1 /\ z = m * t + r
  BY <1>3, Remainder
<1> HIDE DEF p, a, q, b, t, r
<1> DEFINE e == (t + q) - p
<1>5. g \in Int /\ g = a - (b + 1) /\ e \in Int
  BY <1>1, <1>2, <1>4
<1> HIDE DEF g
<1>6. g = m * e + r
  <2>1. m * ((t + q) - p) = (m * t + m * q) - m * p
    BY <1>1, <1>2, <1>4
  <2>2. m * t \in Int /\ m * q \in Int /\ m * p \in Int
    BY <1>1, <1>2, <1>4
  <2> QED BY <1>1, <1>2, <1>3, <1>4, <1>5, <2>1, <2>2
<1> HIDE DEF e
<1>7. g \in Int /\ e \in Int /\ r \in 0 .. m - 1 /\ g = m * e + r
  BY <1>4, <1>5, <1>6
<1>8. g % m = r
  BY <1>7, RemainderUnique
<1> QED BY <1>8 DEF g, r, a, b, z

\* What a packet adds to the lost ones is at most what was skipped.
LEMMA GapBound ==
  ASSUME NEW F \in Int, NEW last \in Int, NEW n \in Int, last < n,
         NEW gap, gap = (((F + n) % CounterMod) - (((F + last) % CounterMod) + 1)) % CounterMod
  PROVE  /\ gap \in 0 .. n - last - 1
         /\ (IF gap < Half THEN gap ELSE 1) \in 0 .. n - last - 1
<1> DEFINE x == F + n
           y == F + last
           z == n - last - 1
           h == Half
<1>0. CounterMod \in Nat \ {0} /\ CounterMod >= 2
  BY Constants
<1>1. x \in Int /\ y \in Int /\ z \in Nat /\ x - y - 1 = z
  OBVIOUS
<1>2. gap = (x - y - 1) % CounterMod
  <2> HIDE DEF x, y
  <2> QED BY <1>0, <1>1, GapOfCounters DEF x, y
<1>3. gap = z % CounterMod
  BY <1>1, <1>2
<1> HIDE DEF z
<1>4. gap \in Nat /\ gap <= z
  BY <1>0, <1>1, <1>3, Remainder, RemainderAtMost
<1>5. h \in Int /\ h >= 1
  BY HalfFacts
<1> HIDE DEF h
<1>6. (IF gap < h THEN gap ELSE 1) \in 0 .. z /\ gap \in 0 .. z
  BY <1>1, <1>4, <1>5
<1> QED BY <1>6 DEF h, z

\* What note_packet_counter adds, and the packet itself, are no more than what became due
\* since the last packet: when packets are missing these; one when a packet comes again, for
\* which two are due; less than half the range when the counter jumps.
LEMMA LostBound ==
  ASSUME NEW f \in Packets, NEW g \in Packets, Follows(f, g),
         NEW gap, gap = (CounterOf(g) - (CounterOf(f) + 1)) % CounterMod
  PROVE  /\ g.due >= f.due + 1
         /\ (IF gap < Half THEN gap ELSE 1) \in Nat
         /\ (IF gap < Half THEN gap ELSE 1) + 1 <= g.due - f.due
<1> DEFINE add == IF gap < Half THEN gap ELSE 1
           x == g.base + g.n
           y == f.base + f.n
<1>0. /\ CounterMod \in Nat \ {0} /\ CounterMod >= 4 /\ Half \in Nat /\ Half >= 2 /\ Half <= CounterMod - 1
      /\ f.n \in Int /\ g.n \in Int /\ f.due \in Nat /\ g.due \in Nat /\ f.base \in Int /\ g.base \in Int
  BY Constants, HalfFacts, PacketFields
<1>1. /\ g.n >= f.n /\ g.due - f.due >= g.n - f.n
      /\ g.n = f.n => g.base = f.base /\ g.due >= f.due + 2
      /\ g.base /= f.base => g.due >= f.due + Half
  BY DEF Follows
<1>2. gap = ((x % CounterMod) - ((y % CounterMod) + 1)) % CounterMod /\ x \in Int /\ y \in Int
  <2>1. CounterOf(g) = x % CounterMod /\ CounterOf(f) = y % CounterMod
    BY DEF CounterOf
  <2>2. x \in Int /\ y \in Int
    BY <1>0
  <2> HIDE DEF x, y
  <2> QED BY <2>1, <2>2
<1>3. gap \in 0 .. CounterMod - 1
  <2>1. gap = (x - y - 1) % CounterMod
    <3> HIDE DEF x, y
    <3> QED BY <1>0, <1>2, GapOfCounters
  <2>2. x - y - 1 \in Int
    BY <1>2
  <2> QED BY <1>0, <2>1, <2>2, Remainder
<1>4. g.due >= f.due + 1
  BY <1>0, <1>1
<1>5. add \in Nat
  BY <1>0, <1>3
<1>6. CASE g.base /= f.base
  <2>1. add <= Half - 1
    BY <1>0, <1>3
  <2> HIDE DEF add
  <2>2. add + 1 <= g.due - f.due
    BY <1>0, <1>1, <1>5, <1>6, <2>1
  <2> QED BY <1>4, <1>5, <2>2 DEF add
<1>7. CASE g.base = f.base /\ g.n > f.n
  <2> DEFINE b == g.base
             n == g.n
             l == f.n
  <2>1. b \in Int /\ n \in Int /\ l \in Int /\ l < n
    BY <1>0, <1>7
  <2>2. gap = (((b + n) % CounterMod) - (((b + l) % CounterMod) + 1)) % CounterMod
    BY <1>2, <1>7
  <2> HIDE DEF b, n, l, add
  <2>3. (IF gap < Half THEN gap ELSE 1) \in 0 .. n - l - 1
    BY <2>1, <2>2, GapBound
  <2>4. add \in 0 .. n - l - 1 /\ g.due - f.due >= n - l
    BY <1>1, <2>3 DEF add, n, l
  <2>5. add + 1 <= g.due - f.due
    BY <1>0, <1>5, <2>1, <2>4
  <2> QED BY <1>4, <1>5, <2>5 DEF add
<1>8. CASE g.base = f.base /\ g.n = f.n
  <2>1. x = y
    BY <1>8
  <2>2. gap = (y - y - 1) % CounterMod
    <3> HIDE DEF x, y
    <3> QED BY <1>0, <1>2, <2>1, GapOfCounters
  <2>3. y - y - 1 = -1
    BY <1>2
  <2> HIDE DEF x, y
  <2>4. -1 = CounterMod * (-1) + (CounterMod - 1) /\ CounterMod - 1 \in 0 .. CounterMod - 1 /\ -1 \in Int
    BY <1>0
  <2>5. (-1) % CounterMod = CounterMod - 1
    BY <1>0, <2>4, RemainderUnique
  <2>6. gap = CounterMod - 1
    BY <2>2, <2>3, <2>5
  <2>7. ~ (gap < Half)
    BY <1>0, <2>6
  <2>8. add = 1
    BY <2>7
  <2>9. g.due >= f.due + 2
    BY <1>1, <1>8
  <2> HIDE DEF add
  <2>10. add + 1 <= g.due - f.due
    BY <1>0, <2>8, <2>9
  <2> QED BY <1>4, <1>5, <2>10 DEF add
<1> QED BY <1>0, <1>1, <1>6, <1>7, <1>8

\* The packet the thread works on.
LEMMA CurrentPacket ==
  ASSUME PacketsType, Slots, cap = "format" \/ cap = "note" \/ Counted
  PROVE  /\ kept > handled /\ Pending(0) = rx[rxring_offset] /\ Pending(0).kind = "reac"
         /\ 0 \in 0 .. kept - handled - 1
         /\ Pending(0).packet \in Packets /\ Sent(Pending(0).packet)
         /\ Pending(0).packet.n \in Nat /\ Pending(0).packet.width \in Widths
         /\ dataSize = PacketCells(Pending(0).packet.width)
         /\ Pending(0).packet = wire.last \/ Follows(Pending(0).packet, wire.last)
         /\ IF Counted THEN Pending(0).packet = noted.last ELSE Follows(noted.last, Pending(0).packet)
<1>1. kept > handled /\ Pending(0).kind = "reac" /\ dataSize = PacketCells(Pending(0).packet.width)
  BY DEF Slots, SlotStages
<1>2. /\ 0 \in 0 .. kept - handled - 1 /\ Pending(0) = rx[rxring_offset]
      /\ Pending(0).packet \in Packets /\ Sent(Pending(0).packet)
      /\ Pending(0).packet = wire.last \/ Follows(Pending(0).packet, wire.last)
      /\ IF Counted THEN Pending(0).packet = noted.last ELSE Follows(noted.last, Pending(0).packet)
  BY <1>1, FirstPacket
<1>3. Pending(0).packet.n \in Nat /\ Pending(0).packet.width \in Widths
  <2>1. Pending(0).packet.n \in Int
    BY <1>2, PacketFields
  <2> QED BY <1>2, <2>1 DEF Sent
<1> QED BY <1>1, <1>2, <1>3

LEMMA NoteTestInductive ==
  ASSUME Inductive, NoteTest
  PROVE  Inductive'
<1>0. /\ MainType /\ FlagType /\ PacketsType /\ CaptureType /\ FormatType /\ CounterType
      /\ RingType /\ CallbackType
      /\ MainStages /\ Slots /\ Books /\ Formats /\ Rings
  BY Parts
<1> DEFINE f == noted.last
           g == rx[rxring_offset].packet
<1>1. /\ UNCHANGED <<main, isRunning, packets, wload, format, lostPackages, lastCounter, haveLastCounter,
                     ring, callback, raced>>
      /\ cap = "note" /\ cap' \in {"last", "load"} /\ loss' = LostBy(CounterOf(g))
      /\ noted' = [count |-> noted.count + 1, last |-> g]
  BY DEF NoteTest
<1>c. ~ Counted /\ Counted'
  BY <1>1 DEF Counted
<1>2. /\ kept > handled /\ Pending(0).packet = g /\ Pending(0).kind = "reac" /\ g \in Packets
      /\ g = wire.last \/ Follows(g, wire.last)
      /\ Follows(f, g) /\ dataSize = PacketCells(g.width)
  BY <1>0, <1>1, <1>c, CurrentPacket
<1>3. /\ f \in Packets /\ f.due \in Nat /\ g.due \in Nat /\ noted.count \in Nat /\ lostPackages \in Nat
      /\ lostPackages + noted.count <= f.due
  <2>1. f \in Packets /\ noted.count \in Nat /\ lostPackages \in Nat
    BY <1>0 DEF CounterType
  <2>2. lostPackages + noted.count <= f.due
    BY <1>0 DEF Books, LossBounded
  <2> QED BY <1>2, <2>1, <2>2, PacketFields
<1> HIDE DEF f, g
<1>4. loss' \in Nat /\ loss' + 1 <= g.due - f.due /\ g.due >= f.due + 1
  <2> DEFINE gap == (CounterOf(g) - (CounterOf(f) + 1)) % CounterMod
  <2>1. /\ g.due >= f.due + 1
        /\ (IF gap < Half THEN gap ELSE 1) \in Nat
        /\ (IF gap < Half THEN gap ELSE 1) + 1 <= g.due - f.due
    <3> HIDE DEF gap
    <3> QED BY <1>2, <1>3, LostBound DEF gap
  <2>2. CASE ~ haveLastCounter
    <3>1. loss' = 0
      BY <1>1, <2>2 DEF LostBy
    <3>2. 0 + 1 <= g.due - f.due
      BY <1>3, <2>1
    <3> QED BY <2>1, <3>1, <3>2
  <2>3. CASE haveLastCounter
    <3>1. lastCounter = CounterOf(f)
      BY <1>0, <1>1, <2>3 DEF Books, CounterStages, f
    <3>2. loss' = (IF gap < Half THEN gap ELSE 1)
      BY <1>1, <2>3, <3>1 DEF LostBy
    <3> QED BY <2>1, <3>2
  <2> QED BY <2>2, <2>3
<1>5. noted'.count = noted.count + 1 /\ noted'.last = g /\ noted.count + 1 \in Nat
  BY <1>1, <1>3
<1>6. UNCHANGED <<kept, handled, wire, kernel, rxring_offset, rx, dataSize, currentNumberOfChannels>>
      /\ \A i : Pending(i)' = Pending(i)
  BY <1>1 DEF packets, Pending, format
<1>7. Slots'
  <2>1. FramesHandledOnce'
    BY <1>0, <1>6 DEF Slots, FramesHandledOnce
  <2>2. /\ \A i \in 0 .. kept - handled - 1 : Pending(i).kind = "reac" =>
             /\ Sent(Pending(i).packet)
             /\ Pending(i).packet = wire.last \/ Follows(Pending(i).packet, wire.last)
             /\ \A j \in 0 .. i - 1 :
                  Pending(j).kind = "reac" => Follows(Pending(j).packet, Pending(i).packet)
        /\ wire.last = NoPacket \/ Sent(wire.last)
        /\ kernel = (rxring_offset + (kept - handled)) % RxFrames
    BY <1>0 DEF Slots, SlotStages
  <2>3. ASSUME NEW i \in 0 .. kept - handled - 1, Pending(i).kind = "reac"
        PROVE  IF i = 0 THEN Pending(i).packet = g ELSE Follows(g, Pending(i).packet)
    <3>1. CASE i = 0
      BY <1>2, <3>1
    <3>2. CASE i /= 0
      <4>1. 0 \in 0 .. i - 1
        BY <3>2
      <4> QED BY <1>2, <2>2, <2>3, <3>2, <4>1
    <3> QED BY <3>1, <3>2
  <2>4. SlotStages'
    BY <1>2, <1>5, <1>6, <1>c, <2>2, <2>3 DEF SlotStages, Sent, Follows
  <2> QED BY <2>1, <2>4 DEF Slots
<1>8. CounterType'
  <2>1. noted' \in [count : Nat, last : Packets]
    BY <1>1, <1>2, <1>5, Zenon
  <2> QED BY <1>0, <1>1, <1>4, <2>1 DEF CounterType
<1>9. Books'
  <2>1. lostPackages + loss' + (noted.count + 1) <= g.due
    BY <1>3, <1>4
  <2>2. lostPackages + (noted.count + 1) <= g.due
    BY <1>3, <1>4
  <2>3. LossBounded'
    BY <1>1, <1>5, <2>2 DEF LossBounded
  <2>4. CounterStages'
    BY <1>1, <1>2, <1>5, <1>6, <2>1 DEF CounterStages, Follows
  <2> QED BY <2>3, <2>4 DEF Books
<1>10. Formats'
  BY <1>0, <1>1, <1>6 DEF Formats, FormatStages, FormatPortsWritten, callback, ring, Counted
<1>11. Rings'
  BY <1>0, <1>1, <1>6, RingsKept DEF main
<1>12. MainType' /\ MainStages'
  BY <1>0, <1>1, ThreadControl DEF callback
<1>13. FlagType' /\ PacketsType' /\ CaptureType' /\ FormatType' /\ RingType' /\ CallbackType'
  BY <1>0, <1>1, TypesKept DEF CaptureType
<1> QED BY <1>7, <1>8, <1>9, <1>10, <1>11, <1>12, <1>13, Assembled

\* The thread's other steps on the counters.
LEMMA CountingInductive ==
  ASSUME Inductive, LoadLost \/ StoreLost \/ NoteLast
  PROVE  Inductive'
<1>0. /\ MainType /\ FlagType /\ PacketsType /\ CaptureType /\ FormatType /\ CounterType
      /\ RingType /\ CallbackType
      /\ MainStages /\ Slots /\ Books /\ Formats /\ Rings
  BY Parts
<1>1. /\ UNCHANGED <<main, isRunning, packets, wload, format, noted, ring, callback, raced>>
      /\ cap \in {"load", "store", "last"} /\ cap' \in {"store", "last", "room"}
  BY DEF LoadLost, StoreLost, NoteLast
<1>c. Counted /\ Counted'
  BY <1>1 DEF Counted
<1>2. Slots'
  BY <1>0, <1>1, <1>c, SlotsKept DEF format
<1>3. /\ noted.count \in Nat /\ noted.last \in Packets /\ noted.last.due \in Nat /\ loss \in Nat
      /\ lostPackages \in Nat /\ lostPackages + noted.count <= noted.last.due /\ wire' = wire
      /\ noted.last = wire.last \/ Follows(noted.last, wire.last)
  <2>1. noted.count \in Nat /\ noted.last \in Packets /\ loss \in Nat /\ lostPackages \in Nat
    BY <1>0 DEF CounterType
  <2>2. /\ lostPackages + noted.count <= noted.last.due /\ wire' = wire
        /\ noted.last = wire.last \/ Follows(noted.last, wire.last)
    BY <1>0, <1>1 DEF Books, LossBounded, CounterStages, packets
  <2> QED BY <2>1, <2>2, PacketFields
<1>4. CounterType' /\ Books'
  <2>1. CASE LoadLost
    <3>1. cap = "load" /\ cap' = "store" /\ loss' = lostPackages + loss
          /\ UNCHANGED <<lostPackages, lastCounter, haveLastCounter>>
      BY <2>1 DEF LoadLost
    <3>2. lostPackages + loss + noted.count <= noted.last.due
      BY <1>0, <3>1 DEF Books, CounterStages
    <3>3. loss' \in Nat /\ loss' + noted.count <= noted.last.due
      BY <1>3, <3>1, <3>2
    <3>4. CounterType'
      BY <1>0, <1>1, <3>1, <3>3 DEF CounterType
    <3> QED BY <1>1, <1>3, <3>1, <3>3, <3>4 DEF Books, CounterStages, LossBounded, Follows
  <2>2. CASE StoreLost
    <3>1. cap = "store" /\ cap' = "last" /\ lostPackages' = loss
          /\ UNCHANGED <<loss, lastCounter, haveLastCounter>>
      BY <2>2 DEF StoreLost
    <3>2. loss + noted.count <= noted.last.due
      BY <1>0, <3>1 DEF Books, CounterStages
    <3>4. CounterType'
      BY <1>0, <1>1, <3>1 DEF CounterType
    <3> QED BY <1>1, <1>3, <3>1, <3>2, <3>4 DEF Books, CounterStages, LossBounded, Follows
  <2>3. CASE NoteLast
    <3>1. /\ cap = "last" /\ cap' = "room" /\ lastCounter' = CounterOf(rx[rxring_offset].packet)
          /\ haveLastCounter' = TRUE /\ loss' = 0 /\ UNCHANGED lostPackages
      BY <2>3 DEF NoteLast
    <3>2. rx[rxring_offset].packet = noted.last
      BY <1>0, <1>c, CurrentPacket
    <3>3. lastCounter' = CounterOf(noted.last)
      BY <3>1, <3>2
    <3>4. CounterOf(noted.last) \in 0 .. CounterMod - 1
      <4>1. noted.last.base + noted.last.n \in Int
        BY <1>3, PacketFields
      <4> QED BY <4>1, Constants, Remainder DEF CounterOf
    <3>5. CounterType'
      BY <1>0, <1>1, <3>1, <3>3, <3>4 DEF CounterType
    <3> QED BY <1>1, <1>3, <3>1, <3>3, <3>5 DEF Books, CounterStages, LossBounded, Follows, CounterOf
  <2> QED BY <2>1, <2>2, <2>3
<1>5. Formats'
  BY <1>0, <1>1 DEF Formats, FormatStages, FormatPortsWritten, callback, ring, format, Counted
<1>6. Rings'
  BY <1>0, <1>1, RingsKept DEF main, format
<1>7. MainType' /\ MainStages'
  BY <1>0, <1>1, ThreadControl DEF callback
<1>8. FlagType' /\ PacketsType' /\ CaptureType' /\ FormatType' /\ RingType' /\ CallbackType'
  BY <1>0, <1>1, TypesKept DEF CaptureType
<1> QED BY <1>2, <1>4, <1>5, <1>6, <1>7, <1>8, Assembled

LEMMA CheckRoomInductive ==
  ASSUME Inductive, CheckRoom
  PROVE  Inductive'
<1>0. /\ MainType /\ FlagType /\ PacketsType /\ CaptureType /\ FormatType /\ CounterType
      /\ RingType /\ CallbackType
      /\ MainStages /\ Slots /\ Books /\ Formats /\ Rings
  BY Parts
<1>1. /\ UNCHANGED <<main, isRunning, wload, format, counters, ring, callback, raced>>
      /\ cap = "room" /\ cap' \in {"write", "test"} /\ wire' = wire
      /\ \/ RoomForPacket /\ cap' = "write" /\ UNCHANGED packets
         \/ Done
  BY DEF CheckRoom, Done, packets
<1>2. PacketsType' /\ Slots'
  <2>1. CASE cap' = "write" /\ UNCHANGED packets
    BY <1>0, <1>1, <2>1, SlotsKept, TypesKept DEF format, counters, Counted
  <2>2. CASE Done
    <3>1. kept > handled /\ noted' = noted
      BY <1>0, <1>1, CurrentPacket DEF Counted, counters
    <3> QED BY <1>0, <2>2, <3>1, DoneSlots
  <2> QED BY <1>1, <2>1, <2>2
<1>3. Books'
  BY <1>0, <1>1, BooksKept
<1>4. Formats'
  BY <1>0, <1>1 DEF Formats, FormatStages, FormatPortsWritten, callback, ring, format, Counted
<1>5. Rings'
  <2>1. CASE cap' = "test"
    BY <1>0, <1>1, <2>1, RingsKept DEF main, format
  <2>2. CASE cap' = "write" /\ RoomForPacket
    <3> USE DEF ring, callback, format, main
    <3>1. RingIsQueue'
      BY <1>0, <1>1 DEF Rings, RingIsQueue, Used
    <3>2. FramesAligned' <=> FramesAligned
      <4>1. wload.done = 0
        BY <1>0, <1>1 DEF Rings, RingStages, NoWrite
      <4>2. ~ (wload.done > 0)
        BY <4>1
      <4> QED BY <1>1, <4>2, AlignedKept
    <3>3. RoomForPacket' /\ dataSize' < RingSize
      <4>1. write_ptr - read_ptr \in Int /\ RingSize \in Nat \ {0} /\ dataSize \in Nat
        BY <1>0, Constants DEF RingType, FormatType
      <4>2. Used \in 0 .. RingSize - 1
        BY <4>1, Remainder DEF Used
      <4>3. dataSize < RingSize
        BY <2>2, <4>1, <4>2 DEF RoomForPacket
      <4> QED BY <1>1, <2>2, <4>3 DEF RoomForPacket, Used
    <3>4. RingStages'
      BY <1>0, <1>1, <2>2, <3>2, <3>3 DEF Rings, RingStages, RingInUse, Used
    <3>5. WholeFramesPlayed'
      BY <1>0, <1>1 DEF Rings, WholeFramesPlayed, WholeFrames
    <3> QED BY <3>1, <3>4, <3>5 DEF Rings
  <2> QED BY <1>1, <2>1, <2>2 DEF Done
<1>6. MainType' /\ MainStages'
  BY <1>0, <1>1, ThreadControl DEF callback
<1>7. FlagType' /\ CaptureType' /\ FormatType' /\ CounterType' /\ RingType' /\ CallbackType'
  BY <1>0, <1>1, TypesKept DEF CaptureType
<1> QED BY <1>2, <1>3, <1>4, <1>5, <1>6, <1>7, Assembled

\* The libjack write finds the room the thread found, unless it overlaps the reset.
LEMMA WriteBeginInductive ==
  ASSUME Inductive, WriteBegin
  PROVE  Inductive'
<1>0. /\ MainType /\ FlagType /\ PacketsType /\ CaptureType /\ FormatType /\ CounterType
      /\ RingType /\ CallbackType
      /\ MainStages /\ Slots /\ Books /\ Formats /\ Rings
  BY Parts
<1> DEFINE c == Least(dataSize, RingSize - 1 - Used)
<1>1. /\ UNCHANGED <<main, isRunning, packets, format, counters, ring, callback>>
      /\ cap = "write" /\ cap' = "copy" /\ raced' = (raced \/ phase = "reset")
      /\ wload' = [ptr |-> write_ptr, done |-> 0, cells |-> c]
  BY DEF WriteBegin
<1>2. Used \in 0 .. RingSize - 1 /\ dataSize \in Nat /\ RingSize \in Nat \ {0} /\ c \in Nat
  <2>1. write_ptr - read_ptr \in Int /\ RingSize \in Nat \ {0} /\ dataSize \in Nat
    BY <1>0, Constants DEF RingType, FormatType
  <2>2. Used \in 0 .. RingSize - 1
    BY <2>1, Remainder DEF Used
  <2> QED BY <2>1, <2>2 DEF Least
<1>3. wload'.ptr = write_ptr /\ wload'.done = 0 /\ wload'.cells = c
  BY <1>1
<1>4. CaptureType'
  <2>1. write_ptr \in 0 .. RingSize - 1 /\ 0 \in Nat
    BY <1>0 DEF RingType
  <2>2. wload' \in [ptr : 0 .. RingSize - 1, done : Nat, cells : Nat]
    BY <1>1, <1>2, <2>1, Zenon
  <2>3. wload'.done <= wload'.cells
    BY <1>2, <1>3
  <2> QED BY <1>1, <2>2, <2>3 DEF CaptureType
<1> HIDE DEF c
<1>5. Slots'
  BY <1>0, <1>1, SlotsKept DEF format, counters, Counted
<1>6. Books'
  BY <1>0, <1>1, BooksKept DEF packets
<1>7. Formats'
  BY <1>0, <1>1 DEF Formats, FormatStages, FormatPortsWritten, callback, ring, format, Counted
<1>8. Rings'
  <2> USE DEF ring, callback, format
  <2>1. ~ raced' => ~ raced /\ phase /= "reset" /\ phase' /= "reset"
    <3>1. ~ raced' => ~ raced /\ phase /= "reset"
      BY <1>1, Zenon
    <3> QED BY <1>1, <3>1 DEF main
  <2>2. RingIsQueue'
    BY <1>0, <1>1, <2>1 DEF Rings, RingIsQueue, Used
  <2>3. wload.done = 0 /\ wload = NoWrite /\ (cb' /= "copy" => rload' = NoRead)
    BY <1>0, <1>1 DEF Rings, RingStages, NoWrite
  <2>4. FramesAligned => FramesAligned'
    <3>1. ~ (wload'.done > 0) /\ wload'.done = wload.done
      BY <1>3, <2>3
    <3> QED BY <1>1, <3>1 DEF FramesAligned, WholeFrames
  <2>5. ~ raced' => /\ c = dataSize /\ c - 0 <= RingSize - 1 - Used
    <3>1. ~ raced' => RoomForPacket
      BY <1>0, <1>1, <2>1 DEF Rings, RingStages
    <3> QED BY <1>2, <3>1 DEF RoomForPacket, Least, c
  <2>6. Used' = Used /\ write_ptr' = write_ptr /\ dataSize' = dataSize
    BY <1>1 DEF Used
  <2>7. RingStages'
    <3>1. ~ raced' => /\ wload'.ptr = write_ptr' /\ wload'.cells = dataSize'
                      /\ wload'.cells - wload'.done <= RingSize - 1 - Used' /\ ~ (wload'.done > 0)
      BY <1>3, <2>5, <2>6
    <3>2. ~ raced' => /\ cb' = "checked" => want' <= Used' \/ read_ptr' = 0
                      /\ cb' = "copy" => rload'.ptr = read_ptr' /\ rload'.cells - Len(rload'.got) <= Used'
                      /\ currentNumberOfChannels' /= 0 => FramesAligned'
      BY <1>0, <1>1, <2>1, <2>4, <2>6 DEF Rings, RingStages
    <3> QED BY <1>1, <2>1, <2>3, <3>1, <3>2 DEF RingStages
  <2>8. WholeFramesPlayed'
    BY <1>0, <1>1, <2>1 DEF Rings, WholeFramesPlayed, WholeFrames
  <2> QED BY <2>2, <2>7, <2>8 DEF Rings
<1>9. MainType' /\ MainStages'
  BY <1>0, <1>1, ThreadControl DEF callback
<1>10. PacketsType' /\ FormatType' /\ CounterType' /\ RingType' /\ CallbackType'
  BY <1>0, <1>1, TypesKept
<1>11. FlagType'
  <2>1. raced' \in BOOLEAN
    BY <1>1, Zenon
  <2> QED BY <1>0, <1>1, <2>1 DEF FlagType
<1> QED BY <1>4, <1>5, <1>6, <1>7, <1>8, <1>9, <1>10, <1>11, Assembled

-----------------------------------------------------------------------------
(* Positions in the byte ring. *)

\* A remainder may be taken before a difference.
LEMMA RemainderOfDifference ==
  ASSUME NEW c \in Int, NEW a \in Int, NEW m \in Nat \ {0}
  PROVE  (c - (a % m)) % m = (c - a) % m
<1> DEFINE p == a \div m
           r == a % m
           z == c - a
           t == z \div m
           g == z % m
           y == c - r
<1>1. p \in Int /\ r \in Int /\ a = m * p + r
  BY Remainder
<1> HIDE DEF p, r
<1>2. z \in Int /\ z = c - a /\ y \in Int /\ y = c - r
  BY <1>1
<1> HIDE DEF z, y
<1>3. t \in Int /\ g \in 0 .. m - 1 /\ z = m * t + g
  BY <1>2, Remainder
<1> HIDE DEF t, g
<1> DEFINE e == t + p
<1>4. y = m * e + g /\ e \in Int
  <2>1. m * (t + p) = m * t + m * p /\ m * t \in Int /\ m * p \in Int
    BY <1>1, <1>3
  <2> QED BY <1>1, <1>2, <1>3, <2>1
<1> HIDE DEF e
<1>5. y \in Int /\ e \in Int /\ g \in 0 .. m - 1 /\ y = m * e + g
  BY <1>2, <1>3, <1>4
<1>6. y % m = g
  BY <1>5, RemainderUnique
<1> QED BY <1>6 DEF y, r, g, z

\* The distance of the k-th cell in the ring from the write pointer.
LEMMA DistanceToWrite ==
  ASSUME NEW S \in Nat \ {0}, NEW r \in Int, NEW w \in Int, NEW k \in Int
  PROVE  (((r + k - 1) % S) - w) % S = (k - 1 - ((w - r) % S)) % S
<1> DEFINE a == r + k - 1
           c == 0 - w
           b == w - r
           e == k - 1
<1>1. a \in Int /\ c \in Int /\ b \in Int /\ e \in Int /\ a + c = e - b
  OBVIOUS
<1>2. a % S \in Int /\ b % S \in Int
  BY <1>1, Remainder
<1>3. (a % S) + c = (a % S) - w
  BY <1>2
<1> HIDE DEF a, c, b, e
<1>4. ((a % S) + c) % S = (a + c) % S
  BY <1>1, RemainderOfSum
<1>5. (e - (b % S)) % S = (e - b) % S
  BY <1>1, RemainderOfDifference
<1>6. ((a % S) - w) % S = (e - (b % S)) % S
  BY <1>1, <1>3, <1>4, <1>5
<1> QED BY <1>6 DEF a, b, e

LEMMA CellsNotOverwritten ==
  ASSUME NEW S \in Nat \ {0}, NEW r \in Int, NEW w \in Int, NEW U \in 0 .. S - 1, U = (w - r) % S,
         NEW k \in 1 .. U
  PROVE  (((r + k - 1) % S) - w) % S = (k - 1 - U) + S
<1> DEFINE x == k - 1 - U
<1>1. k \in Int /\ U \in Int /\ x \in Int /\ x + S \in 0 .. S - 1
  OBVIOUS
<1>a. k \in Int
  BY <1>1
<1>b. (((r + k - 1) % S) - w) % S = (k - 1 - ((w - r) % S)) % S
  BY <1>a, DistanceToWrite, Zenon
<1>2. (((r + k - 1) % S) - w) % S = (k - 1 - U) % S
  BY <1>b, Zenon
<1> HIDE DEF x
<1>3. (x + S) % S = x % S /\ (x + S) % S = x + S
  BY <1>1, RemainderOfRound, SmallRemainder
<1>4. (((r + k - 1) % S) - w) % S = x % S
  BY <1>2, Zenon DEF x
<1> QED BY <1>3, <1>4 DEF x

LEMMA CellsWritten ==
  ASSUME NEW S \in Nat \ {0}, NEW r \in Int, NEW w \in Int, NEW U \in 0 .. S - 1, U = (w - r) % S,
         NEW k \in U + 1 .. S
  PROVE  (((r + k - 1) % S) - w) % S = k - 1 - U
<1> DEFINE x == k - 1 - U
<1>1. k \in Int /\ U \in Int /\ x \in 0 .. S - 1
  OBVIOUS
<1>a. k \in Int
  BY <1>1
<1>b. (((r + k - 1) % S) - w) % S = (k - 1 - ((w - r) % S)) % S
  BY <1>a, DistanceToWrite, Zenon
<1>2. (((r + k - 1) % S) - w) % S = (k - 1 - U) % S
  BY <1>b, Zenon
<1> HIDE DEF x
<1>3. x % S = x
  BY <1>1, SmallRemainder
<1>4. (((r + k - 1) % S) - w) % S = x % S
  BY <1>2, Zenon DEF x
<1> QED BY <1>3, <1>4 DEF x

LEMMA UsedAfterWrite ==
  ASSUME NEW S \in Nat \ {0}, NEW r \in Int, NEW w \in Int, NEW D \in Nat,
         ((w - r) % S) + D <= S - 1
  PROVE  (((w + D) % S) - r) % S = ((w - r) % S) + D
<1> DEFINE a == w + D
           c == 0 - r
           b == w - r
           e == (b % S) + D
<1>1. a \in Int /\ c \in Int /\ b \in Int /\ D \in Int /\ a + c = b + D
  OBVIOUS
<1>2. a % S \in Int /\ b % S \in Nat
  BY <1>1, Remainder
<1>3. (a % S) + c = (a % S) - r /\ e \in 0 .. S - 1
  BY <1>2
<1> HIDE DEF a, c, b
<1>4. ((a % S) + c) % S = (a + c) % S
  BY <1>1, RemainderOfSum
<1>5. ((b % S) + D) % S = (b + D) % S
  BY <1>1, RemainderOfSum
<1>6. e % S = e
  BY <1>3, SmallRemainder
<1>7. ((a % S) - r) % S = e
  BY <1>1, <1>3, <1>4, <1>5, <1>6
<1> QED BY <1>7 DEF a, b, e

LEMMA UsedAfterRead ==
  ASSUME NEW S \in Nat \ {0}, NEW r \in Int, NEW w \in Int, NEW c \in Nat, c <= (w - r) % S
  PROVE  (w - ((r + c) % S)) % S = ((w - r) % S) - c
<1> DEFINE a == r + c
           b == w - r
           d == 0 - c
           e == (b % S) - c
<1>1. a \in Int /\ b \in Int /\ d \in Int /\ w - a = b + d
  OBVIOUS
<1>2. b % S \in 0 .. S - 1
  BY <1>1, Remainder
<1>3. e \in 0 .. S - 1 /\ (b % S) + d = e
  BY <1>2
<1> HIDE DEF a, b, d, e
<1>4. (w - (a % S)) % S = (w - a) % S
  BY <1>1, RemainderOfDifference
<1>5. ((b % S) + d) % S = (b + d) % S
  BY <1>1, RemainderOfSum
<1>6. e % S = e
  BY <1>3, SmallRemainder
<1>7. (w - (a % S)) % S = e
  BY <1>1, <1>3, <1>4, <1>5, <1>6
<1> QED BY <1>7 DEF a, b, e

LEMMA PlaceAfterRead ==
  ASSUME NEW S \in Nat \ {0}, NEW r \in Int, NEW c \in Int, NEW k \in Int
  PROVE  (((r + c) % S) + k - 1) % S = (r + (c + k) - 1) % S
<1> DEFINE a == r + c
           e == k - 1
<1>1. a \in Int /\ e \in Int /\ a + e = r + (c + k) - 1
  OBVIOUS
<1>2. a % S \in Int
  BY <1>1, Remainder
<1>3. (a % S) + k - 1 = (a % S) + e
  BY <1>2
<1> HIDE DEF a, e
<1>4. ((a % S) + e) % S = (a + e) % S
  BY <1>1, RemainderOfSum
<1>5. ((a % S) + k - 1) % S = (r + (c + k) - 1) % S
  BY <1>1, <1>3, <1>4
<1> QED BY <1>5 DEF a

-----------------------------------------------------------------------------
(* Whole frames. *)

\* WholeFrames for a given number of channels.
Aligned(s, C) ==
  \A k \in DOMAIN s :
    /\ s[k][1] >= 0
    /\ s[k][2] % C = (k - 1) % C
    /\ (k - 1) % C /= 0 => s[k][1] = s[k - 1][1]

\* Moving by whole frames changes no remainder.
LEMMA FrameShift ==
  ASSUME NEW C \in Nat \ {0}, NEW a \in Int, NEW x \in Int, a % C = 0
  PROVE  (a + x) % C = x % C
<1>1. ((a % C) + x) % C = (a + x) % C
  BY RemainderOfSum
<1>2. (a % C) + x = x
  OBVIOUS
<1> QED BY <1>1, <1>2

LEMMA FramesDifference ==
  ASSUME NEW C \in Nat \ {0}, NEW a \in Int, NEW b \in Int, a % C = 0, b % C = 0
  PROVE  (a - b) % C = 0
<1>1. (a - (b % C)) % C = (a - b) % C
  BY RemainderOfDifference
<1>2. a - (b % C) = a
  OBVIOUS
<1> QED BY <1>1, <1>2

LEMMA MultipleRemainder ==
  ASSUME NEW C \in Nat \ {0}, NEW k \in Int
  PROVE  (k * C) % C = 0
<1> DEFINE x == k * C
<1>1. x \in Int /\ x = C * k + 0 /\ 0 \in 0 .. C - 1
  OBVIOUS
<1> HIDE DEF x
<1>2. x % C = 0
  BY <1>1, RemainderUnique
<1> QED BY <1>2 DEF x

LEMMA SequenceOf ==
  ASSUME NEW D \in Nat, NEW f \in [1 .. D -> Cells]
  PROVE  f \in Seq(Cells) /\ Len(f) = D
OBVIOUS

\* D cells of packet n from cell d on.
LEMMA BlockCells ==
  ASSUME NEW D \in Nat, NEW n \in Nat, NEW d \in Nat
  PROVE  [k \in 1 .. D |-> <<n, d + k - 1>>] \in Seq(Cells) /\ Len([k \in 1 .. D |-> <<n, d + k - 1>>]) = D
<1> DEFINE t == [k \in 1 .. D |-> <<n, d + k - 1>>]
<1>1. ASSUME NEW k \in 1 .. D PROVE <<n, d + k - 1>> \in Cells
  BY DEF Cells
<1>2. t \in [1 .. D -> Cells]
  BY <1>1, Zenon
<1> HIDE DEF t
<1>3. t \in Seq(Cells) /\ Len(t) = D
  BY <1>2, SequenceOf
<1> QED BY <1>3 DEF t

\* q ends where cell d of packet n goes: whole frames, and the first d cells of the packet.
Precedes(q, C, d, n) ==
  Aligned(q, C) /\ Len(q) % C = d % C /\ (d > 0 /\ q /= << >> => q[Len(q)][1] = n)

\* Cells d + 1 and on of packet n, behind those of whole frames and the first d of the packet.
LEMMA AlignedAppend ==
  ASSUME NEW C \in Nat \ {0}, NEW q \in Seq(Cells), NEW d \in Nat, NEW n \in Nat, Precedes(q, C, d, n),
         NEW D \in Nat
  PROVE  Aligned(q \o [k \in 1 .. D |-> <<n, d + k - 1>>], C)
<1>0. Aligned(q, C) /\ Len(q) % C = d % C /\ (d > 0 /\ q /= << >> => q[Len(q)][1] = n)
  BY DEF Precedes
<1> DEFINE t == [k \in 1 .. D |-> <<n, d + k - 1>>]
           L == Len(q)
           s == q \o t
<1>1. t \in Seq(Cells) /\ Len(t) = D /\ L \in Nat
  <2>1. t \in Seq(Cells) /\ Len(t) = D
    BY BlockCells, Zenon
  <2>2. L \in Nat
    OBVIOUS
  <2> QED BY <2>1, <2>2
<1>2. ASSUME NEW k \in 1 .. L PROVE s[k] = q[k]
  BY <1>1
<1>3. ASSUME NEW m \in 1 .. D PROVE s[L + m] = <<n, d + m - 1>>
  <2>1. s[L + m] = t[m]
    BY <1>1
  <2> QED BY <2>1
<1>4. DOMAIN s = 1 .. L + D
  BY <1>1
<1> HIDE DEF s, t
<1>5. ASSUME NEW k \in 1 .. L + D
      PROVE  s[k][1] >= 0 /\ s[k][2] % C = (k - 1) % C /\ ((k - 1) % C /= 0 => s[k][1] = s[k - 1][1])
  <2>1. CASE k \in 1 .. L
    <3>0. k \in DOMAIN q
      BY <2>1
    <3>1. q[k][1] >= 0 /\ q[k][2] % C = (k - 1) % C /\ ((k - 1) % C /= 0 => q[k][1] = q[k - 1][1])
      BY <1>0, <3>0, Zenon DEF Aligned
    <3>2. CASE k = 1
      <4>1. (k - 1) % C = 0
        BY <3>2, ZeroRemainder
      <4> QED BY <1>2, <2>1, <3>1, <4>1
    <3>3. CASE k /= 1
      <4>1. k - 1 \in 1 .. L
        BY <2>1, <3>3
      <4> QED BY <1>2, <2>1, <3>1, <4>1
    <3> QED BY <3>2, <3>3
  <2>2. CASE k \notin 1 .. L
    <3> DEFINE m == k - L
               x == m - 1
    <3>1. /\ m \in 1 .. D /\ k = L + m /\ x \in Int /\ k - 1 = L + x /\ L \in Int /\ d \in Int
          /\ d + m - 1 = d + x
      BY <1>1, <2>2
    <3>2. s[k] = <<n, d + x>>
      BY <1>3, <3>1
    <3> HIDE DEF m, x
    <3>3. (L + x) % C = (d + x) % C
      <4>1. ((L % C) + x) % C = (L + x) % C
        BY <3>1, RemainderOfSum
      <4>2. ((d % C) + x) % C = (d + x) % C
        BY <3>1, RemainderOfSum
      <4> QED BY <1>0, <4>1, <4>2
    <3>4. s[k][1] = n /\ s[k][2] = d + x
      BY <3>2
    <3>5. (k - 1) % C /= 0 => s[k - 1][1] = n
      <4>1. CASE m = 1
        <5>1. k - 1 = L
          BY <1>1, <3>1, <4>1
        <5>2. ASSUME L % C /= 0 PROVE s[L][1] = n
          <6>1. d /= 0
            BY <1>0, <5>2, ZeroRemainder
          <6>2. L /= 0
            BY <5>2, ZeroRemainder
          <6>3. d > 0 /\ L \in 1 .. L
            BY <1>1, <6>1, <6>2
          <6>4. s[L] = q[L] /\ q /= << >>
            BY <1>2, <6>2, <6>3
          <6> QED BY <1>0, <6>3, <6>4
        <5> QED BY <5>1, <5>2
      <4>2. CASE m /= 1
        <5>1. m - 1 \in 1 .. D /\ k - 1 = L + (m - 1)
          BY <1>1, <3>1, <4>2
        <5>2. s[k - 1] = <<n, d + (m - 1) - 1>>
          BY <1>3, <5>1
        <5> QED BY <5>2
      <4> QED BY <4>1, <4>2
    <3>6. s[k][2] % C = (k - 1) % C
      BY <3>1, <3>3, <3>4, Zenon
    <3>7. s[k][1] >= 0 /\ ((k - 1) % C /= 0 => s[k][1] = s[k - 1][1])
      <4>1. n >= 0
        OBVIOUS
      <4> QED BY <3>4, <3>5, <4>1, Zenon
    <3> QED BY <3>6, <3>7
  <2> QED BY <2>1, <2>2
<1>6. Aligned(s, C)
  BY <1>4, <1>5 DEF Aligned
<1> QED BY <1>6 DEF s, t

\* Cells k0 + 1 and on of q, as a sequence of their own.
LEMMA AlignedPart ==
  ASSUME NEW C \in Nat \ {0}, NEW q \in Seq(Cells), Aligned(q, C), NEW k0 \in Nat, k0 % C = 0,
         NEW s \in Seq(Cells), k0 + Len(s) <= Len(q), \A k \in 1 .. Len(s) : s[k] = q[k0 + k]
  PROVE  Aligned(s, C)
<1> DEFINE M == Len(s)
<1>1. M \in Nat /\ Len(q) \in Nat /\ DOMAIN s = 1 .. M /\ DOMAIN q = 1 .. Len(q)
  OBVIOUS
<1>2. ASSUME NEW k \in 1 .. M
      PROVE  s[k][1] >= 0 /\ s[k][2] % C = (k - 1) % C /\ ((k - 1) % C /= 0 => s[k][1] = s[k - 1][1])
  <2> DEFINE j == k0 + k
             x == k - 1
  <2>1. j \in 1 .. Len(q) /\ x \in Int /\ k0 \in Int /\ j - 1 = k0 + x
    BY <1>1
  <2>2. (k0 + x) % C = x % C
    BY <2>1, FrameShift
  <2>3. s[k] = q[j]
    OBVIOUS
  <2> HIDE DEF j
  <2>4. q[j][1] >= 0 /\ q[j][2] % C = (j - 1) % C /\ ((j - 1) % C /= 0 => q[j][1] = q[j - 1][1])
    BY <1>1, <2>1 DEF Aligned
  <2>5. (j - 1) % C = (k - 1) % C
    BY <2>1, <2>2
  <2>6. (k - 1) % C /= 0 => s[k - 1] = q[j - 1]
    <3>1. CASE k = 1
      <4>1. (k - 1) % C = 0
        BY <3>1, ZeroRemainder
      <4> QED BY <4>1
    <3>2. CASE k /= 1
      <4>1. k - 1 \in 1 .. M /\ j - 1 = k0 + (k - 1)
        BY <1>1, <2>1, <3>2
      <4> QED BY <4>1
    <3> QED BY <3>1, <3>2
  <2> QED BY <2>3, <2>4, <2>5, <2>6
<1> QED BY <1>1, <1>2 DEF Aligned

-----------------------------------------------------------------------------
(* The byte ring. *)

LEMMA RingBasics ==
  ASSUME RingType
  PROVE  /\ RingSize \in Nat \ {0} /\ read_ptr \in Int /\ write_ptr \in Int
         /\ Used \in 0 .. RingSize - 1 /\ Used = (write_ptr - read_ptr) % RingSize
<1>1. RingSize \in Nat \ {0} /\ read_ptr \in Int /\ write_ptr \in Int /\ write_ptr - read_ptr \in Int
  BY Constants DEF RingType
<1>2. (write_ptr - read_ptr) % RingSize \in 0 .. RingSize - 1
  BY <1>1, Remainder
<1> QED BY <1>1, <1>2 DEF Used

LEMMA LengthOfDomain ==
  ASSUME NEW q \in Seq(Cells), NEW U \in Nat, DOMAIN q = 1 .. U
  PROVE  Len(q) = U
OBVIOUS

LEMMA AppendFacts ==
  ASSUME NEW q \in Seq(Cells), NEW t \in Seq(Cells)
  PROVE  /\ q \o t \in Seq(Cells) /\ Len(q \o t) = Len(q) + Len(t)
         /\ \A k \in 1 .. Len(q) : (q \o t)[k] = q[k]
         /\ \A k \in Len(q) + 1 .. Len(q) + Len(t) : (q \o t)[k] = t[k - Len(q)]
OBVIOUS

LEMMA RingFacts ==
  ASSUME RingType, RingIsQueue, ~ raced, phase /= "reset"
  PROVE  /\ Used \in 0 .. RingSize - 1 /\ Len(queue) = Used
         /\ \A k \in 1 .. Used : queue[k] = buf[(read_ptr + k - 1) % RingSize]
<1>1. Used \in 0 .. RingSize - 1 /\ RingSize \in Nat
  BY RingBasics
<1>2. queue = [k \in 1 .. Used |-> buf[(read_ptr + k - 1) % RingSize]] /\ queue \in Seq(Cells)
  BY DEF RingIsQueue, RingType
<1> DEFINE U == Used
<1>3. U \in Nat
  BY <1>1
<1>4. DOMAIN queue = 1 .. U
  BY <1>2
<1> HIDE DEF U
<1>q. queue \in Seq(Cells)
  BY <1>2
<1>5. Len(queue) = U
  BY <1>3, <1>4, <1>q, LengthOfDomain
<1>6. \A k \in 1 .. Used : queue[k] = buf[(read_ptr + k - 1) % RingSize]
  BY <1>2, Zenon
<1> QED BY <1>1, <1>5, <1>6 DEF U

\* A sequence is the function of its elements.
LEMMA SequenceIsFunction ==
  ASSUME NEW q \in Seq(Cells), NEW f, DOMAIN f = 1 .. Len(q), f = [k \in DOMAIN f |-> f[k]],
         \A k \in 1 .. Len(q) : q[k] = f[k]
  PROVE  q = f
OBVIOUS

\* A block of a packet written behind the cells in the ring.
LEMMA BlockAppended ==
  ASSUME RingType, RingIsQueue, ~ raced, phase /= "reset", NEW D \in Nat, Used + D <= RingSize - 1,
         NEW n \in Nat, NEW d \in Nat,
         buf' = [i \in DOMAIN buf |->
                   IF (i - write_ptr) % RingSize < D THEN <<n, d + ((i - write_ptr) % RingSize)>> ELSE buf[i]],
         queue' = queue \o [k \in 1 .. D |-> <<n, d + k - 1>>],
         write_ptr' = (write_ptr + D) % RingSize, read_ptr' = read_ptr
  PROVE  Used' = Used + D /\ queue' = [k \in 1 .. Used' |-> buf'[(read_ptr' + k - 1) % RingSize]]
<1> DEFINE S == RingSize
           r == read_ptr
           w == write_ptr
           U == Used
           t == [k \in 1 .. D |-> <<n, d + k - 1>>]
<1>0. /\ S \in Nat \ {0} /\ r \in Int /\ w \in Int /\ U \in 0 .. S - 1 /\ U = (w - r) % S
      /\ DOMAIN buf = 0 .. S - 1
  BY RingBasics DEF RingType
<1>1. /\ Len(queue) = U /\ queue \in Seq(Cells)
      /\ \A k \in 1 .. U : queue[k] = buf[(r + k - 1) % S]
  BY RingFacts DEF RingType
<1>2. Used' = U + D
  <2> HIDE DEF U, S, r, w
  <2>1. (((w + D) % S) - r) % S = U + D
    <3>1. ((w - r) % S) + D <= S - 1
      BY <1>0 DEF U, S
    <3>2. (((w + D) % S) - r) % S = ((w - r) % S) + D
      BY <1>0, <3>1, UsedAfterWrite
    <3> QED BY <1>0, <3>2
  <2> QED BY <2>1 DEF Used, U, S, r, w
<1>3. t \in Seq(Cells) /\ Len(t) = D
  BY BlockCells
<1>4. queue' \in Seq(Cells) /\ Len(queue') = U + D
  <2>1. queue' = queue \o t
    OBVIOUS
  <2> HIDE DEF t
  <2> QED BY <1>1, <1>3, <2>1, AppendFacts
<1>5. ASSUME NEW k \in 1 .. U + D PROVE queue'[k] = buf'[(r + k - 1) % S]
  <2> DEFINE i == (r + k - 1) % S
             g == (i - w) % S
  <2>1. i \in 0 .. S - 1
    <3>1. r + k - 1 \in Int
      BY <1>0
    <3> QED BY <1>0, <3>1, Remainder
  <2>2. buf'[i] = IF g < D THEN <<n, d + g>> ELSE buf[i]
    BY <1>0, <2>1
  <2>3. CASE k \in 1 .. U
    <3>1. g = (k - 1 - U) + S
      <4> HIDE DEF U, S, r, w
      <4> QED BY <1>0, <2>3, CellsNotOverwritten, ZenonT(40) DEF i, g
    <3>2. ~ (g < D)
      <4>1. U + D <= S - 1 /\ U \in Nat /\ S \in Nat
        BY <1>0
      <4> HIDE DEF U, S, g
      <4> QED BY <2>3, <3>1, <4>1
    <3>3. queue'[k] = queue[k]
      <4>1. queue' = queue \o t
        OBVIOUS
      <4> HIDE DEF t
      <4> QED BY <1>1, <1>3, <2>3, <4>1, AppendFacts
    <3> HIDE DEF g, i
    <3>4. queue[k] = buf[i]
      BY <1>1, <2>3 DEF i
    <3>5. buf'[i] = buf[i]
      BY <2>2, <3>2
    <3> QED BY <3>3, <3>4, <3>5 DEF i
  <2>4. CASE k \notin 1 .. U
    <3>0. k \in U + 1 .. S /\ k - U \in 1 .. D
      <4>1. U + D <= S - 1 /\ U \in Nat /\ S \in Nat
        BY <1>0
      <4> HIDE DEF U, S
      <4> QED BY <2>4, <4>1
    <3>1. g = k - 1 - U
      <4> HIDE DEF U, S, r, w
      <4> QED BY <1>0, <3>0, CellsWritten, ZenonT(40) DEF i, g
    <3>2. g < D
      <4>1. U \in Nat
        BY <1>0
      <4> HIDE DEF U, g
      <4> QED BY <3>0, <3>1, <4>1
    <3>3. queue'[k] = t[k - U]
      <4>1. U \in Nat /\ k \in Len(queue) + 1 .. Len(queue) + Len(t)
        BY <1>0, <1>1, <1>3, <3>0
      <4> HIDE DEF U, t
      <4>2. queue' = queue \o t
        BY DEF t
      <4>3. (queue \o t)[k] = t[k - Len(queue)]
        BY <1>1, <1>3, <4>1, AppendFacts
      <4> QED BY <1>1, <4>2, <4>3
    <3>4. t[k - U] = <<n, d + (k - U) - 1>>
      BY <3>0
    <3>5. d + (k - U) - 1 = d + (k - 1 - U)
      BY <1>0
    <3> HIDE DEF g, i, U, t
    <3>6. buf'[i] = <<n, d + g>>
      BY <2>2, <3>2
    <3>7. queue'[k] = buf'[i]
      BY <3>1, <3>3, <3>4, <3>5, <3>6, Zenon
    <3> QED BY <3>7 DEF i
  <2> QED BY <2>3, <2>4
<1>6. queue' = [k \in 1 .. U + D |-> buf'[(r + k - 1) % S]]
  <2> DEFINE f == [k \in 1 .. U + D |-> buf'[(r + k - 1) % S]]
  <2>1. DOMAIN f = 1 .. U + D /\ f = [k \in DOMAIN f |-> f[k]] /\ \A k \in 1 .. U + D : queue'[k] = f[k]
    BY <1>5, Zenon
  <2> HIDE DEF f
  <2>2. DOMAIN f = 1 .. Len(queue') /\ \A k \in 1 .. Len(queue') : queue'[k] = f[k]
    BY <1>4, <2>1
  <2>3. queue' = f
    BY <1>4, <2>1, <2>2, SequenceIsFunction
  <2> QED BY <2>3 DEF f
<1> QED BY <1>2, <1>6

\* The pointer a block leaves behind.
LEMMA AdvancedFacts ==
  ASSUME NEW l \in 0 .. RingSize - 1, NEW c \in 0 .. RingSize - 1, NEW n \in Nat, NEW p \in Advanced(l, c, n)
  PROVE  p \in 0 .. RingSize - 1 /\ (~ raced /\ l = c => p = (l + n) % RingSize)
<1>0. RingSize \in Nat \ {0} /\ l \in Int /\ c \in Int
  BY Constants
<1>1. CASE n = 0
  <2>1. p = c
    BY <1>1 DEF Advanced
  <2>2. l + n = l /\ l % RingSize = l
    BY <1>0, <1>1, SmallRemainder
  <2> QED BY <2>1, <2>2
<1>2. CASE n /= 0
  <2>1. PICK q \in (IF raced THEN {l, c} ELSE {l}) : p = (q + n) % RingSize
    BY <1>2 DEF Advanced
  <2>2. q + n \in Int
    BY <1>0, <2>1
  <2>3. p \in 0 .. RingSize - 1
    BY <1>0, <2>1, <2>2, Remainder
  <2> QED BY <2>1, <2>3
<1> QED BY <1>1, <1>2

LEMMA AlignedIs ==
  ASSUME NEW s
  PROVE  WholeFrames(s) <=> Aligned(s, currentNumberOfChannels)
BY DEF WholeFrames, Aligned

LEMMA AppendAssociative ==
  ASSUME NEW a \in Seq(Cells), NEW b \in Seq(Cells), NEW c \in Seq(Cells)
  PROVE  a \o (b \o c) = (a \o b) \o c
OBVIOUS

\* A block of n cells of packet m, from cell d on, whole frames and the beginning of the
\* packet before it.
LEMMA AlignedBlock ==
  ASSUME NEW C \in Nat \ {0}, NEW g \in Seq(Cells), NEW q \in Seq(Cells), NEW m \in Nat, NEW d \in Nat,
         NEW n \in Nat, Precedes(g \o q, C, d, m)
  PROVE  Precedes(g \o (q \o [k \in 1 .. n |-> <<m, d + k - 1>>]), C, d + n, m)
<1> DEFINE s == g \o q
           t == [k \in 1 .. n |-> <<m, d + k - 1>>]
           r == g \o (q \o t)
<1>0. s \in Seq(Cells) /\ t \in Seq(Cells) /\ Len(t) = n /\ Len(s) \in Nat
  <2>1. t \in Seq(Cells) /\ Len(t) = n
    BY BlockCells, Zenon
  <2>2. s \in Seq(Cells)
    BY AppendFacts
  <2>3. Len(s) \in Nat
    BY <2>2
  <2> QED BY <2>1, <2>2, <2>3
<1>1. r = s \o t
  <2> HIDE DEF t
  <2> QED BY <1>0, AppendAssociative
<1>2. Precedes(s, C, d, m)
  OBVIOUS
<1>b. t = [k \in 1 .. n |-> <<m, d + k - 1>>]
  OBVIOUS
<1> HIDE DEF s, t, r
<1>3. Aligned(r, C) /\ Len(s) % C = d % C /\ (d > 0 /\ s /= << >> => s[Len(s)][1] = m)
  <2>1. Aligned(s \o [k \in 1 .. n |-> <<m, d + k - 1>>], C)
    BY <1>0, <1>2, AlignedAppend, Zenon
  <2>2. Aligned(r, C)
    BY <1>1, <1>b, <2>1
  <2> QED BY <1>2, <2>2 DEF Precedes
<1>4. Len(r) = Len(s) + n
  BY <1>0, <1>1, AppendFacts
<1>5. (Len(s) + n) % C = (d + n) % C
  <2>1. Len(s) \in Int /\ d \in Int /\ n \in Int
    BY <1>0
  <2>2. ((Len(s) % C) + n) % C = (Len(s) + n) % C
    BY <2>1, RemainderOfSum
  <2>3. ((d % C) + n) % C = (d + n) % C
    BY <2>1, RemainderOfSum
  <2> QED BY <1>3, <2>2, <2>3
<1>6. ASSUME n > 0 PROVE r[Len(r)][1] = m
  <2>1. Len(s) + n \in Len(s) + 1 .. Len(s) + Len(t) /\ (Len(s) + n) - Len(s) = n /\ n \in 1 .. n
    BY <1>0, <1>6
  <2>2. r[Len(s) + n] = t[n]
    BY <1>0, <1>1, <2>1, AppendFacts
  <2>3. t[n] = <<m, d + n - 1>>
    BY <1>b, <2>1, Zenon
  <2>4. t[n][1] = m
    BY <2>3
  <2> QED BY <1>4, <2>2, <2>4
<1>7. d + n > 0 /\ r /= << >> => r[Len(r)][1] = m
  <2>1. CASE n > 0
    BY <1>6, <2>1
  <2>2. CASE ~ (n > 0)
    <3>1. n = 0 /\ t = << >>
      BY <1>0, <2>2
    <3>2. r = s
      BY <1>0, <1>1, <3>1
    <3> QED BY <1>3, <3>1, <3>2
  <2> QED BY <2>1, <2>2
<1>8. Precedes(r, C, d + n, m)
  BY <1>3, <1>4, <1>5, <1>7 DEF Precedes
<1> QED BY <1>8 DEF r, t

LEMMA WriteBlockInductive ==
  ASSUME Inductive, WriteBlock
  PROVE  Inductive'
<1>0. /\ MainType /\ FlagType /\ PacketsType /\ CaptureType /\ FormatType /\ CounterType
      /\ RingType /\ CallbackType
      /\ MainStages /\ Slots /\ Books /\ Formats /\ Rings
  BY Parts
<1> DEFINE m == Pending(0).packet.n
           S == RingSize
           C == currentNumberOfChannels
           p == wload.ptr
           d == wload.done
           c == wload.cells
           n == Least(c - d, S - p)
           t == [k \in 1 .. n |-> <<m, d + k - 1>>]
<1>c. cap = "copy" /\ Counted
  BY DEF WriteBlock, Counted
<1>2. /\ kept > handled /\ Pending(0) = rx[rxring_offset] /\ m \in Nat
      /\ dataSize = PacketCells(Pending(0).packet.width)
  BY <1>0, <1>c, CurrentPacket
<1>1. /\ UNCHANGED <<main, isRunning, format, counters, read_ptr, callback, raced>>
      /\ buf' = [i \in DOMAIN buf |-> IF (i - p) % S < n THEN <<m, d + ((i - p) % S)>> ELSE buf[i]]
      /\ queue' = queue \o t
      /\ write_ptr' \in Advanced(p, write_ptr, n)
      /\ \/ /\ d + n < c /\ wload' = [ptr |-> write_ptr', done |-> d + n, cells |-> c]
            /\ UNCHANGED <<cap, packets>>
         \/ d + n = c /\ Done /\ wload' = NoWrite
  BY <1>2 DEF WriteBlock
<1>3. C \in Widths /\ C \in Nat \ {0} /\ dataSize = FramesPerPacket * C /\ FramesPerPacket \in Nat
  <2>1. C /= 0
    BY <1>0, <1>c DEF Formats, FormatStages
  <2>2. C \in Widths /\ dataSize = PacketCells(C)
    BY <1>0, <2>1 DEF FormatType
  <2> QED BY <2>2, Constants, PacketCellsFacts
<1>4. /\ S \in Nat \ {0} /\ p \in 0 .. S - 1 /\ d \in Nat /\ c \in Nat /\ d <= c
      /\ write_ptr \in 0 .. S - 1 /\ DOMAIN buf = 0 .. S - 1 /\ 0 \in 0 .. S - 1
      /\ buf \in [0 .. S - 1 -> Cells] /\ queue \in Seq(Cells)
  BY <1>0, Constants DEF CaptureType, RingType
<1>5. n \in Nat /\ n <= c - d /\ (d + n < c => n = S - p) /\ d + n \in Nat /\ d + n <= c
  <2> HIDE DEF d, c, p, S
  <2> QED BY <1>4 DEF Least
<1> HIDE DEF n
<1>6. write_ptr' \in 0 .. S - 1 /\ (~ raced /\ p = write_ptr => write_ptr' = (p + n) % S)
  BY <1>1, <1>4, <1>5, AdvancedFacts
<1> HIDE DEF m, C, p, d, c
<1>7. t \in Seq(Cells) /\ Len(t) = n
  BY <1>2, <1>4, <1>5, BlockCells, ZenonT(40)
<1>t. t = [k \in 1 .. n |-> <<m, d + k - 1>>]
  OBVIOUS
<1> HIDE DEF t
<1>8. RingType'
  <2>1. ASSUME NEW i \in 0 .. S - 1
        PROVE  (IF (i - p) % S < n THEN <<m, d + ((i - p) % S)>> ELSE buf[i]) \in Cells
    <3>1. (i - p) % S \in Nat
      <4>1. i - p \in Int
        BY <1>4
      <4> QED BY <1>4, <4>1, Remainder
    <3>2. <<m, d + ((i - p) % S)>> \in Cells
      BY <1>2, <1>4, <3>1 DEF Cells
    <3>3. buf[i] \in Cells
      BY <1>4
    <3> QED BY <3>2, <3>3, Zenon
  <2>2. buf' \in [0 .. S - 1 -> Cells]
    BY <1>1, <1>4, <2>1, Zenon
  <2>3. queue' \in Seq(Cells)
    BY <1>1, <1>4, <1>7, AppendFacts
  <2> QED BY <1>0, <1>1, <1>6, <2>2, <2>3 DEF RingType
<1>n. noted' = noted /\ wire' = wire
  BY <1>1 DEF counters, packets, Done
<1>9. PacketsType' /\ Slots'
  <2>1. CASE UNCHANGED <<cap, packets>>
    BY <1>0, <1>1, <1>n, <2>1, SlotsKept, TypesKept DEF format, Counted
  <2>2. CASE Done
    BY <1>0, <1>2, <1>n, <2>2, DoneSlots
  <2> QED BY <1>1, <2>1, <2>2
<1>k. cap' \in {"copy", "test"}
  BY <1>1, <1>c DEF Done
<1>10. Books'
  BY <1>0, <1>1, <1>c, <1>k, <1>n, BooksKept
<1>11. Formats'
  <2>1. currentNumberOfChannels /= 0 /\ dataSize /= 0
    BY <1>0, <1>c DEF Formats, FormatStages
  <2> QED BY <1>0, <1>1, <1>c, <1>k, <2>1 DEF Formats, FormatStages, FormatPortsWritten, format, callback,
         Counted
<1>w. CaptureType' /\ (cap' /= "copy" => wload' = NoWrite)
  <2>1. CASE /\ d + n < c /\ wload' = [ptr |-> write_ptr', done |-> d + n, cells |-> c]
             /\ UNCHANGED <<cap, packets>>
    <3>1. wload' \in [ptr : 0 .. RingSize - 1, done : Nat, cells : Nat]
      BY <1>4, <1>5, <1>6, <2>1, Zenon DEF S
    <3>2. wload'.done <= wload'.cells
      BY <1>5, <2>1
    <3> QED BY <1>c, <2>1, <3>1, <3>2 DEF CaptureType
  <2>2. CASE d + n = c /\ Done /\ wload' = NoWrite
    <3>1. wload' \in [ptr : 0 .. RingSize - 1, done : Nat, cells : Nat] /\ wload'.done <= wload'.cells
      BY <1>4, <2>2 DEF NoWrite, S
    <3> QED BY <2>2, <3>1 DEF CaptureType, Done
  <2> QED BY <1>1, <2>1, <2>2
<1>12. Rings'
  <2>0. UNCHANGED <<phase, cb, want, rload, cycle, dataSize, currentNumberOfChannels>>
    BY <1>1 DEF main, callback, format
  <2>1. WholeFramesPlayed'
    BY <1>0, <1>1, <2>0 DEF Rings, WholeFramesPlayed, WholeFrames
  <2>r. cb' /= "copy" => rload' = NoRead
    BY <1>0, <2>0 DEF Rings, RingStages
  <2>2. CASE raced
    BY <1>1, <1>w, <2>1, <2>2, <2>r DEF Rings, RingIsQueue, RingStages
  <2>3. CASE ~ raced
    <3>1. /\ phase /= "reset" /\ p = write_ptr /\ c = dataSize /\ c - d <= S - 1 - Used
          /\ cb = "copy" => rload.ptr = read_ptr /\ rload.cells - Len(rload.got) <= Used
          /\ cb = "checked" => want <= Used \/ read_ptr = 0
          /\ FramesAligned
      BY <1>0, <1>c, <1>3, <2>3 DEF Rings, RingStages, RingInUse, p, c, d, C
    <3>2. Used \in 0 .. S - 1 /\ RingIsQueue /\ Used + n <= S - 1
      <4>1. Used \in 0 .. S - 1
        BY <1>0, RingBasics
      <4>2. Used + n <= S - 1
        BY <1>4, <1>5, <3>1, <4>1
      <4> QED BY <1>0, <4>1, <4>2 DEF Rings
    <3>3. Used' = Used + n /\ queue' = [k \in 1 .. Used' |-> buf'[(read_ptr' + k - 1) % RingSize]]
      <4>1. /\ buf' = [i \in DOMAIN buf |->
                        IF (i - write_ptr) % RingSize < n THEN <<m, d + ((i - write_ptr) % RingSize)>> ELSE buf[i]]
            /\ write_ptr' = (write_ptr + n) % RingSize /\ read_ptr' = read_ptr
        BY <1>1, <1>6, <2>3, <3>1
      <4>2. queue' = queue \o [k \in 1 .. n |-> <<m, d + k - 1>>]
        BY <1>1, <1>t
      <4> QED BY <1>0, <1>2, <1>4, <1>5, <2>3, <3>1, <3>2, <4>1, <4>2, BlockAppended
    <3>4. RingIsQueue'
      BY <3>3 DEF RingIsQueue
    <3> DEFINE g == rload.got
    <3>5. g \in Seq(Cells)
      BY <1>0 DEF CallbackType
    <3>6. /\ Aligned(g \o queue, C) /\ Len(g \o queue) % C = d % C
          /\ d > 0 /\ g \o queue /= << >> => (g \o queue)[Len(g \o queue)][1] = m
          /\ want % C = 0 /\ rload.cells % C = 0
      BY <3>1, AlignedIs DEF FramesAligned, C, d, m
    <3> HIDE DEF g
    <3>7. /\ Aligned(g \o queue', C) /\ Len(g \o queue') % C = (d + n) % C
          /\ n > 0 => (g \o queue')[Len(g \o queue')][1] = m
      <4>1. Precedes(g \o queue, C, d, m)
        BY <3>6 DEF Precedes
      <4>2. C \in Nat \ {0} /\ queue \in Seq(Cells) /\ m \in Nat /\ d \in Nat /\ n \in Nat
        BY <1>2, <1>3, <1>4, <1>5
      <4> DEFINE r == g \o (queue \o [k \in 1 .. n |-> <<m, d + k - 1>>])
      <4>3. Precedes(r, C, d + n, m)
        BY <3>5, <4>1, <4>2, AlignedBlock, Zenon
      <4>4. r = g \o queue'
        BY <1>1, <1>t
      <4>5. n > 0 => d + n > 0 /\ g \o queue' /= << >>
        <5>1. queue' \in Seq(Cells) /\ Len(queue') = Len(queue) + n
          BY <1>1, <1>7, <4>2, AppendFacts
        <5>2. g \o queue' \in Seq(Cells) /\ Len(g \o queue') = Len(g) + Len(queue')
          BY <3>5, <5>1, AppendFacts
        <5>3. Len(g) \in Nat /\ Len(queue) \in Nat
          BY <3>5, <4>2
        <5>4. n > 0 => d + n > 0 /\ Len(g \o queue') /= 0
          BY <4>2, <5>1, <5>2, <5>3
        <5> QED BY <5>4
      <4> HIDE DEF r
      <4> QED BY <4>3, <4>4, <4>5 DEF Precedes
    <3>8. g = rload'.got /\ C = currentNumberOfChannels' /\ rload' = rload
      BY <2>0 DEF g, C
    <3>a. WholeFrames(rload.got \o queue)'
      BY <3>7, <3>8 DEF WholeFrames, Aligned
    <3>9. /\ cb = "copy" => rload.cells - Len(rload.got) <= Used'
          /\ cb = "checked" => want <= Used' \/ read_ptr = 0
      <4>1. rload.cells \in Nat /\ Len(rload.got) \in Nat /\ want \in Int
        <5>1. BufferFrames * MaxChannels \in Nat
          BY Constants
        <5>2. want \in Int
          BY <1>0, <5>1 DEF CallbackType
        <5> QED BY <1>0, <5>2 DEF CallbackType
      <4>2. Used \in Nat /\ Used' = Used + n
        BY <3>2, <3>3, <1>4
      <4>3. Used' >= Used /\ Used' \in Nat
        BY <1>5, <4>2
      <4> QED BY <3>1, <4>1, <4>2, <4>3
    <3>10. CASE /\ d + n < c /\ wload' = [ptr |-> write_ptr', done |-> d + n, cells |-> c]
                /\ UNCHANGED <<cap, packets>>
      <4>1. write_ptr' = 0 /\ n > 0
        <5>1. n = S - p /\ n > 0 /\ p + n = 0 + S /\ 0 \in Int
          BY <1>4, <1>5, <3>10
        <5>2. (0 + S) % S = 0
          BY <1>4, <5>1, RemainderOfRound, ZeroRemainder
        <5> QED BY <1>6, <2>3, <3>1, <5>1, <5>2
      <4>2. wload'.ptr = write_ptr' /\ wload'.done = d + n /\ wload'.cells = c
        BY <3>10
      <4>3. c - (d + n) <= S - 1 - Used'
        BY <1>4, <1>5, <3>1, <3>2, <3>3
      <4>4. Pending(0)' = Pending(0)
        BY <3>10 DEF Pending, packets
      <4>5. FramesAligned'
        <5>1. (rload'.got \o queue')[Len(rload'.got \o queue')][1] = Pending(0)'.packet.n
          BY <3>7, <3>8, <4>1, <4>4 DEF m
        <5>2. Len(rload'.got \o queue') % currentNumberOfChannels' = wload'.done % currentNumberOfChannels'
          BY <3>7, <3>8, <4>2
        <5> QED BY <2>0, <3>6, <3>8, <3>a, <5>1, <5>2 DEF FramesAligned
      <4>6. wload'.cells - wload'.done <= RingSize - 1 - Used' /\ wload'.cells = dataSize'
        BY <2>0, <3>1, <4>2, <4>3
      <4>7. RingStages'
        BY <1>1, <1>w, <1>c, <2>0, <2>r, <3>1, <3>9, <3>10, <4>1, <4>2, <4>5, <4>6 DEF RingStages
      <4> QED BY <2>1, <3>4, <4>7 DEF Rings
    <3>11. CASE d + n = c /\ Done /\ wload' = NoWrite
      <4>1. cap' = "test" /\ wload'.done = 0
        BY <3>11 DEF Done, NoWrite
      <4>2. (d + n) % C = 0
        <5>1. (FramesPerPacket * C) % C = 0 /\ d + n = FramesPerPacket * C
          BY <1>3, <3>1, <3>11, MultipleRemainder
        <5> QED BY <5>1
      <4>3. FramesAligned'
        <5>1. Len(rload'.got \o queue') % currentNumberOfChannels' = wload'.done % currentNumberOfChannels'
          BY <1>3, <3>7, <3>8, <4>1, <4>2, ZeroRemainder
        <5>2. ~ (wload'.done > 0)
          BY <4>1
        <5> QED BY <2>0, <3>6, <3>8, <3>a, <5>1, <5>2 DEF FramesAligned
      <4>4. RingStages'
        BY <1>1, <1>w, <2>0, <2>r, <3>1, <3>9, <4>1, <4>3 DEF RingStages
      <4> QED BY <2>1, <3>4, <4>4 DEF Rings
    <3> QED BY <1>1, <3>10, <3>11
  <2> QED BY <2>2, <2>3
<1>13. MainType' /\ MainStages'
  BY <1>0, <1>1, <1>c, ThreadControl DEF callback
<1>14. FlagType' /\ FormatType' /\ CounterType' /\ CallbackType'
  BY <1>0, <1>1, TypesKept
<1> QED BY <1>8, <1>9, <1>10, <1>11, <1>12, <1>13, <1>14, <1>w, Assembled

-----------------------------------------------------------------------------
(* process. *)


\* What a step of process leaves to others.
LEMMA CallbackFrame ==
  ASSUME Inductive, UNCHANGED <<main, isRunning, packets, cap, wload, format, counters>>,
         cb' /= "idle" => active
  PROVE  /\ MainType' /\ PacketsType' /\ CaptureType' /\ FormatType' /\ CounterType'
         /\ MainStages' /\ Slots' /\ Books'
<1>0. /\ MainType /\ FlagType /\ PacketsType /\ CaptureType /\ FormatType /\ CounterType
      /\ RingType /\ CallbackType
      /\ MainStages /\ Slots /\ Books /\ Formats /\ Rings
  BY Parts
<1>1. MainType' /\ MainStages'
  BY <1>0, CallbackControl
<1>2. PacketsType' /\ CaptureType' /\ FormatType' /\ CounterType'
  BY <1>0, TypesKept DEF CaptureType
<1>3. Slots'
  BY <1>0, SlotsKept DEF format, counters, Counted
<1>4. Books'
  BY <1>0, BooksKept DEF packets
<1> QED BY <1>1, <1>2, <1>3, <1>4

\* Silence on the ports of a known format, or on all.
LEMMA Silence ==
  ASSUME NEW c \in Nat, silence_outputs(c)
  PROVE  /\ cycle' \in [ports : Nat, cells : Seq(Cells)] /\ cycle'.cells = << >>
         /\ cycle'.ports = c \/ cycle'.ports = MaxChannels
         /\ c = MaxChannels => cycle' = [ports |-> MaxChannels, cells |-> << >>]
<1>1. /\ cycle' = [ports |-> IF c \in 1 .. MaxChannels THEN c ELSE MaxChannels, cells |-> << >>]
      /\ MaxChannels \in Nat \ {0}
  BY Constants DEF silence_outputs
<1>2. << >> \in Seq(Cells)
  OBVIOUS
<1> QED BY <1>1, <1>2

LEMMA EmptyWhole ==
  ASSUME cycle'.cells = << >>
  PROVE  WholeFramesPlayed'
BY DEF WholeFramesPlayed, WholeFrames

LEMMA ProcessSilenceInductive ==
  ASSUME Inductive, NEW nframes \in CycleFrames, ProcessSilence(nframes)
  PROVE  Inductive'
<1>0. /\ MainType /\ FlagType /\ PacketsType /\ CaptureType /\ FormatType /\ CounterType
      /\ RingType /\ CallbackType
      /\ MainStages /\ Slots /\ Books /\ Formats /\ Rings
  BY Parts
<1>1. /\ UNCHANGED <<main, isRunning, packets, cap, wload, format, counters, ring, cb, want, rload, raced>>
      /\ active /\ cb = "idle"
      /\ \/ (currentNumberOfChannels = 0 \/ dataSize = 0) /\ silence_outputs(MaxChannels)
         \/ currentNumberOfChannels /= 0 /\ dataSize /= 0 /\ silence_outputs(currentNumberOfChannels)
  BY DEF ProcessSilence
<1>2. /\ MainType' /\ PacketsType' /\ CaptureType' /\ FormatType' /\ CounterType'
      /\ MainStages' /\ Slots' /\ Books'
  BY <1>1, CallbackFrame
<1>3. /\ cycle' \in [ports : Nat, cells : Seq(Cells)] /\ cycle'.cells = << >>
      /\ cycle'.ports = MaxChannels \/ cycle'.ports = currentNumberOfChannels
      /\ currentNumberOfChannels = 0 => cycle' = [ports |-> MaxChannels, cells |-> << >>]
  <2>1. MaxChannels \in Nat /\ currentNumberOfChannels \in Nat
    BY <1>0, Constants DEF FormatType
  <2> QED BY <1>0, <1>1, <2>1, Silence DEF Formats, FormatStages
<1>4. FlagType' /\ RingType' /\ CallbackType'
  BY <1>0, <1>1, <1>3, TypesKept DEF CallbackType
<1>5. Formats'
  <2>1. FormatPortsWritten'
    <3>1. currentNumberOfChannels \in Nat
      BY <1>0, Constants DEF FormatType
    <3> QED BY <1>1, <1>3, <3>1 DEF FormatPortsWritten, format
  <2> QED BY <1>0, <1>1, <1>3, <2>1 DEF Formats, FormatStages, format, ring, Counted
<1>6. Rings'
  <2> USE DEF ring, format, main
  <2>1. RingIsQueue'
    BY <1>0, <1>1 DEF Rings, RingIsQueue, Used
  <2>a. FramesAligned' <=> FramesAligned
    BY <1>1, AlignedKept DEF Pending, packets
  <2>2. RingStages'
    BY <1>0, <1>1, <2>a DEF Rings, RingStages, RingInUse, RoomForPacket, Used
  <2> QED BY <1>3, <2>1, <2>2, EmptyWhole DEF Rings
<1> QED BY <1>2, <1>4, <1>5, <1>6, Assembled

LEMMA ProcessBeginInductive ==
  ASSUME Inductive, NEW nframes \in CycleFrames, ProcessBegin(nframes)
  PROVE  Inductive'
<1>0. /\ MainType /\ FlagType /\ PacketsType /\ CaptureType /\ FormatType /\ CounterType
      /\ RingType /\ CallbackType
      /\ MainStages /\ Slots /\ Books /\ Formats /\ Rings
  BY Parts
<1> DEFINE C == currentNumberOfChannels
           cells == nframes * C
<1>1. /\ UNCHANGED <<main, isRunning, packets, cap, wload, format, counters, ring, rload, cycle, raced>>
      /\ active /\ cb = "idle" /\ C /= 0 /\ cells <= BufferFrames * MaxChannels
      /\ cb' = "checked" /\ want' = cells /\ Used >= cells
  BY DEF ProcessBegin
<1>2. /\ MainType' /\ PacketsType' /\ CaptureType' /\ FormatType' /\ CounterType'
      /\ MainStages' /\ Slots' /\ Books'
  BY <1>1, CallbackFrame
<1>3. C \in Nat \ {0} /\ nframes \in Nat
  BY <1>0, <1>1, Constants DEF FormatType
<1>4. cells \in Nat /\ cells % C = 0
  BY <1>3, MultipleRemainder
<1>5. Used \in Nat
  BY <1>0, RingBasics
<1> HIDE DEF cells
<1>6. CallbackType'
  <2> DEFINE B == BufferFrames * MaxChannels
  <2>1. B \in Nat
    BY Constants
  <2> HIDE DEF B
  <2>2. cells \in 0 .. B
    BY <1>1, <1>4, <2>1 DEF B
  <2> QED BY <1>0, <1>1, <2>2 DEF CallbackType, B
<1>7. FlagType' /\ RingType'
  BY <1>0, <1>1, TypesKept
<1>8. Formats'
  BY <1>0, <1>1 DEF Formats, FormatStages, FormatPortsWritten, format, ring, Counted
<1>9. Rings'
  <2> USE DEF ring, format, main
  <2>1. RingIsQueue'
    BY <1>0, <1>1 DEF Rings, RingIsQueue, Used
  <2>a. FramesAligned => FramesAligned'
    BY <1>1, <1>4 DEF FramesAligned, WholeFrames, Pending, packets
  <2>b. Used' = Used
    BY <1>1 DEF Used
  <2>2. RingStages'
    BY <1>0, <1>1, <1>4, <1>5, <2>a, <2>b DEF Rings, RingStages, RingInUse, RoomForPacket
  <2>3. WholeFramesPlayed'
    BY <1>0, <1>1 DEF Rings, WholeFramesPlayed, WholeFrames
  <2> QED BY <2>1, <2>2, <2>3 DEF Rings
<1> QED BY <1>2, <1>6, <1>7, <1>8, <1>9, Assembled

LEMMA ReadBeginInductive ==
  ASSUME Inductive, ReadBegin
  PROVE  Inductive'
<1>0. /\ MainType /\ FlagType /\ PacketsType /\ CaptureType /\ FormatType /\ CounterType
      /\ RingType /\ CallbackType
      /\ MainStages /\ Slots /\ Books /\ Formats /\ Rings
  BY Parts
<1> DEFINE C == currentNumberOfChannels
           cells == Least(Used, want)
<1>1. /\ UNCHANGED <<main, isRunning, packets, cap, wload, format, counters, ring, want, cycle>>
      /\ cb = "checked" /\ cb' = "copy" /\ rload' = [ptr |-> read_ptr, cells |-> cells, got |-> << >>]
      /\ raced' = (raced \/ phase = "reset")
  BY DEF ReadBegin
<1>2. active /\ C /= 0
  BY <1>0, <1>1 DEF MainStages, Formats, FormatStages
<1>3. /\ MainType' /\ PacketsType' /\ CaptureType' /\ FormatType' /\ CounterType'
      /\ MainStages' /\ Slots' /\ Books'
  BY <1>1, <1>2, CallbackFrame
<1>4. Used \in Nat /\ want \in Nat
  <2>1. BufferFrames * MaxChannels \in Nat
    BY Constants
  <2>2. want \in Nat
    BY <1>0, <2>1 DEF CallbackType
  <2> QED BY <1>0, <2>2, RingBasics
<1>5. cells \in Nat /\ cells <= Used /\ cells <= want /\ cells \in {Used, want}
      /\ (cells /= want => ~ (want <= Used))
  BY <1>4 DEF Least
<1> HIDE DEF cells
<1>6. rload'.cells = cells /\ rload'.ptr = read_ptr /\ rload'.got = << >> /\ Len(rload'.got) = 0
  BY <1>1
<1>7. CallbackType'
  <2>1. rload' \in [ptr : 0 .. RingSize - 1, cells : Nat, got : Seq(Cells)]
    <3>1. read_ptr \in 0 .. RingSize - 1
      BY <1>0 DEF RingType
    <3>2. << >> \in Seq(Cells)
      OBVIOUS
    <3> QED BY <1>1, <1>5, <3>1, <3>2, Zenon
  <2>2. Len(rload'.got) <= rload'.cells
    BY <1>5, <1>6
  <2> QED BY <1>0, <1>1, <2>1, <2>2 DEF CallbackType
<1>8. FlagType' /\ RingType'
  <2>1. raced' \in BOOLEAN
    BY <1>1, Zenon
  <2> QED BY <1>0, <1>1, <2>1, TypesKept DEF FlagType
<1>9. Formats'
  BY <1>0, <1>1, <1>2 DEF Formats, FormatStages, FormatPortsWritten, format, ring, Counted
<1>10. Rings'
  <2> USE DEF ring, format, main
  <2>0. ~ raced' => ~ raced /\ phase /= "reset"
    BY <1>1, Zenon
  <2>1. RingIsQueue'
    BY <1>0, <1>1, <2>0 DEF Rings, RingIsQueue, Used
  <2>2. WholeFramesPlayed'
    BY <1>0, <1>1, <2>0 DEF Rings, WholeFramesPlayed, WholeFrames
  <2>3. ~ raced' => cells % C = 0
    <3> SUFFICES ASSUME ~ raced' PROVE cells % C = 0
      OBVIOUS
    <3>1. Len(queue) = Used /\ Used = (write_ptr - read_ptr) % RingSize /\ RingSize \in Nat \ {0}
      BY <1>0, <2>0, RingFacts, RingBasics DEF Rings
    <3>2. /\ Len(rload.got \o queue) % C = wload.done % C /\ want % C = 0
          /\ rload = NoRead /\ (want <= Used \/ read_ptr = 0)
          /\ cap = "copy" /\ wload.done > 0 => write_ptr = 0
          /\ cap /= "copy" => wload = NoWrite
      BY <1>0, <1>1, <1>2, <2>0 DEF Rings, RingStages, FramesAligned
    <3>3. C \in Nat \ {0} /\ wload.done \in Nat
      BY <1>0, <1>2, Constants DEF FormatType, CaptureType
    <3>4. rload.got \o queue = queue
      BY <1>0, <3>2 DEF NoRead, RingType
    <3>5. CASE cells = want
      BY <3>2, <3>5
    <3>6. CASE cells /= want
      <4>1. cells = Used /\ read_ptr = 0
        BY <1>5, <3>2, <3>6
      <4>2. CASE wload.done = 0
        <5>1. Len(queue) % C = 0
          BY <3>2, <3>3, <3>4, <4>2, ZeroRemainder
        <5> QED BY <3>1, <4>1, <5>1
      <4>3. CASE wload.done /= 0
        <5>1. wload.done > 0 /\ cap = "copy"
          BY <3>2, <3>3, <4>3 DEF NoWrite
        <5>2. write_ptr - read_ptr = 0
          BY <3>2, <4>1, <5>1
        <5>3. cells = 0
          BY <3>1, <4>1, <5>2, ZeroRemainder
        <5> QED BY <3>3, <5>3, ZeroRemainder
      <4> QED BY <4>2, <4>3
    <3> QED BY <3>5, <3>6
  <2>a. ~ raced' => FramesAligned'
    <3> SUFFICES ASSUME ~ raced' PROVE FramesAligned'
      OBVIOUS
    <3>1. rload.got = << >> /\ FramesAligned
      BY <1>0, <1>1, <1>2, <2>0 DEF Rings, RingStages, NoRead
    <3> QED BY <1>1, <1>6, <2>3, <3>1 DEF FramesAligned, WholeFrames, Pending, packets
  <2>4. RingStages'
    <3>1. rload'.cells - Len(rload'.got) <= Used' /\ Used' = Used /\ rload'.ptr = read_ptr'
      BY <1>1, <1>4, <1>5, <1>6 DEF Used
    <3> QED BY <1>0, <1>1, <2>0, <2>a, <3>1 DEF Rings, RingStages, RoomForPacket
  <2> QED BY <2>1, <2>2, <2>4 DEF Rings
<1> QED BY <1>3, <1>7, <1>8, <1>9, <1>10, Assembled

LEMMA TakenFacts ==
  ASSUME NEW q \in Seq(Cells), NEW c \in 0 .. Len(q)
  PROVE  /\ SubSeq(q, c + 1, Len(q)) \in Seq(Cells) /\ Len(SubSeq(q, c + 1, Len(q))) = Len(q) - c
         /\ \A k \in 1 .. Len(q) - c : SubSeq(q, c + 1, Len(q))[k] = q[c + k]
OBVIOUS

\* Cells taken from the front of the ring.
LEMMA CellsTaken ==
  ASSUME RingType, RingIsQueue, ~ raced, phase /= "reset", NEW c \in 0 .. Used,
         queue' = SubSeq(queue, c + 1, Len(queue)), read_ptr' = (read_ptr + c) % RingSize,
         UNCHANGED <<buf, write_ptr>>
  PROVE  /\ Used' = Used - c /\ queue' \in Seq(Cells) /\ Len(queue') = Used - c
         /\ \A k \in 1 .. Len(queue') : queue'[k] = queue[c + k]
         /\ queue' = [k \in 1 .. Used' |-> buf'[(read_ptr' + k - 1) % RingSize]]
<1> DEFINE S == RingSize
           r == read_ptr
           w == write_ptr
           U == Used
<1>0. /\ S \in Nat \ {0} /\ r \in Int /\ w \in Int /\ U \in 0 .. S - 1 /\ U = (w - r) % S
      /\ U \in Nat /\ c \in Int /\ c \in 0 .. U
  BY RingBasics
<1>1. /\ Len(queue) = U /\ queue \in Seq(Cells)
      /\ \A k \in 1 .. U : queue[k] = buf[(r + k - 1) % S]
  BY RingFacts DEF RingType
<1>2. Used' = U - c
  <2>1. (w - ((r + c) % S)) % S = U - c
    <3>1. S \in Nat \ {0} /\ r \in Int /\ w \in Int /\ c \in Nat /\ c <= (w - r) % S
      BY <1>0
    <3> HIDE DEF U, S, r, w
    <3>2. (w - ((r + c) % S)) % S = ((w - r) % S) - c
      BY <3>1, UsedAfterRead, ZenonT(40)
    <3> QED BY <1>0, <3>2
  <2> QED BY <2>1 DEF Used
<1>3. queue' \in Seq(Cells) /\ Len(queue') = U - c /\ \A k \in 1 .. U - c : queue'[k] = queue[c + k]
  <2> HIDE DEF U
  <2> QED BY <1>0, <1>1, TakenFacts, SMTT(30)
<1>4. ASSUME NEW k \in 1 .. U - c PROVE queue'[k] = buf'[(read_ptr' + k - 1) % S]
  <2>1. c + k \in 1 .. U /\ k \in Int
    BY <1>0
  <2>2. (((r + c) % S) + k - 1) % S = (r + (c + k) - 1) % S
    <3> HIDE DEF U, S, r, w
    <3> QED BY <1>0, <2>1, PlaceAfterRead, ZenonT(40)
  <2>3. queue[c + k] = buf[(r + (c + k) - 1) % S]
    BY <1>1, <2>1
  <2>4. queue'[k] = queue[c + k]
    BY <1>3
  <2> QED BY <2>2, <2>3, <2>4
<1>5. queue' = [k \in 1 .. U - c |-> buf'[(read_ptr' + k - 1) % S]]
  <2> DEFINE f == [k \in 1 .. U - c |-> buf'[(read_ptr' + k - 1) % S]]
  <2>1. DOMAIN f = 1 .. U - c /\ f = [k \in DOMAIN f |-> f[k]] /\ \A k \in 1 .. U - c : queue'[k] = f[k]
    BY <1>4, Zenon
  <2> HIDE DEF f
  <2>2. DOMAIN f = 1 .. Len(queue') /\ \A k \in 1 .. Len(queue') : queue'[k] = f[k]
    BY <1>3, <2>1
  <2>3. queue' = f
    BY <1>3, <2>1, <2>2, SequenceIsFunction
  <2> QED BY <2>3 DEF f
<1> QED BY <1>2, <1>3, <1>5

LEMMA RoomGrows ==
  ASSUME NEW d \in Int, NEW S \in Nat, NEW u \in Nat, NEW v \in Nat, v <= u, d <= S - 1 - u
  PROVE  d <= S - 1 - v
OBVIOUS

\* A block b taken from the front of q and put behind g.
LEMMA MovedFront ==
  ASSUME NEW g \in Seq(Cells), NEW q \in Seq(Cells), NEW n \in 0 .. Len(q), NEW b \in Seq(Cells), Len(b) = n,
         \A k \in 1 .. n : b[k] = q[k]
  PROVE  (g \o b) \o SubSeq(q, n + 1, Len(q)) = g \o q
<1> DEFINE r == SubSeq(q, n + 1, Len(q))
<1>1. r \in Seq(Cells) /\ Len(r) = Len(q) - n /\ \A k \in 1 .. Len(q) - n : r[k] = q[n + k]
  BY TakenFacts
<1>2. Len(q) \in Nat /\ n \in Nat
  OBVIOUS
<1> HIDE DEF r
<1>3. /\ b \o r \in Seq(Cells) /\ Len(b \o r) = Len(b) + Len(r)
      /\ \A k \in 1 .. Len(b) : (b \o r)[k] = b[k]
      /\ \A k \in Len(b) + 1 .. Len(b) + Len(r) : (b \o r)[k] = r[k - Len(b)]
  BY <1>1, AppendFacts
<1> DEFINE s == b \o r
<1>4. s \in Seq(Cells) /\ Len(s) = Len(q)
  BY <1>1, <1>2, <1>3
<1>5. ASSUME NEW k \in 1 .. Len(q) PROVE s[k] = q[k]
  <2>1. CASE k \in 1 .. n
    BY <1>3, <2>1
  <2>2. CASE k \notin 1 .. n
    <3>1. k - n \in 1 .. Len(q) - n /\ k \in Len(b) + 1 .. Len(b) + Len(r) /\ n + (k - n) = k
      BY <1>1, <1>2, <2>2
    <3>2. s[k] = r[k - n] /\ r[k - n] = q[n + (k - n)]
      BY <1>1, <1>3, <3>1
    <3> QED BY <3>1, <3>2
  <2> QED BY <2>1, <2>2
<1> HIDE DEF s
<1>6. s = q
  BY <1>4, <1>5
<1>7. (g \o b) \o r = g \o s
  <2>1. (g \o b) \o r = g \o (b \o r)
    BY <1>1, AppendAssociative
  <2> QED BY <2>1 DEF s
<1> QED BY <1>6, <1>7 DEF r

\* Taking whole frames leaves the rest of a frame as it was.
LEMMA DropFrames ==
  ASSUME NEW C \in Nat \ {0}, NEW a \in Int, NEW b \in Int, b % C = 0
  PROVE  (a - b) % C = a % C
<1>1. (a - (b % C)) % C = (a - b) % C
  BY RemainderOfDifference
<1>2. a - (b % C) = a
  OBVIOUS
<1> QED BY <1>1, <1>2

\* The parts of whole frames: g is played, q remains.
LEMMA FramesParted ==
  ASSUME NEW C \in Nat \ {0}, NEW g \in Seq(Cells), NEW q \in Seq(Cells), Aligned(g \o q, C),
         Len(g) % C = 0
  PROVE  /\ Aligned(g, C) /\ Aligned(q, C) /\ Len(q) % C = Len(g \o q) % C
         /\ q /= << >> => g \o q /= << >> /\ q[Len(q)] = (g \o q)[Len(g \o q)]
<1> DEFINE s == g \o q
<1>1. /\ s \in Seq(Cells) /\ Len(s) = Len(g) + Len(q)
      /\ \A k \in 1 .. Len(g) : s[k] = g[k]
      /\ \A k \in Len(g) + 1 .. Len(g) + Len(q) : s[k] = q[k - Len(g)]
  BY AppendFacts
<1>2. Len(g) \in Nat /\ Len(q) \in Nat
  OBVIOUS
<1>a. Aligned(s, C)
  OBVIOUS
<1> HIDE DEF s
<1>3. Aligned(g, C)
  <2>1. 0 \in Nat /\ 0 % C = 0 /\ 0 + Len(g) <= Len(s)
    BY <1>1, <1>2, ZeroRemainder
  <2>2. \A k \in 1 .. Len(g) : g[k] = s[0 + k]
    BY <1>1, <1>2
  <2> QED BY <1>1, <1>a, <2>1, <2>2, AlignedPart
<1>4. ASSUME NEW k \in 1 .. Len(q) PROVE q[k] = s[Len(g) + k]
  <2>1. Len(g) + k \in Len(g) + 1 .. Len(g) + Len(q) /\ (Len(g) + k) - Len(g) = k
    BY <1>2
  <2> QED BY <1>1, <2>1
<1>5. Aligned(q, C)
  <2>1. Len(g) + Len(q) <= Len(s)
    BY <1>1, <1>2
  <2> QED BY <1>1, <1>2, <1>4, <1>a, <2>1, AlignedPart
<1>6. Len(q) % C = Len(s) % C
  <2>1. Len(q) = Len(s) - Len(g) /\ Len(s) \in Int /\ Len(g) \in Int
    BY <1>1, <1>2
  <2>2. (Len(s) - Len(g)) % C = Len(s) % C
    BY <2>1, DropFrames
  <2> QED BY <2>1, <2>2
<1>7. ASSUME q /= << >> PROVE s /= << >> /\ q[Len(q)] = s[Len(s)]
  <2>1. Len(q) \in 1 .. Len(q) /\ Len(s) /= 0
    BY <1>1, <1>2, <1>7
  <2> QED BY <1>1, <1>4, <2>1
<1> QED BY <1>3, <1>5, <1>6, <1>7 DEF s

LEMMA ReadBlockInductive ==
  ASSUME Inductive, ReadBlock
  PROVE  Inductive'
<1>0. /\ MainType /\ FlagType /\ PacketsType /\ CaptureType /\ FormatType /\ CounterType
      /\ RingType /\ CallbackType
      /\ MainStages /\ Slots /\ Books /\ Formats /\ Rings
  BY Parts
<1> DEFINE C == currentNumberOfChannels
           S == RingSize
           c == rload.cells
           p == rload.ptr
           g == rload.got
           n == Least(c - Len(g), S - p)
           block == [k \in 1 .. n |-> buf[(p + k - 1) % S]]
           h == g \o block
<1>1. /\ UNCHANGED <<main, isRunning, packets, cap, wload, format, counters, buf, write_ptr, raced>>
      /\ cb = "copy"
      /\ read_ptr' \in Advanced(p, read_ptr, n)
      /\ queue' = IF Len(queue) < n THEN << >> ELSE SubSeq(queue, n + 1, Len(queue))
      /\ \/ /\ Len(h) < c /\ rload' = [ptr |-> read_ptr', cells |-> c, got |-> h]
            /\ UNCHANGED <<cb, want, cycle>>
         \/ /\ Len(h) = c /\ cb' = "idle" /\ want' = 0 /\ rload' = NoRead
            /\ cycle' = [ports |-> C, cells |-> h] \/ silence_outputs(C)
  BY DEF ReadBlock
<1>2. active /\ C /= 0
  BY <1>0, <1>1 DEF MainStages, Formats, FormatStages
<1>3. /\ MainType' /\ PacketsType' /\ CaptureType' /\ FormatType' /\ CounterType'
      /\ MainStages' /\ Slots' /\ Books'
  BY <1>1, <1>2, CallbackFrame
<1>4. /\ C \in Nat \ {0} /\ S \in Nat \ {0} /\ p \in 0 .. S - 1 /\ c \in Nat /\ g \in Seq(Cells)
      /\ Len(g) \in Nat /\ Len(g) <= c /\ read_ptr \in 0 .. S - 1 /\ queue \in Seq(Cells)
      /\ buf \in [0 .. S - 1 -> Cells] /\ 0 \in 0 .. S - 1 /\ Len(queue) \in Nat
  <2>1. C \in Nat \ {0} /\ S \in Nat \ {0} /\ 0 \in 0 .. S - 1
    BY <1>0, <1>2, Constants DEF FormatType
  <2>2. p \in 0 .. S - 1 /\ c \in Nat /\ g \in Seq(Cells) /\ Len(g) <= c
    BY <1>0 DEF CallbackType
  <2>3. read_ptr \in 0 .. S - 1 /\ queue \in Seq(Cells) /\ buf \in [0 .. S - 1 -> Cells]
    BY <1>0 DEF RingType
  <2> HIDE DEF g, p, c
  <2>4. Len(g) \in Nat /\ Len(queue) \in Nat
    BY <2>2, <2>3
  <2> QED BY <2>1, <2>2, <2>3, <2>4
<1>5. n \in Nat /\ n <= c - Len(g)
  <2> DEFINE l == Len(g)
  <2> HIDE DEF l, c, p, S
  <2>1. l \in Nat /\ l <= c /\ c \in Nat /\ S \in Nat /\ p \in 0 .. S - 1
    BY <1>4 DEF l
  <2>2. Least(c - l, S - p) \in Nat /\ Least(c - l, S - p) <= c - l
    BY <2>1 DEF Least
  <2> QED BY <2>2 DEF l
<1> HIDE DEF n, p, c, g, C
<1>6. read_ptr' \in 0 .. S - 1 /\ (~ raced /\ p = read_ptr => read_ptr' = (p + n) % S)
  BY <1>1, <1>4, <1>5, AdvancedFacts
<1>7. block \in Seq(Cells) /\ Len(block) = n
  <2>1. ASSUME NEW k \in 1 .. n PROVE buf[(p + k - 1) % S] \in Cells
    <3>1. p + k - 1 \in Int
      BY <1>4
    <3>2. (p + k - 1) % S \in 0 .. S - 1
      BY <1>4, <3>1, Remainder
    <3> QED BY <1>4, <3>2
  <2>2. block \in [1 .. n -> Cells]
    BY <2>1, Zenon
  <2> HIDE DEF block
  <2> QED BY <1>5, <2>2, SequenceOf
<1>8. \A k \in 1 .. n : block[k] = buf[(p + k - 1) % S]
  BY Zenon
<1> HIDE DEF block
<1>9. h \in Seq(Cells) /\ Len(h) = Len(g) + n /\ Len(h) <= c
  <2>1. h \in Seq(Cells) /\ Len(h) = Len(g) + Len(block)
    BY <1>4, <1>7, AppendFacts
  <2>2. Len(g) + n <= c
    BY <1>4, <1>5
  <2> QED BY <1>7, <2>1, <2>2
<1>h. h = g \o block
  OBVIOUS
<1> HIDE DEF h
<1>10. RingType'
  <2>1. queue' \in Seq(Cells)
    <3>1. CASE Len(queue) < n
      <4>1. queue' = << >> /\ << >> \in Seq(Cells)
        BY <1>1, <3>1
      <4> QED BY <4>1, Zenon
    <3>2. CASE ~ (Len(queue) < n)
      <4>1. n \in 0 .. Len(queue) /\ queue' = SubSeq(queue, n + 1, Len(queue))
        BY <1>1, <1>4, <1>5, <3>2
      <4> QED BY <1>4, <4>1, TakenFacts
    <3> QED BY <3>1, <3>2
  <2> QED BY <1>0, <1>1, <1>6, <2>1 DEF RingType
<1>11. /\ rload' \in [ptr : 0 .. RingSize - 1, cells : Nat, got : Seq(Cells)]
       /\ Len(rload'.got) <= rload'.cells
  <2>1. CASE Len(h) < c /\ rload' = [ptr |-> read_ptr', cells |-> c, got |-> h]
    <3>1. rload' \in [ptr : 0 .. RingSize - 1, cells : Nat, got : Seq(Cells)]
      BY <1>4, <1>6, <1>9, <2>1, Zenon DEF S
    <3>2. rload'.got = h /\ rload'.cells = c
      BY <2>1
    <3> QED BY <1>9, <3>1, <3>2
  <2>2. CASE rload' = NoRead
    <3>1. << >> \in Seq(Cells) /\ Len(<< >>) = 0 /\ 0 \in Nat
      OBVIOUS
    <3>2. rload' \in [ptr : 0 .. RingSize - 1, cells : Nat, got : Seq(Cells)]
      BY <1>4, <2>2, <3>1, Zenon DEF NoRead, S
    <3>3. rload'.got = << >> /\ rload'.cells = 0
      BY <2>2 DEF NoRead
    <3> QED BY <3>1, <3>2, <3>3
  <2> QED BY <1>1, <2>1, <2>2
<1>12. /\ cycle' \in [ports : Nat, cells : Seq(Cells)]
       /\ cycle' = cycle \/ cycle'.ports = MaxChannels \/ cycle'.ports = C
       /\ cycle' = cycle \/ cycle'.cells = << >> \/ (Len(h) = c /\ cycle'.cells = h)
  <2>1. CASE cycle' = cycle
    BY <1>0, <2>1 DEF CallbackType
  <2>2. CASE Len(h) = c /\ cycle' = [ports |-> C, cells |-> h]
    BY <1>4, <1>9, <2>2
  <2>3. CASE silence_outputs(C)
    <3>1. C \in Nat
      BY <1>4
    <3> QED BY <2>3, <3>1, Silence
  <2> QED BY <1>1, <2>1, <2>2, <2>3
<1>13. CallbackType'
  <2>1. BufferFrames * MaxChannels \in Nat
    BY Constants
  <2>2. 0 \in 0 .. BufferFrames * MaxChannels
    BY <2>1
  <2>3. want' \in 0 .. BufferFrames * MaxChannels /\ cb' \in {"idle", "copy"}
    BY <1>0, <1>1, <2>2 DEF CallbackType
  <2> QED BY <1>11, <1>12, <2>3 DEF CallbackType
<1>14. FlagType'
  BY <1>0, <1>1, TypesKept
<1>15. Formats'
  <2>1. FormatPortsWritten'
    <3>1. cycle' = cycle => FormatPortsWritten'
      BY <1>0, <1>1 DEF Formats, FormatPortsWritten, format
    <3> QED BY <1>1, <1>4, <1>12, <3>1 DEF FormatPortsWritten, format, C
  <2>2. cb' = "idle" => want' = 0
    BY <1>1
  <2> QED BY <1>0, <1>1, <1>2, <2>1, <2>2 DEF Formats, FormatStages, format, Counted, C
<1>16. Rings'
  <2>0. UNCHANGED <<phase, dataSize, currentNumberOfChannels, write_ptr>>
    BY <1>1 DEF main, format
  <2>r. cb' /= "copy" => rload' = NoRead
    BY <1>1
  <2>w. cap' /= "copy" => wload' = NoWrite
    BY <1>0, <1>1 DEF Rings, RingStages
  <2>1. CASE raced
    BY <1>1, <2>1, <2>r, <2>w DEF Rings, RingIsQueue, RingStages, WholeFramesPlayed
  <2>2. CASE ~ raced
    <3>1. /\ phase /= "reset" /\ p = read_ptr /\ c - Len(g) <= Used
          /\ cap = "write" => dataSize < RingSize /\ RoomForPacket
          /\ cap = "copy" => /\ wload.ptr = write_ptr /\ wload.cells = dataSize
                             /\ wload.cells - wload.done <= RingSize - 1 - Used
                             /\ wload.done > 0 => write_ptr = 0
          /\ FramesAligned /\ RingIsQueue
      BY <1>0, <1>1, <1>2, <2>2 DEF Rings, RingStages, RingInUse, c, p, g, C
    <3>2. /\ Used \in Nat /\ Len(queue) = Used /\ n \in 0 .. Used
          /\ \A k \in 1 .. Used : queue[k] = buf[(read_ptr + k - 1) % RingSize]
      <4>1. /\ Used \in 0 .. RingSize - 1 /\ Len(queue) = Used
            /\ \A k \in 1 .. Used : queue[k] = buf[(read_ptr + k - 1) % RingSize]
        BY <1>0, <2>2, <3>1, RingFacts
      <4>2. Used \in Nat
        BY <4>1
      <4>3. n \in 0 .. Used
        BY <1>4, <1>5, <3>1, <4>2
      <4> QED BY <4>1, <4>2, <4>3
    <3>3. queue' = SubSeq(queue, n + 1, Len(queue)) /\ read_ptr' = (read_ptr + n) % RingSize
      <4>1. ~ (Len(queue) < n)
        BY <3>2
      <4> QED BY <1>1, <1>6, <2>2, <3>1, <4>1
    <3>4. /\ Used' = Used - n /\ queue' \in Seq(Cells)
          /\ queue' = [k \in 1 .. Used' |-> buf'[(read_ptr' + k - 1) % RingSize]]
      BY <1>0, <1>1, <2>2, <3>1, <3>2, <3>3, CellsTaken
    <3>5. RingIsQueue'
      BY <3>4 DEF RingIsQueue
    <3>u. Used' \in Nat /\ Used' <= Used
      <4> DEFINE U == Used
      <4>1. U \in Nat /\ n \in 0 .. U /\ Used' = U - n
        BY <3>2, <3>4
      <4> HIDE DEF U
      <4> QED BY <4>1 DEF U
    <3>6. h \o queue' = g \o queue
      <4>1. \A k \in 1 .. n : block[k] = queue[k]
        <5>1. \A k \in 1 .. n : k \in 1 .. Used
          BY <3>2
        <5> QED BY <1>8, <3>1, <3>2, <5>1
      <4>2. n \in 0 .. Len(queue)
        BY <3>2
      <4>3. (g \o block) \o SubSeq(queue, n + 1, Len(queue)) = g \o queue
        BY <1>4, <1>7, <4>1, <4>2, MovedFront, ZenonT(40)
      <4> QED BY <1>h, <3>3, <4>3
    <3> DEFINE s == g \o queue
               d == wload.done
               m == Pending(0).packet.n
    <3>7. /\ Aligned(s, C) /\ Len(s) % C = d % C
          /\ d > 0 /\ s /= << >> => s[Len(s)][1] = m
          /\ want % C = 0 /\ c % C = 0
      BY <3>1, AlignedIs DEF FramesAligned, C, c, g
    <3>8. /\ wload' = wload /\ Pending(0)' = Pending(0) /\ currentNumberOfChannels' = C
          /\ cap' = cap
      BY <1>1, <2>0 DEF Pending, packets, C
    <3>9. s = h \o queue'
      BY <3>6
    <3> HIDE DEF s
    <3>10. /\ cap' = "write" => dataSize' < RingSize /\ RoomForPacket'
           /\ cap' = "copy" => /\ wload'.ptr = write_ptr' /\ wload'.cells = dataSize'
                               /\ wload'.cells - wload'.done <= RingSize - 1 - Used'
                               /\ wload'.done > 0 => write_ptr' = 0
      <4>0. dataSize \in Int /\ RingSize \in Nat /\ wload.cells - wload.done \in Int
        BY <1>0, <1>4 DEF FormatType, CaptureType
      <4>1. cap = "write" => RoomForPacket'
        <5> SUFFICES ASSUME cap = "write" PROVE RoomForPacket'
          OBVIOUS
        <5>1. dataSize <= RingSize - 1 - Used
          BY <3>1 DEF RoomForPacket
        <5>2. dataSize <= RingSize - 1 - Used'
          BY <3>2, <3>u, <4>0, <5>1, RoomGrows, Zenon
        <5> QED BY <2>0, <5>2 DEF RoomForPacket
      <4>2. cap = "copy" => wload.cells - wload.done <= RingSize - 1 - Used'
        <5> SUFFICES ASSUME cap = "copy" PROVE wload.cells - wload.done <= RingSize - 1 - Used'
          OBVIOUS
        <5>1. wload.cells - wload.done <= RingSize - 1 - Used
          BY <3>1
        <5> QED BY <3>2, <3>u, <4>0, <5>1, RoomGrows, Zenon
      <4> QED BY <2>0, <3>1, <3>8, <4>1, <4>2
    <3>11. CASE /\ Len(h) < c /\ rload' = [ptr |-> read_ptr', cells |-> c, got |-> h]
                /\ UNCHANGED <<cb, want, cycle>>
      <4>1. rload'.got = h /\ rload'.cells = c /\ rload'.ptr = read_ptr'
        BY <3>11
      <4>2. c - Len(h) <= Used'
        <5> DEFINE u == Used
                   l == Len(g)
        <5>1. c - l <= u /\ Used' = u - n /\ Len(h) = l + n /\ u \in Nat /\ l \in Nat /\ c \in Nat /\ n \in Nat
          BY <1>4, <1>5, <1>9, <3>1, <3>2, <3>4
        <5> HIDE DEF u, l
        <5> QED BY <5>1
      <4>3. FramesAligned'
        <5>1. rload'.got \o queue' = s
          BY <3>9, <4>1
        <5>2. WholeFrames(rload.got \o queue)'
          BY <3>7, <3>8, <5>1 DEF WholeFrames, Aligned
        <5> QED BY <3>7, <3>8, <3>11, <4>1, <5>1, <5>2 DEF FramesAligned
      <4>4. RingStages'
        BY <1>1, <2>0, <2>r, <2>w, <3>1, <3>10, <3>11, <4>1, <4>2, <4>3 DEF RingStages
      <4>5. WholeFramesPlayed'
        BY <1>0, <1>1, <2>0, <3>11 DEF Rings, WholeFramesPlayed, WholeFrames
      <4> QED BY <3>5, <4>4, <4>5 DEF Rings
    <3>12. CASE Len(h) = c /\ cb' = "idle" /\ want' = 0 /\ rload' = NoRead
      <4>1. /\ Aligned(h, C) /\ Aligned(queue', C) /\ Len(queue') % C = Len(s) % C
            /\ queue' /= << >> => s /= << >> /\ queue'[Len(queue')] = s[Len(s)]
        <5> DEFINE q == queue'
        <5>1. Len(h) % C = 0 /\ s = h \o q /\ q \in Seq(Cells)
          BY <3>4, <3>7, <3>9, <3>12
        <5> HIDE DEF q
        <5>2. Aligned(h \o q, C)
          BY <3>7, <5>1
        <5>3. /\ Aligned(h, C) /\ Aligned(q, C) /\ Len(q) % C = Len(h \o q) % C
              /\ q /= << >> => h \o q /= << >> /\ q[Len(q)] = (h \o q)[Len(h \o q)]
          BY <1>4, <1>9, <5>1, <5>2, FramesParted, Zenon
        <5> QED BY <5>1, <5>3 DEF q
      <4>2. rload'.got \o queue' = queue' /\ rload'.cells = 0
        BY <3>4, <3>12 DEF NoRead
      <4>3. 0 % C = 0
        BY <1>4, ZeroRemainder
      <4>4. FramesAligned'
        <5>1. WholeFrames(rload.got \o queue)'
          BY <3>8, <4>1, <4>2 DEF WholeFrames, Aligned
        <5>2. wload'.done > 0 /\ queue' /= << >> => queue'[Len(queue')][1] = Pending(0)'.packet.n
          BY <3>7, <3>8, <4>1
        <5>3. Len(queue') % C = wload'.done % C
          BY <3>7, <3>8, <4>1
        <5> QED BY <3>8, <3>12, <4>2, <4>3, <5>1, <5>2, <5>3 DEF FramesAligned
      <4>5. RingStages'
        BY <1>1, <2>0, <2>r, <2>w, <3>1, <3>10, <3>12, <4>4 DEF RingStages
      <4>6. WholeFramesPlayed'
        <5>1. CASE cycle' = cycle
          BY <1>0, <1>1, <2>0, <5>1 DEF Rings, WholeFramesPlayed, WholeFrames
        <5>2. CASE cycle'.cells = << >>
          BY <5>2, EmptyWhole
        <5>3. CASE cycle'.cells = h
          BY <3>8, <4>1, <5>3 DEF WholeFramesPlayed, WholeFrames, Aligned
        <5> QED BY <1>12, <5>1, <5>2, <5>3
      <4> QED BY <3>5, <4>5, <4>6 DEF Rings
    <3> QED BY <1>1, <3>11, <3>12
  <2> QED BY <2>1, <2>2
<1> QED BY <1>3, <1>10, <1>13, <1>14, <1>15, <1>16, Assembled

-----------------------------------------------------------------------------
(* Every step, and the theorems. *)

LEMMA InitInductive ==
  ASSUME Init
  PROVE  Inductive
<1> USE DEF Init
<1>0. /\ MaxChannels \in Nat \ {0} /\ RingSize \in Nat \ {0} /\ RxFrames \in Nat \ {0}
      /\ CounterMod \in Nat \ {0} /\ BufferFrames * MaxChannels \in Nat
  <2>1. BufferFrames * MaxChannels \in Nat
    BY Constants
  <2> QED BY <2>1, Constants
<1>1. MainType /\ FlagType /\ CaptureType
  <2>1. 0 \in 0 .. RingSize - 1 /\ 0 \in Nat
    BY <1>0
  <2>2. MainType
    BY DEF MainType
  <2>3. NoWrite \in [ptr : 0 .. RingSize - 1, done : Nat, cells : Nat]
    BY <2>1, Zenon DEF NoWrite
  <2>4. NoWrite.done <= NoWrite.cells
    BY DEF NoWrite
  <2> QED BY <2>2, <2>3, <2>4, Zenon DEF FlagType, CaptureType
<1>2. PacketsType
  <2>2. rx \in [0 .. RxFrames - 1 -> Frames]
    BY NoPacketIs, Zenon
  <2>3. 0 \in 0 .. RxFrames - 1 /\ 0 \in Nat
    BY <1>0
  <2>4. wire \in [frames : Nat, last : Packets]
    BY <2>3, NoPacketIs, Zenon
  <2> QED BY <2>2, <2>3, <2>4, Zenon DEF PacketsType
<1>3. FormatType /\ CounterType
  <2>1. 0 \in 0 .. CounterMod - 1 /\ 0 \in Nat
    BY <1>0
  <2>2. noted \in [count : Nat, last : Packets]
    BY <2>1, NoPacketIs, Zenon
  <2> QED BY <2>1, <2>2, Zenon DEF FormatType, CounterType
<1>4. RingType
  <2>1. Nothing \in Cells
    BY DEF Nothing, Cells
  <2>2. buf \in [0 .. RingSize - 1 -> Cells]
    BY <2>1, Zenon
  <2>3. 0 \in 0 .. RingSize - 1 /\ << >> \in Seq(Cells)
    BY <1>0
  <2> QED BY <2>2, <2>3, Zenon DEF RingType
<1>5. CallbackType
  <2>1. 0 \in 0 .. RingSize - 1 /\ << >> \in Seq(Cells) /\ 0 \in Nat /\ MaxChannels \in Nat
        /\ 0 \in 0 .. BufferFrames * MaxChannels
    BY <1>0
  <2>2. rload \in [ptr : 0 .. RingSize - 1, cells : Nat, got : Seq(Cells)]
    BY <2>1, Zenon DEF NoRead
  <2>3. cycle \in [ports : Nat, cells : Seq(Cells)]
    BY <2>1, Zenon
  <2>4. Len(rload.got) <= rload.cells
    BY DEF NoRead
  <2> QED BY <2>1, <2>2, <2>3, <2>4, Zenon DEF CallbackType
<1>6. TypeOK
  BY <1>1, <1>2, <1>3, <1>4, <1>5, TypeParts
<1>7. MainStages
  BY DEF MainStages
<1>8. Slots
  <2>1. FramesHandledOnce
    <3>1. ASSUME NEW i \in 0 .. RxFrames - 1 PROVE rx[(rxring_offset + i) % RxFrames] = NoFrame
      <4>1. i \in Nat
        BY <1>0
      <4>2. (rxring_offset + i) % RxFrames \in 0 .. RxFrames - 1
        BY <1>2, <4>1, SlotPlace
      <4> QED BY <4>2
    <3> QED BY <1>0, <3>1 DEF FramesHandledOnce
  <2>2. SlotStages
    <3>1. (0 + (0 - 0)) % RxFrames = 0
      BY <1>0, 0 + (0 - 0) = 0, ZeroRemainder
    <3>2. 0 .. kept - handled - 1 = {}
      OBVIOUS
    <3> QED BY <3>1, <3>2 DEF SlotStages, Counted
  <2> QED BY <2>1, <2>2 DEF Slots
<1>9. Books
  <2>1. noted.count = 0 /\ noted.last.due = 0 /\ noted.last = wire.last
    BY NoPacketIs
  <2> QED BY <2>1 DEF Books, CounterStages, LossBounded
<1>10. Formats
  BY DEF Formats, FormatStages, FormatPortsWritten, Counted
<1>11. Rings
  <2>1. Used = 0
    <3>1. write_ptr - read_ptr = 0
      OBVIOUS
    <3> QED BY <1>0, <3>1, ZeroRemainder DEF Used
  <2>2. RingIsQueue
    BY <2>1 DEF RingIsQueue
  <2>3. RingStages
    BY DEF RingStages, RingInUse
  <2>4. WholeFramesPlayed
    BY DEF WholeFramesPlayed, WholeFrames
  <2> QED BY <2>2, <2>3, <2>4 DEF Rings
<1> QED BY <1>6, <1>7, <1>8, <1>9, <1>10, <1>11 DEF Inductive

LEMMA StutterInductive ==
  ASSUME Inductive, UNCHANGED vars
  PROVE  Inductive'
<1>0. /\ MainType /\ FlagType /\ PacketsType /\ CaptureType /\ FormatType /\ CounterType
      /\ RingType /\ CallbackType
      /\ MainStages /\ Slots /\ Books /\ Formats /\ Rings
  BY Parts
<1>1. UNCHANGED <<main, isRunning, packets, cap, wload, format, counters, ring, callback, raced>>
  BY DEF vars
<1>2. MainType' /\ MainStages'
  BY <1>0, <1>1 DEF MainType, MainStages, main, callback
<1>3. /\ FlagType' /\ PacketsType' /\ CaptureType' /\ FormatType' /\ CounterType' /\ RingType'
      /\ CallbackType'
  BY <1>0, <1>1, TypesKept DEF CaptureType
<1>4. Slots' /\ Books' /\ Formats' /\ Rings'
  <2>1. phase' = phase
    BY <1>1 DEF main
  <2> QED BY <1>0, <1>1, <2>1, QuietKeeps
<1> QED BY <1>2, <1>3, <1>4, Assembled

LEMMA NextInductive ==
  ASSUME Inductive, [Next]_vars
  PROVE  Inductive'
<1>1. CASE MainStep \/ request_shutdown \/ shutdownReac
  BY <1>1, MainQuietInductive, ResetInductive, ClearInductive DEF MainStep
<1>2. CASE FrameArrives
  BY <1>2, FrameArrivesInductive
<1>3. CASE CaptureStep
  BY <1>3, ThreadQuietInductive, RejectFrameInductive, TakeFrameInductive, SetChannelsInductive,
     NoteTestInductive, CountingInductive, CheckRoomInductive, WriteBeginInductive,
     WriteBlockInductive DEF CaptureStep
<1>4. CASE CallbackStep
  BY <1>4, ProcessSilenceInductive, ProcessBeginInductive, ReadBeginInductive, ReadBlockInductive
     DEF CallbackStep
<1>5. CASE UNCHANGED vars
  BY <1>5, StutterInductive
<1> QED BY <1>1, <1>2, <1>3, <1>4, <1>5 DEF Next

LEMMA AlwaysInductive == Spec => []Inductive
<1>1. Init => Inductive
  BY InitInductive
<1>2. Inductive /\ [Next]_vars => Inductive'
  BY NextInductive
<1> QED BY <1>1, <1>2, PTL DEF Spec

\* The data path of the bridge: for every ring size, format, packet size and cycle length the
\* ring is a queue of cells unless an operation overlapped its reset, every cycle writes the
\* ports of the known format, and the losses reported are bounded by what the device sent,
\* its repeated packets and the jumps of its counter, whatever main, the kernel, the capture
\* thread and process do in between (copyData, note_packet_counter, write_payload_to_ring,
\* process, main).
THEOREM BridgeSafety == Spec => []BridgeInvariant
<1>1. Inductive => BridgeInvariant
  BY DEF Inductive, Slots, Books, Formats, Rings, BridgeInvariant
<1> QED BY <1>1, AlwaysInductive, PTL

\* process plays whole frames, each channel on its own port, although the size of the ring is
\* no multiple of a frame, unless an operation overlapped the reset (process).
THEOREM PlaysWholeFrames == Spec => []WholeFramesPlayed
<1>1. Inductive => WholeFramesPlayed
  BY DEF Inductive, Rings
<1> QED BY <1>1, AlwaysInductive, PTL

\* Every frame in the packet ring is dealt with exactly once and in order, for a packet ring
\* of any size (process_rx, process_rx_release, copyData).
THEOREM EveryFrameOnce == Spec => []FramesHandledOnce
<1>1. Inductive => FramesHandledOnce
  BY DEF Inductive, Slots
<1> QED BY <1>1, AlwaysInductive, PTL

\* Neither the capture thread nor process uses a resource that main has released, and main
\* returns with nothing left (main's start, cleanup and teardown).
THEOREM ReleasesInOrder == Spec => []NoUseAfterRelease
<1>1. Inductive => NoUseAfterRelease
  BY StagesSuffice DEF Inductive
<1> QED BY <1>1, AlwaysInductive, PTL
=============================================================================
