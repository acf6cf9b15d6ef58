---------------------------- MODULE DaemonProofs ----------------------------
(***************************************************************************)
(* Proofs about Daemon for every range of the packet counter, packet size, *)
(* capacity, set of formats, rate, word and bound.                         *)
(***************************************************************************)
EXTENDS Daemon, TLAPS

-----------------------------------------------------------------------------
(* Arithmetic of a counter that wraps. *)

\* Division with remainder; the remainder of a negative number is not negative.
LEMMA ModEq ==
  ASSUME NEW x \in Int, NEW m \in Nat \ {0}
  PROVE  x % m \in 0 .. m - 1 /\ x \div m \in Int /\ x = m * (x \div m) + (x % m)
OBVIOUS

\* Quotient and remainder are determined by that equation.
LEMMA ModUnique ==
  ASSUME NEW x \in Int, NEW m \in Nat \ {0}, NEW q \in Int, NEW r \in 0 .. m - 1,
         x = m * q + r
  PROVE  x % m = r
<1> DEFINE p == x \div m
           s == x % m
<1>1. p \in Int /\ s \in 0 .. m - 1 /\ x = m * p + s
  BY ModEq
<1> HIDE DEF p, s
<1>2. m * (p - q) = r - s
  <2>1. m * (p - q) = m * p - m * q
    BY <1>1
  <2> QED BY <1>1, <2>1
<1>3. p = q
  <2>1. ASSUME p > q PROVE FALSE
    <3>1. m * (p - q) >= m
      BY <1>1, <2>1
    <3> QED BY <1>1, <1>2, <3>1
  <2>2. ASSUME p < q PROVE FALSE
    <3>1. m * (p - q) <= 0 - m
      BY <1>1, <2>2
    <3> QED BY <1>1, <1>2, <3>1
  <2> QED BY <1>1, <2>1, <2>2
<1>4. s = r
  BY <1>1, <1>3
<1> QED BY <1>4 DEF s

\* The successor of a wrapped counter.
LEMMA ModSucc ==
  ASSUME NEW x \in Int, NEW m \in Nat \ {0}
  PROVE  ((x % m) + 1) % m = (x + 1) % m
<1> DEFINE q == x \div m
           r == x % m
<1>1. q \in Int /\ r \in 0 .. m - 1 /\ x = m * q + r
  BY ModEq
<1> HIDE DEF q, r
<1>2. CASE r + 1 < m
  <2>1. (x + 1) % m = r + 1
    BY <1>1, <1>2, x + 1 = m * q + (r + 1), r + 1 \in 0 .. m - 1, ModUnique
  <2>2. (r + 1) % m = r + 1
    BY <1>1, <1>2, r + 1 = m * 0 + (r + 1), r + 1 \in 0 .. m - 1, ModUnique
  <2> QED BY <2>1, <2>2 DEF r
<1>3. CASE r + 1 = m
  <2>1. x + 1 = m * (q + 1) + 0
    BY <1>1, <1>3
  <2>2. (x + 1) % m = 0
    BY <1>1, <2>1, q + 1 \in Int, 0 \in 0 .. m - 1, ModUnique
  <2>3. (r + 1) % m = 0
    BY <1>1, <1>3, r + 1 = m * 1 + 0, 0 \in 0 .. m - 1, ModUnique
  <2> QED BY <2>2, <2>3 DEF r
<1> QED BY <1>1, <1>2, <1>3

\* The distance of two counters less than one range apart.
LEMMA ModGap ==
  ASSUME NEW x \in Int, NEW m \in Nat \ {0}, NEW k \in 0 .. m - 1
  PROVE  (((x + k) % m) - x) % m = k
<1> DEFINE q == (x + k) \div m
           r == (x + k) % m
<1>1. q \in Int /\ r \in 0 .. m - 1 /\ x + k = m * q + r
  BY x + k \in Int, ModEq
<1> HIDE DEF q, r
<1>2. r - x = m * (0 - q) + k
  <2>1. m * (0 - q) = 0 - m * q
    BY <1>1
  <2> QED BY <1>1, <2>1
<1>3. (r - x) % m = k
  BY <1>1, <1>2, ModUnique
<1> QED BY <1>3 DEF r

\* Division by a positive number does not decrease.
LEMMA DivMonotone ==
  ASSUME NEW x \in Nat, NEW y \in Nat, x <= y, NEW d \in Nat \ {0}
  PROVE  x \div d \in Nat /\ y \div d \in Nat /\ x \div d <= y \div d
<1> DEFINE p == x \div d
           q == y \div d
<1>1. p \in Int /\ x % d \in 0 .. d - 1 /\ x = d * p + (x % d)
  BY ModEq
<1>2. q \in Int /\ y % d \in 0 .. d - 1 /\ y = d * q + (y % d)
  BY ModEq
<1>0. p \in Nat /\ q \in Nat
  OBVIOUS
<1> HIDE DEF p, q
<1>3. ASSUME p > q PROVE FALSE
  <2>1. d * (p - q) >= d
    BY <1>1, <1>2, <1>3
  <2>2. d * (p - q) = d * p - d * q
    BY <1>1, <1>2
  <2> QED BY <1>1, <1>2, <2>1, <2>2
<1>4. p <= q
  BY <1>0, <1>3
<1> QED BY <1>0, <1>4 DEF p, q

LEMMA HalfType == Half \in Nat /\ Half >= 2 /\ Half < CounterMod
<1>1. CounterMod = 2 * Half /\ Half \in Int
  <2>1. CounterMod = 2 * (CounterMod \div 2) + (CounterMod % 2) /\ CounterMod \div 2 \in Int
    BY DaemonAssumption, ModEq
  <2> QED BY <2>1, DaemonAssumption DEF Half
<1> QED BY <1>1, DaemonAssumption

\* What is wrapped is a counter.
LEMMA WrapType ==
  ASSUME NEW x \in Int
  PROVE  x % CounterMod \in 0 .. CounterMod - 1
<1>1. CounterMod \in Nat \ {0}
  BY DaemonAssumption
<1> QED BY <1>1, ModEq

-----------------------------------------------------------------------------
(* The books of one packet. *)

\* What the frame accounts say of a ring r that received n packets.
Books(r, n) ==
  /\ r \in [created : BOOLEAN, write_pos : Nat, read_pos : Nat, dropped : Nat,
            overruns : Nat, clock : Nat, wrote : ChannelCounts \cup {0}]
  /\ r.write_pos - r.read_pos \in 0 .. Capacity
  /\ r.write_pos = FramesPerPacket * (n - r.dropped)
  /\ r.clock = r.write_pos
  /\ r.overruns = r.dropped

LEMMA NewRingBooks == Books(NewRing, 0) /\ NewRing.created /\ NewRing.wrote = 0
<1>1. NoRing \in [created : BOOLEAN, write_pos : Nat, read_pos : Nat, dropped : Nat,
                   overruns : Nat, clock : Nat, wrote : ChannelCounts \cup {0}]
  BY 0 \in Nat, Zenon DEF NoRing
<1>2. NewRing.created
  BY Zenon DEF NewRing, NoRing
<1>3. NewRing \in [created : BOOLEAN, write_pos : Nat, read_pos : Nat, dropped : Nat,
                   overruns : Nat, clock : Nat, wrote : ChannelCounts \cup {0}]
  BY <1>1, Zenon DEF NewRing
<1>4. /\ NewRing.wrote = 0 /\ NewRing.write_pos = 0 /\ NewRing.read_pos = 0
      /\ NewRing.clock = 0 /\ NewRing.dropped = 0 /\ NewRing.overruns = 0
  BY Zenon DEF NewRing, NoRing
<1> QED BY <1>2, <1>3, <1>4, DaemonAssumption, FramesPerPacket * (0 - 0) = 0 DEF Books

\* A packet written or refused keeps them, with one packet more.
LEMMA WriteBooks ==
  ASSUME NEW r, NEW n \in Nat, NEW c \in ChannelCounts, Books(r, n)
  PROVE  /\ Books(WriteRing(r, c), n + 1)
         /\ WriteRing(r, c).created = r.created
         /\ WriteRing(r, c).wrote \in {r.wrote, c}
<1> USE DaemonAssumption
<1>1. r.dropped \in Nat /\ r.write_pos \in Nat /\ r.read_pos \in Nat
  BY DEF Books
<1>2. CASE FramesPerPacket > Capacity - (r.write_pos - r.read_pos)
  <2>1. WriteRing(r, c) = [r EXCEPT !.overruns = @ + 1, !.dropped = @ + 1]
    BY <1>2 DEF WriteRing
  <2>2. (n + 1) - (r.dropped + 1) = n - r.dropped
    BY <1>1
  <2> DEFINE w == WriteRing(r, c)
  <2>3. w \in [created : BOOLEAN, write_pos : Nat, read_pos : Nat, dropped : Nat,
               overruns : Nat, clock : Nat, wrote : ChannelCounts \cup {0}]
    <3>1. r.overruns + 1 \in Nat /\ r.dropped + 1 \in Nat
      BY DEF Books
    <3> QED BY <2>1, <3>1, Zenon DEF Books
  <2>4. /\ w.write_pos = r.write_pos /\ w.read_pos = r.read_pos /\ w.clock = r.clock
        /\ w.dropped = r.dropped + 1 /\ w.overruns = r.overruns + 1
    BY <2>1 DEF Books
  <2>5. w.created = r.created /\ w.wrote = r.wrote
    BY <2>1 DEF Books
  <2> HIDE DEF w
  <2>6. Books(w, n + 1)
    BY <1>1, <2>2, <2>3, <2>4 DEF Books
  <2> QED BY <2>5, <2>6 DEF w
<1>3. CASE ~(FramesPerPacket > Capacity - (r.write_pos - r.read_pos))
  <2>1. WriteRing(r, c) = [r EXCEPT !.write_pos = r.write_pos + FramesPerPacket,
                            !.clock = r.write_pos + FramesPerPacket, !.wrote = c]
    BY <1>3 DEF WriteRing
  <2>2. FramesPerPacket * ((n + 1) - r.dropped) = FramesPerPacket * (n - r.dropped) + FramesPerPacket
    BY <1>1
  <2>3. r.write_pos + FramesPerPacket - r.read_pos \in 0 .. Capacity
    BY <1>1, <1>3 DEF Books
  <2> DEFINE w == WriteRing(r, c)
  <2>4. w \in [created : BOOLEAN, write_pos : Nat, read_pos : Nat, dropped : Nat,
               overruns : Nat, clock : Nat, wrote : ChannelCounts \cup {0}]
    <3>1. r.write_pos + FramesPerPacket \in Nat
      BY DEF Books
    <3> QED BY <2>1, <3>1, Zenon DEF Books
  <2>5. /\ w.write_pos = r.write_pos + FramesPerPacket /\ w.clock = w.write_pos
        /\ w.read_pos = r.read_pos /\ w.dropped = r.dropped /\ w.overruns = r.overruns
    BY <2>1 DEF Books
  <2>6. w.created = r.created /\ w.wrote = c
    BY <2>1 DEF Books
  <2> HIDE DEF w
  <2>7. Books(w, n + 1)
    BY <1>1, <2>2, <2>3, <2>4, <2>5 DEF Books
  <2> QED BY <2>6, <2>7 DEF w
<1> QED BY <1>2, <1>3

\* The gap is counted exactly if the counter tells it, and otherwise by less than half
\* of its range.
LEMMA LostByGap ==
  ASSUME NEW counter \in 0 .. CounterMod - 1, lastCounter \in 0 .. CounterMod - 1,
         NEW missed \in Nat, missed < Half
  PROVE  /\ LostBy(counter) \in 0 .. Half - 1
         /\ counter = (lastCounter + 1 + missed) % CounterMod => LostBy(counter) = missed
<1> USE DaemonAssumption, HalfType
<1> DEFINE gap == (counter - (lastCounter + 1)) % CounterMod
<1>1. LostBy(counter) = IF gap < Half THEN gap ELSE 1
  BY DEF LostBy, NoCounter
<1>2. gap \in 0 .. CounterMod - 1
  BY counter - (lastCounter + 1) \in Int, CounterMod \in Nat \ {0}, ModEq
<1>3. ASSUME counter = (lastCounter + 1 + missed) % CounterMod PROVE gap = missed
  BY <1>3, lastCounter + 1 \in Int, missed \in 0 .. CounterMod - 1, CounterMod \in Nat \ {0},
     ModGap
<1> HIDE DEF gap
<1> QED BY <1>1, <1>2, <1>3

\* One restart more is one gap more.
LEMMA OneGapMore ==
  ASSUME NEW r \in Nat
  PROVE  /\ (r - 1) * (Half - 1) + (Half - 1) = r * (Half - 1)
         /\ r * (Half - 1) + (Half - 1) = (r + 1) * (Half - 1)
         /\ (r - 1) * (Half - 1) \in Int /\ r * (Half - 1) \in Nat
BY HalfType

\* The books are numbers.
LEMMA FieldTypes ==
  ASSUME TypeOK
  PROVE  /\ /\ stats.received \in Nat /\ stats.lost \in Nat /\ stats.malformed \in Nat
            /\ stats.nonReac \in Nat /\ stats.errors \in Nat /\ stats.statusLast \in Nat
         /\ /\ net.counter \in 0 .. CounterMod - 1 /\ net.sent \in Nat /\ net.missed \in Nat
            /\ net.truth \in Nat /\ net.restarts \in Nat
         /\ /\ ring.write_pos \in Nat /\ ring.read_pos \in Nat /\ ring.dropped \in Nat
            /\ ring.overruns \in Nat
         /\ lastCounter \in Nat
<1>1. lastCounter \in Nat
  <2>1. lastCounter \in 0 .. CounterMod
    BY DEF TypeOK
  <2> QED BY <2>1, DaemonAssumption
<1> QED BY <1>1, Zenon DEF TypeOK

-----------------------------------------------------------------------------
LEMMA InitInvariant == Init => DaemonInvariant
<1> SUFFICES ASSUME Init PROVE DaemonInvariant
  OBVIOUS
<1> USE DaemonAssumption DEF Init, NoRing
<1>1. TypeOK
  <2>1. ring.write_pos - ring.read_pos \in 0 .. Capacity
    OBVIOUS
  <2>2. ring \in [created : BOOLEAN, write_pos : Nat, read_pos : Nat, dropped : Nat,
                  overruns : Nat, clock : Nat, wrote : ChannelCounts \cup {0}]
    OBVIOUS
  <2>3. net \in [counter : 0 .. CounterMod - 1, sent : Nat, missed : Nat, truth : Nat,
                 restarts : Nat, longGap : BOOLEAN, heard : 0 .. 1, told : 0 .. 1]
    OBVIOUS
  <2>4. channels \in ChannelCounts \cup {0} /\ tone \in BOOLEAN /\ isRunning \in BOOLEAN
    OBVIOUS
  <2> QED BY <2>1, <2>2, <2>3, <2>4 DEF TypeOK, NoCounter
<1>2. FramesAccounted
  BY FramesPerPacket * (0 - 0) = 0 DEF FramesAccounted
<1>3. OnlyRingFormatWritten /\ StatusHonest
  BY DEF OnlyRingFormatWritten, StatusHonest
<1>4. LossAccounted
  <2>1. 0 * (Half - 1) = 0
    BY HalfType
  <2> QED BY <2>1 DEF LossAccounted
<1>5. RingStages
  BY DEF RingStages
<1>6. StatusStages
  BY DEF StatusStages
<1>7. CounterStages
  BY DEF CounterStages
<1>8. ToneStages
  <2>1. (0 * Rate) \div Second = 0
    BY 0 * Rate = 0, DivMonotone
  <2> QED BY <2>1 DEF ToneStages
<1> QED BY <1>1, <1>2, <1>3, <1>4, <1>5, <1>6, <1>7, <1>8 DEF DaemonInvariant

\* Steps that accept no packet: at most the device goes on by one the daemon does not note.
LEMMA UnheardInvariant ==
  ASSUME DaemonInvariant, TypeOK',
         UNCHANGED <<tone, channels, ring, lastCounter, due, sent, asked, now, report>>,
         net' = net \/ net' = Skipped,
         /\ stats'.received = stats.received /\ stats'.lost = stats.lost
         /\ stats'.statusLast = stats.statusLast,
         \/ pc' = pc \/ (pc # "gone" /\ pc' = "exit")
         \/ pc # "gone" /\ pc' \in {"loop", "wait"} /\ (tone => pc \notin {"start", "exit"})
  PROVE  DaemonInvariant'
<1> USE DaemonAssumption DEF DaemonInvariant
<1>0. /\ net'.truth = net.truth /\ net'.restarts = net.restarts /\ net'.longGap = net.longGap
      /\ net'.heard = net.heard /\ net'.told = net.told
  BY DEF Skipped, TypeOK
<1>1. FramesAccounted' /\ OnlyRingFormatWritten'
  BY DEF FramesAccounted, OnlyRingFormatWritten
<1>2. StatusHonest'
  BY <1>0 DEF StatusHonest
<1>3. LossAccounted'
  BY <1>0 DEF LossAccounted
<1>4. RingStages'
  <2>1. pc \in {"start", "loop", "status", "wait", "burst", "exit", "gone"}
    BY DEF TypeOK
  <2> QED BY <1>0, <2>1 DEF RingStages
<1>5. StatusStages'
  BY <1>0 DEF StatusStages
<1>6. CounterStages'
  <2> SUFFICES ASSUME lastCounter # NoCounter, ~net.longGap,
                      net.counter = (lastCounter + 1 + net.missed) % CounterMod
               PROVE  net'.counter = (lastCounter + 1 + net'.missed) % CounterMod
    BY <1>0 DEF CounterStages, LossWithin
  <2>1. CASE net' = net
    BY <2>1
  <2>2. CASE net' = Skipped
    <3>1. /\ net'.counter = (net.counter + 1) % CounterMod /\ net'.missed = net.missed + 1
          /\ net.missed \in Nat /\ lastCounter \in Nat
      BY <2>2, FieldTypes, Zenon DEF Skipped, TypeOK
    <3>2. (((lastCounter + 1 + net.missed) % CounterMod) + 1) % CounterMod
          = (lastCounter + 1 + net.missed + 1) % CounterMod
      BY <3>1, lastCounter + 1 + net.missed \in Int, CounterMod \in Nat \ {0}, ModSucc
    <3>3. lastCounter + 1 + net.missed + 1 = lastCounter + 1 + (net.missed + 1)
      BY <3>1
    <3> QED BY <3>1, <3>2, <3>3
  <2> QED BY <2>1, <2>2
<1>7. ToneStages'
  BY DEF ToneStages
<1> QED BY <1>1, <1>2, <1>3, <1>4, <1>5, <1>6, <1>7

\* The device goes on by a packet.
LEMMA SkippedType ==
  ASSUME TypeOK
  PROVE  Skipped \in [counter : 0 .. CounterMod - 1, sent : Nat, missed : Nat, truth : Nat,
                      restarts : Nat, longGap : BOOLEAN, heard : 0 .. 1, told : 0 .. 1]
<1>1. net.counter \in 0 .. CounterMod - 1 /\ net.sent + 1 \in Nat /\ net.missed + 1 \in Nat
  BY FieldTypes
<1>2. (net.counter + 1) % CounterMod \in 0 .. CounterMod - 1
  BY <1>1, net.counter + 1 \in Int, WrapType
<1> QED BY <1>1, <1>2, Zenon DEF TypeOK, Skipped

LEMMA QuietStepInvariant ==
  ASSUME DaemonInvariant,
         \/ StartFails \/ Timeout \/ CaptureError \/ PacketMalformed \/ PacketNotReac
         \/ PacketCreateFails \/ Signal \/ Lose
         \/ \E c \in ChannelCounts : PacketOtherFormat(c)
  PROVE  DaemonInvariant'
<1> USE DaemonAssumption DEF DaemonInvariant
<1>1. CASE StartFails \/ Timeout
  <2>1. TypeOK'
    BY <1>1 DEF StartFails, Timeout, TypeOK
  <2> QED BY <1>1, <2>1, UnheardInvariant DEF StartFails, Timeout
<1>2. CASE CaptureError
  <2>0. stats.errors + 1 \in Nat
    BY FieldTypes
  <2>1. stats' = [stats EXCEPT !.errors = stats.errors + 1]
    BY <1>2 DEF CaptureError
  <2>2. /\ stats'.received = stats.received /\ stats'.lost = stats.lost
        /\ stats'.statusLast = stats.statusLast
        /\ stats' \in [received : Nat, lost : Nat, malformed : Nat, nonReac : Nat, errors : Nat,
                       statusLast : Nat]
    BY <2>0, <2>1, Zenon DEF TypeOK
  <2>3. TypeOK'
    BY <1>2, <2>2 DEF CaptureError, TypeOK
  <2> QED BY <1>2, <2>2, <2>3, UnheardInvariant DEF CaptureError
<1>3. CASE PacketNotReac
  <2>0. stats.nonReac + 1 \in Nat
    BY FieldTypes
  <2>1. stats' = [stats EXCEPT !.nonReac = stats.nonReac + 1]
    BY <1>3 DEF PacketNotReac
  <2>2. /\ stats'.received = stats.received /\ stats'.lost = stats.lost
        /\ stats'.statusLast = stats.statusLast
        /\ stats' \in [received : Nat, lost : Nat, malformed : Nat, nonReac : Nat, errors : Nat,
                       statusLast : Nat]
    BY <2>0, <2>1, Zenon DEF TypeOK
  <2>3. TypeOK'
    BY <1>3, <2>2 DEF PacketNotReac, TypeOK
  <2> QED BY <1>3, <2>2, <2>3, UnheardInvariant DEF PacketNotReac
<1>4. CASE PacketMalformed \/ \E c \in ChannelCounts : PacketOtherFormat(c)
  <2>0. stats.malformed + 1 \in Nat
    BY FieldTypes
  <2>1. /\ stats' = [stats EXCEPT !.malformed = stats.malformed + 1]
        /\ net' = Skipped /\ pc = "wait" /\ pc' = "loop"
        /\ UNCHANGED <<tone, channels, isRunning, ring, lastCounter, due, sent, asked, now, report>>
    BY <1>4 DEF PacketMalformed, PacketOtherFormat
  <2>2. /\ stats'.received = stats.received /\ stats'.lost = stats.lost
        /\ stats'.statusLast = stats.statusLast
        /\ stats' \in [received : Nat, lost : Nat, malformed : Nat, nonReac : Nat, errors : Nat,
                       statusLast : Nat]
    BY <2>0, <2>1, Zenon DEF TypeOK
  <2>3. TypeOK'
    BY <2>1, <2>2, SkippedType DEF TypeOK
  <2> QED BY <2>1, <2>2, <2>3, UnheardInvariant
<1>5. CASE PacketCreateFails \/ Lose
  <2>1. TypeOK'
    BY <1>5, SkippedType, ZenonT(40) DEF PacketCreateFails, Lose, Skipped, TypeOK
  <2> QED BY <1>5, <2>1, UnheardInvariant DEF PacketCreateFails, Lose, Skipped
<1>6. CASE Signal
  <2>1. TypeOK'
    BY <1>6, ZenonT(40) DEF Signal, TypeOK
  <2> QED BY <1>6, <2>1, UnheardInvariant DEF Signal
<1> QED BY <1>1, <1>2, <1>3, <1>4, <1>5, <1>6

LEMMA StartInvariant ==
  ASSUME DaemonInvariant, Start
  PROVE  DaemonInvariant'
<1> USE DaemonAssumption DEF DaemonInvariant, Start
<1>1. CASE channels = 0
  <2>1. TypeOK'
    BY <1>1 DEF TypeOK
  <2>2. ~tone
    BY <1>1 DEF RingStages
  <2> QED BY <1>1, <2>1, <2>2, UnheardInvariant
<1>2. CASE channels # 0
  <2>1. ring' = NewRing /\ stats.received = 0
    BY <1>2 DEF RingStages
  <2>2. Books(ring', 0) /\ ring'.created /\ ring'.wrote = 0
    BY <2>1, NewRingBooks
  <2>4. TypeOK'
    BY <2>2 DEF TypeOK, Books
  <2>5. FramesAccounted'
    BY <2>1, <2>2 DEF FramesAccounted, Books
  <2>6. OnlyRingFormatWritten' /\ StatusHonest'
    BY <2>2 DEF OnlyRingFormatWritten, StatusHonest
  <2>7. LossAccounted' /\ CounterStages'
    BY DEF LossAccounted, CounterStages, LossWithin
  <2>8. RingStages'
    BY <2>2 DEF RingStages
  <2>9. StatusStages' /\ ToneStages'
    BY DEF StatusStages, ToneStages
  <2> QED BY <2>4, <2>5, <2>6, <2>7, <2>8, <2>9
<1> QED BY <1>1, <1>2

\* Within the word the time that is due is the time that passed.
LEMMA DueExact ==
  ASSUME now \in Nat
  PROVE  /\ DueFrames \in Nat /\ (now * Rate) \div Second \in Nat
         /\ NoOverflow /\ now <= MaxTime => DueFrames = (now * Rate) \div Second
<1> USE DaemonAssumption
<1>1. now * Rate \in Nat
  OBVIOUS
<1>2. (now * Rate) % WordMod \in Nat
  BY <1>1, ModEq
<1>3. DueFrames \in Nat /\ (now * Rate) \div Second \in Nat
  BY <1>1, <1>2, DivMonotone DEF DueFrames
<1>4. ASSUME NoOverflow, now <= MaxTime PROVE (now * Rate) % WordMod = now * Rate
  <2>1. now * Rate <= MaxTime * Rate
    BY <1>4
  <2>2. now * Rate \in 0 .. WordMod - 1
    BY <1>1, <1>4, <2>1 DEF NoOverflow
  <2>3. now * Rate = WordMod * 0 + (now * Rate)
    BY <1>1
  <2> QED BY <1>1, <2>2, <2>3, ModUnique
<1> QED BY <1>3, <1>4 DEF DueFrames

LEMMA LoopTestInvariant ==
  ASSUME DaemonInvariant, LoopTest
  PROVE  DaemonInvariant'
<1> USE DaemonAssumption DEF DaemonInvariant, LoopTest
<1>1. CASE ~isRunning
  <2>1. TypeOK'
    BY <1>1 DEF TypeOK
  <2> QED BY <1>1, <2>1, UnheardInvariant
<1>2. CASE isRunning
  <2>0. tone \in BOOLEAN /\ isRunning \in BOOLEAN
    BY DEF TypeOK
  <2>1. /\ tone => pc' = "burst" /\ due' = DueFrames /\ asked' = (now * Rate) \div Second
        /\ ~tone => pc' = "status" /\ UNCHANGED <<due, asked>>
    BY <1>2, <2>0
  <2>2. TypeOK'
    <3>1. due' \in Nat /\ asked' \in Nat
      BY <2>0, <2>1, DueExact DEF TypeOK
    <3>2. pc' \in {"start", "loop", "status", "wait", "burst", "exit", "gone"}
      BY <2>0, <2>1
    <3> QED BY <3>1, <3>2 DEF TypeOK
  <2>3. FramesAccounted' /\ OnlyRingFormatWritten' /\ StatusHonest'
    BY DEF FramesAccounted, OnlyRingFormatWritten, StatusHonest
  <2>4. LossAccounted' /\ CounterStages'
    BY DEF LossAccounted, CounterStages, LossWithin
  <2>5. RingStages'
    BY <2>0, <2>1 DEF RingStages
  <2>6. StatusStages'
    BY DEF StatusStages
  <2>7. ToneStages'
    <3> SUFFICES ASSUME NoOverflow, tone PROVE ToneStages'
      BY DEF ToneStages
    <3>1. now <= MaxTime /\ sent <= asked /\ asked <= (now * Rate) \div Second
      BY DEF ToneStages
    <3>2. /\ pc' = "burst" /\ due' = (now * Rate) \div Second
          /\ asked' = (now * Rate) \div Second /\ (now * Rate) \div Second \in Nat
      BY <2>1, <3>1, DueExact DEF TypeOK
    <3>3. sent \in Nat /\ asked \in Nat /\ now' = now /\ sent' = sent
      BY DEF TypeOK
    <3>4. sent' <= asked' /\ asked' <= (now' * Rate) \div Second
      BY <3>1, <3>2, <3>3
    <3> QED BY <3>1, <3>2, <3>3, <3>4 DEF ToneStages
  <2> QED BY <2>2, <2>3, <2>4, <2>5, <2>6, <2>7
<1> QED BY <1>1, <1>2

\* The status line, during the loop or as the last one.
LEMMA ReportInvariant ==
  ASSUME DaemonInvariant, Report,
         UNCHANGED <<tone, channels, isRunning, lastCounter, due, sent, asked, now>>,
         \/ ring' = ring /\ pc = "status" /\ pc' \in {"loop", "wait"}
         \/ ring' = [ring EXCEPT !.created = FALSE] /\ pc' = "gone"
  PROVE  DaemonInvariant'
<1> USE DaemonAssumption DEF DaemonInvariant
<1>1. /\ stats' \in [received : Nat, lost : Nat, malformed : Nat, nonReac : Nat, errors : Nat,
                     statusLast : Nat]
      /\ stats'.received = stats.received /\ stats'.lost = stats.lost
      /\ stats'.statusLast = stats.received
  BY FieldTypes, Zenon DEF Report, TypeOK
<1>2. /\ net' \in [counter : 0 .. CounterMod - 1, sent : Nat, missed : Nat, truth : Nat,
                   restarts : Nat, longGap : BOOLEAN, heard : 0 .. 1, told : 0 .. 1]
      /\ net'.heard = 0 /\ net'.told = net.heard /\ net'.counter = net.counter
      /\ net'.missed = net.missed /\ net'.truth = net.truth /\ net'.restarts = net.restarts
      /\ net'.longGap = net.longGap
  <2>1. 0 \in 0 .. 1
    OBVIOUS
  <2>2. net' = [net EXCEPT !.heard = 0, !.told = net.heard]
    BY Zenon DEF Report
  <2> QED BY <2>1, <2>2, Zenon DEF TypeOK
<1>3. /\ ring' \in [created : BOOLEAN, write_pos : Nat, read_pos : Nat, dropped : Nat,
                    overruns : Nat, clock : Nat, wrote : ChannelCounts \cup {0}]
      /\ ring'.write_pos = ring.write_pos /\ ring'.read_pos = ring.read_pos
      /\ ring'.dropped = ring.dropped /\ ring'.overruns = ring.overruns
      /\ ring'.clock = ring.clock /\ ring'.wrote = ring.wrote
  BY ZenonT(40) DEF TypeOK
<1>4. TypeOK'
  BY <1>1, <1>2, <1>3 DEF TypeOK, Report
<1>5. FramesAccounted' /\ OnlyRingFormatWritten'
  BY <1>1, <1>3 DEF FramesAccounted, OnlyRingFormatWritten
<1>6. StatusHonest'
  <2>1. /\ tone \in BOOLEAN /\ stats.received \in Nat /\ stats.statusLast \in Nat
        /\ net.heard \in 0 .. 1
    BY FieldTypes, Zenon DEF TypeOK
  <2>2. CASE tone
    <3>1. report' = "tone"
      BY <2>2 DEF Report
    <3> QED BY <3>1 DEF StatusHonest
  <2>3. CASE ~tone
    <3>1. report' = "flowing" <=> stats.received # 0 /\ stats.received # stats.statusLast
      <4>1. CASE stats.received = 0
        <5>1. report' = "no packets"
          BY <2>3, <4>1 DEF Report
        <5> QED BY <4>1, <5>1
      <4>2. CASE stats.received # 0 /\ stats.received = stats.statusLast
        <5>1. report' = "stalled"
          BY <2>3, <4>2 DEF Report
        <5> QED BY <4>2, <5>1
      <4>3. CASE stats.received # 0 /\ stats.received # stats.statusLast
        <5>1. report' = "flowing"
          BY <2>3, <4>3 DEF Report
        <5> QED BY <4>3, <5>1
      <4> QED BY <4>1, <4>2, <4>3
    <3>2. stats.received # stats.statusLast => stats.received # 0
      BY <2>1 DEF StatusStages
    <3> QED BY <1>2, <2>3, <3>1, <3>2 DEF StatusStages, StatusHonest
  <2> QED BY <2>2, <2>3
<1>7. LossAccounted' /\ CounterStages'
  BY <1>1, <1>2 DEF LossAccounted, CounterStages, LossWithin
<1>8. RingStages'
  BY <1>1, <1>2 DEF RingStages
<1>9. StatusStages'
  <2>1. stats.received \in Nat
    BY FieldTypes
  <2> QED BY <1>1, <1>2, <2>1 DEF StatusStages
<1>10. ToneStages'
  BY DEF ToneStages
<1> QED BY <1>4, <1>5, <1>6, <1>7, <1>8, <1>9, <1>10

LEMMA StatusInvariant ==
  ASSUME DaemonInvariant, Status \/ Exit
  PROVE  DaemonInvariant'
<1>1. CASE Status /\ Report
  BY <1>1, ReportInvariant DEF Status
<1>2. CASE Status /\ UNCHANGED <<report, stats, net>>
  <2>1. TypeOK'
    BY <1>2 DEF Status, TypeOK, DaemonInvariant
  <2> QED BY <1>2, <2>1, UnheardInvariant DEF Status
<1>3. CASE Exit
  BY <1>3, ReportInvariant DEF Exit
<1> QED BY <1>1, <1>2, <1>3 DEF Status

\* A packet the daemon accepts: into a new ring or the one there is.
LEMMA PacketInvariant ==
  ASSUME DaemonInvariant, NEW c \in ChannelCounts, Packet(c)
  PROVE  DaemonInvariant'
<1> USE DaemonAssumption DEF DaemonInvariant
<1> DEFINE old == IF ring.created THEN ring ELSE NewRing
<1>0. /\ stats.received \in Nat /\ stats.lost \in Nat /\ stats.statusLast \in Nat
      /\ net.counter \in 0 .. CounterMod - 1 /\ net.missed \in Nat /\ net.truth \in Nat
      /\ net.restarts \in Nat /\ net.sent \in Nat /\ net.longGap \in BOOLEAN
      /\ lastCounter \in 0 .. CounterMod
  BY FieldTypes, Zenon DEF TypeOK
<1>1. Books(old, stats.received) /\ old.created /\ old.wrote \in {0, c}
  <2>1. CASE ring.created
    <3>1. old = ring /\ c = channels
      BY <2>1 DEF Packet
    <3>2. Books(ring, stats.received)
      BY DEF Books, TypeOK, FramesAccounted
    <3> HIDE DEF old
    <3> QED BY <2>1, <3>1, <3>2 DEF OnlyRingFormatWritten
  <2>2. CASE ~ring.created
    <3>1. stats.received = 0
      BY <2>2 DEF Packet, RingStages
    <3>2. old = NewRing
      BY <2>2
    <3> HIDE DEF old
    <3> QED BY <3>1, <3>2, NewRingBooks
  <2> QED BY <2>1, <2>2
<1>2. ring' = WriteRing(old, c)
  BY DEF Packet
<1> HIDE DEF old
<1>3. Books(ring', stats.received + 1) /\ ring'.created /\ ring'.wrote \in {0, c}
  BY <1>0, <1>1, <1>2, WriteBooks
<1>4. /\ LostBy(net.counter) \in Nat
      /\ lastCounter = NoCounter => LostBy(net.counter) = 0
  <2>1. ASSUME lastCounter # NoCounter PROVE LostBy(net.counter) \in Nat
    BY <1>0, <2>1, HalfType, LostByGap, 0 < Half, lastCounter \in 0 .. CounterMod - 1 DEF NoCounter
  <2> QED BY <2>1 DEF LostBy
<1>5. /\ stats' \in [received : Nat, lost : Nat, malformed : Nat, nonReac : Nat, errors : Nat,
                     statusLast : Nat]
      /\ stats'.received = stats.received + 1 /\ stats'.statusLast = stats.statusLast
      /\ stats'.lost = stats.lost + LostBy(net.counter)
  <2>1. stats.received + 1 \in Nat /\ stats.lost + LostBy(net.counter) \in Nat
    BY <1>0, <1>4
  <2>2. stats' = [stats EXCEPT !.lost = stats.lost + LostBy(net.counter),
                               !.received = stats.received + 1]
    BY Zenon DEF Packet
  <2> QED BY <2>1, <2>2, Zenon DEF TypeOK
<1> DEFINE truth == IF lastCounter = NoCounter THEN 0 ELSE net.truth + net.missed
           long == lastCounter # NoCounter /\ (net.longGap \/ net.missed >= Half)
<1>6. /\ net' \in [counter : 0 .. CounterMod - 1, sent : Nat, missed : Nat, truth : Nat,
                   restarts : Nat, longGap : BOOLEAN, heard : 0 .. 1, told : 0 .. 1]
      /\ net'.counter = (net.counter + 1) % CounterMod /\ net'.missed = 0 /\ net'.heard = 1
      /\ net'.truth = truth /\ net'.longGap = long
      /\ net'.told = net.told /\ net'.restarts = net.restarts
  <2>1. (net.counter + 1) % CounterMod \in 0 .. CounterMod - 1
    BY <1>0, net.counter + 1 \in Int, WrapType
  <2>2. truth \in Nat /\ net.sent + 1 \in Nat /\ 0 \in Nat /\ 1 \in 0 .. 1
    BY <1>0
  <2>3. long \in BOOLEAN
    BY Zenon
  <2>4. net' = [net EXCEPT !.counter = (net.counter + 1) % CounterMod, !.sent = net.sent + 1,
                  !.missed = 0, !.heard = 1, !.truth = truth, !.longGap = long]
    BY Zenon DEF Packet, Noted
  <2> HIDE DEF truth, long
  <2> QED BY <2>1, <2>2, <2>3, <2>4, Zenon DEF TypeOK
<1>7. /\ channels' = c /\ lastCounter' = net.counter /\ pc = "wait" /\ pc' = "loop"
      /\ UNCHANGED <<tone, isRunning, due, sent, asked, now, report>>
      /\ c \in ChannelCounts \cup {0} /\ c # 0 /\ lastCounter' # NoCounter
      /\ lastCounter' \in 0 .. CounterMod
  BY <1>0 DEF Packet, NoCounter
<1>8. TypeOK'
  BY <1>3, <1>5, <1>6, <1>7 DEF TypeOK, Books
<1>9. FramesAccounted'
  BY <1>3, <1>5 DEF FramesAccounted, Books
<1>10. OnlyRingFormatWritten'
  BY <1>3, <1>7 DEF OnlyRingFormatWritten
<1>11. StatusHonest'
  BY <1>6, <1>7 DEF StatusHonest
<1>12. LossAccounted'
  <2> SUFFICES ASSUME ~net'.longGap
               PROVE  /\ stats'.lost - net'.truth <= net.restarts * (Half - 1)
                      /\ net'.truth - stats'.lost <= net.restarts * (Half - 1)
    BY <1>6 DEF LossAccounted
  <2>1. /\ (net.restarts - 1) * (Half - 1) + (Half - 1) = net.restarts * (Half - 1)
        /\ (net.restarts - 1) * (Half - 1) \in Int /\ net.restarts * (Half - 1) \in Nat
    BY <1>0, OneGapMore
  <2>2. CASE lastCounter = NoCounter
    <3>1. stats'.lost = 0 /\ net'.truth = 0
      BY <1>4, <1>5, <1>6, <2>2 DEF RingStages
    <3> QED BY <2>1, <3>1
  <2>3. CASE lastCounter # NoCounter
    <3>1. ~net.longGap /\ ~(net.missed >= Half)
      BY <1>6, <2>3
    <3>2. /\ net'.truth = net.truth + net.missed
          /\ stats'.lost = stats.lost + LostBy(net.counter)
      BY <1>5, <1>6, <2>3
    <3>3. /\ LostBy(net.counter) \in 0 .. Half - 1
          /\ net.counter = (lastCounter + 1 + net.missed) % CounterMod
               => LostBy(net.counter) = net.missed
      <4>1. lastCounter \in 0 .. CounterMod - 1 /\ net.missed < Half
        BY <1>0, <2>3, <3>1, HalfType DEF NoCounter
      <4> QED BY <1>0, <4>1, LostByGap
    <3>4. CASE net.counter = (lastCounter + 1 + net.missed) % CounterMod
      BY <1>0, <2>1, <3>1, <3>2, <3>3, <3>4 DEF LossAccounted
    <3>5. CASE LossWithin(net.restarts - 1)
      BY <1>0, <2>1, <3>1, <3>2, <3>3, <3>5, HalfType DEF LossWithin
    <3> QED BY <2>3, <3>1, <3>4, <3>5 DEF CounterStages
  <2> QED BY <2>2, <2>3
<1>13. RingStages'
  BY <1>3, <1>7 DEF RingStages
<1>14. StatusStages'
  BY <1>0, <1>5, <1>6 DEF StatusStages
<1>15. CounterStages'
  <2>1. net'.counter = (lastCounter' + 1 + net'.missed) % CounterMod
    BY <1>0, <1>6, <1>7, net.counter + 1 + 0 = net.counter + 1
  <2> QED BY <2>1 DEF CounterStages
<1>16. ToneStages'
  BY <1>7 DEF ToneStages
<1> QED BY <1>8, <1>9, <1>10, <1>11, <1>12, <1>13, <1>14, <1>15, <1>16

LEMMA ToneInvariant ==
  ASSUME DaemonInvariant, Tone
  PROVE  DaemonInvariant'
<1> USE DaemonAssumption DEF DaemonInvariant
<1>0. /\ pc = "burst" /\ tone /\ ring.created /\ channels \in ChannelCounts
      /\ UNCHANGED <<tone, channels, isRunning, lastCounter, due, asked, now, report, net>>
  BY DEF Tone, RingStages, TypeOK
<1>1. CASE sent + FramesPerPacket <= due
  <2>0. stats.received \in Nat /\ stats.lost \in Nat /\ stats.statusLast \in Nat
    BY FieldTypes
  <2>1. Books(ring, stats.received)
    BY DEF Books, TypeOK, FramesAccounted
  <2>2. ring' = WriteRing(ring, channels) /\ sent' = sent + FramesPerPacket /\ pc' = pc
    BY <1>1 DEF Tone
  <2>3. Books(ring', stats.received + 1) /\ ring'.created /\ ring'.wrote \in {0, channels}
    BY <1>0, <2>0, <2>1, <2>2, WriteBooks DEF OnlyRingFormatWritten
  <2>4. /\ stats' \in [received : Nat, lost : Nat, malformed : Nat, nonReac : Nat, errors : Nat,
                       statusLast : Nat]
        /\ stats'.received = stats.received + 1 /\ stats'.statusLast = stats.statusLast
        /\ stats'.lost = stats.lost
    <3>1. stats.received + 1 \in Nat
      BY <2>0
    <3>2. stats' = [stats EXCEPT !.received = stats.received + 1]
      BY <1>1, Zenon DEF Tone
    <3> QED BY <3>1, <3>2, Zenon DEF TypeOK
  <2>5. TypeOK'
    <3>0. sent \in Nat
      BY DEF TypeOK
    <3>1. sent' \in Nat
      BY <2>2, <3>0
    <3> QED BY <1>0, <2>2, <2>3, <2>4, <3>1 DEF TypeOK, Books
  <2>6. FramesAccounted' /\ OnlyRingFormatWritten'
    BY <1>0, <2>3, <2>4 DEF FramesAccounted, OnlyRingFormatWritten, Books
  <2>7. StatusHonest'
    BY <1>0 DEF StatusHonest
  <2>8. LossAccounted' /\ CounterStages'
    BY <1>0, <2>4 DEF LossAccounted, CounterStages, LossWithin
  <2>9. RingStages'
    BY <1>0, <2>2, <2>3, <2>4 DEF RingStages
  <2>10. StatusStages'
    BY <1>0, <2>0, <2>4 DEF StatusStages
  <2>11. ToneStages'
    BY <1>0, <1>1, <2>2 DEF ToneStages
  <2> QED BY <2>5, <2>6, <2>7, <2>8, <2>9, <2>10, <2>11
<1>2. CASE ~(sent + FramesPerPacket <= due)
  <2>1. pc' = "status" /\ UNCHANGED <<ring, sent, stats>>
    BY <1>2 DEF Tone
  <2>2. TypeOK'
    BY <1>0, <2>1 DEF TypeOK
  <2>3. FramesAccounted' /\ OnlyRingFormatWritten' /\ StatusHonest' /\ StatusStages'
    BY <1>0, <2>1 DEF FramesAccounted, OnlyRingFormatWritten, StatusHonest, StatusStages
  <2>4. LossAccounted' /\ CounterStages'
    BY <1>0, <2>1 DEF LossAccounted, CounterStages, LossWithin
  <2>5. RingStages'
    BY <1>0, <2>1 DEF RingStages
  <2>6. ToneStages'
    <3>1. sent \in Nat /\ due \in Nat /\ asked \in Nat
      BY DEF TypeOK
    <3> QED BY <1>0, <1>2, <2>1, <3>1 DEF ToneStages
  <2> QED BY <2>2, <2>3, <2>4, <2>5, <2>6
<1> QED BY <1>1, <1>2

\* The device restarts: from now on one more gap may be miscounted.
LEMMA RestartInvariant ==
  ASSUME DaemonInvariant, NEW c \in 0 .. CounterMod - 1, DeviceRestart(c)
  PROVE  DaemonInvariant'
<1> USE DaemonAssumption DEF DaemonInvariant
<1>0. stats.lost \in Nat /\ net.truth \in Nat /\ net.restarts \in Nat
  BY FieldTypes
<1>1. /\ net' \in [counter : 0 .. CounterMod - 1, sent : Nat, missed : Nat, truth : Nat,
                   restarts : Nat, longGap : BOOLEAN, heard : 0 .. 1, told : 0 .. 1]
      /\ net'.truth = net.truth /\ net'.longGap = net.longGap /\ net'.heard = net.heard
      /\ net'.told = net.told /\ net'.restarts = net.restarts + 1
  <2>1. net.restarts + 1 \in Nat
    BY <1>0
  <2>2. net' = [net EXCEPT !.counter = c, !.restarts = net.restarts + 1]
    BY Zenon DEF DeviceRestart
  <2> QED BY <2>1, <2>2, Zenon DEF TypeOK
<1>2. UNCHANGED <<tone, channels, isRunning, pc, ring, stats, lastCounter, due, sent, asked, now, report>>
  BY DEF DeviceRestart
<1>3. TypeOK'
  BY <1>1, <1>2, ZenonT(40) DEF TypeOK
<1>4. FramesAccounted' /\ OnlyRingFormatWritten' /\ StatusHonest'
  BY <1>1, <1>2 DEF FramesAccounted, OnlyRingFormatWritten, StatusHonest
<1>5. RingStages' /\ StatusStages' /\ ToneStages'
  BY <1>1, <1>2 DEF RingStages, StatusStages, ToneStages
<1>6. LossAccounted'
  <2>1. net.restarts * (Half - 1) + (Half - 1) = net'.restarts * (Half - 1)
        /\ net.restarts * (Half - 1) \in Nat
    BY <1>0, <1>1, OneGapMore
  <2> QED BY <1>0, <1>1, <1>2, <2>1, HalfType DEF LossAccounted
<1>7. CounterStages'
  <2>1. net'.restarts - 1 = net.restarts
    BY <1>0, <1>1
  <2> QED BY <1>1, <1>2, <2>1 DEF CounterStages, LossWithin, LossAccounted
<1> QED BY <1>3, <1>4, <1>5, <1>6, <1>7

LEMMA ReaderInvariant ==
  ASSUME DaemonInvariant, NEW n \in 1 .. Capacity, ReaderTakes(n)
  PROVE  DaemonInvariant'
<1> USE DaemonAssumption DEF DaemonInvariant
<1>1. UNCHANGED <<tone, channels, isRunning, pc, stats, lastCounter, due, sent, asked, now, report, net>>
  BY DEF ReaderTakes
<1>2. ring.read_pos \in Nat /\ ring.write_pos \in Nat
  BY FieldTypes
<1>3. ring.read_pos + n \in Nat /\ ring.write_pos - (ring.read_pos + n) \in 0 .. Capacity
  <2>1. /\ n \in Nat /\ n <= ring.write_pos - ring.read_pos
        /\ ring.write_pos - ring.read_pos \in 0 .. Capacity
    <3>1. n \in Nat
      OBVIOUS
    <3> QED BY <3>1, Zenon DEF TypeOK, ReaderTakes
  <2> QED BY <1>2, <2>1
<1>4. /\ ring' \in [created : BOOLEAN, write_pos : Nat, read_pos : Nat, dropped : Nat,
                    overruns : Nat, clock : Nat, wrote : ChannelCounts \cup {0}]
      /\ ring'.write_pos = ring.write_pos /\ ring'.read_pos = ring.read_pos + n
      /\ ring'.dropped = ring.dropped /\ ring'.overruns = ring.overruns
      /\ ring'.clock = ring.clock /\ ring'.wrote = ring.wrote
      /\ ring'.created = ring.created /\ ring.created
  <2>1. ring' = [ring EXCEPT !.read_pos = ring.read_pos + n] /\ ring.created
    BY Zenon DEF ReaderTakes
  <2> QED BY <1>3, <2>1, Zenon DEF TypeOK
<1>5. TypeOK'
  BY <1>1, <1>3, <1>4 DEF TypeOK
<1>6. FramesAccounted' /\ OnlyRingFormatWritten' /\ StatusHonest'
  BY <1>1, <1>4 DEF FramesAccounted, OnlyRingFormatWritten, StatusHonest
<1>7. LossAccounted' /\ CounterStages'
  BY <1>1 DEF LossAccounted, CounterStages, LossWithin
<1>8. RingStages'
  BY <1>1, <1>4 DEF RingStages
<1>9. StatusStages' /\ ToneStages'
  BY <1>1 DEF StatusStages, ToneStages
<1> QED BY <1>5, <1>6, <1>7, <1>8, <1>9

LEMMA TickInvariant ==
  ASSUME DaemonInvariant, Tick
  PROVE  DaemonInvariant'
<1> USE DaemonAssumption DEF DaemonInvariant
<1>1. /\ UNCHANGED <<tone, channels, isRunning, pc, ring, stats, lastCounter, due, sent, asked, report, net>>
      /\ now < MaxTime /\ now' = now + 1 /\ now \in Nat /\ asked \in Nat
  BY DEF Tick, TypeOK
<1>2. TypeOK'
  <2>1. now' \in Nat
    BY <1>1
  <2> QED BY <1>1, <2>1, ZenonT(40) DEF TypeOK
<1>3. FramesAccounted' /\ OnlyRingFormatWritten' /\ StatusHonest' /\ RingStages' /\ StatusStages'
  BY <1>1 DEF FramesAccounted, OnlyRingFormatWritten, StatusHonest, RingStages, StatusStages
<1>4. LossAccounted' /\ CounterStages'
  BY <1>1 DEF LossAccounted, CounterStages, LossWithin
<1>5. ToneStages'
  <2>1. now * Rate \in Nat /\ now' * Rate \in Nat /\ now * Rate <= now' * Rate
    BY <1>1
  <2>2. /\ (now * Rate) \div Second \in Nat /\ (now' * Rate) \div Second \in Nat
        /\ (now * Rate) \div Second <= (now' * Rate) \div Second
    BY <2>1, DivMonotone
  <2>3. now' <= MaxTime
    BY <1>1
  <2>4. asked <= (now * Rate) \div Second => asked <= (now' * Rate) \div Second
    BY <1>1, <2>2
  <2> QED BY <1>1, <2>3, <2>4 DEF ToneStages
<1> QED BY <1>2, <1>3, <1>4, <1>5

-----------------------------------------------------------------------------
(* The theorems. *)

LEMMA StutterInvariant ==
  ASSUME DaemonInvariant, UNCHANGED vars
  PROVE  DaemonInvariant'
<1> USE DEF DaemonInvariant, vars
<1>1. TypeOK'
  BY ZenonT(40) DEF TypeOK
<1>2. FramesAccounted' /\ OnlyRingFormatWritten' /\ StatusHonest' /\ RingStages' /\ StatusStages'
  BY DEF FramesAccounted, OnlyRingFormatWritten, StatusHonest, RingStages, StatusStages
<1>3. LossAccounted' /\ CounterStages' /\ ToneStages'
  BY DEF LossAccounted, CounterStages, LossWithin, ToneStages
<1> QED BY <1>1, <1>2, <1>3

\* In every state of every run of reacjackd the frames in the ring, the packets received, the
\* packets dropped and the published clock agree, only the ring's format was written, the
\* status line tells a flowing stream from a stalled one, and the books of note_counter and
\* of the tone are kept.
THEOREM DaemonSafety == Spec => []DaemonInvariant
<1>1. DaemonInvariant /\ [Next]_vars => DaemonInvariant'
  <2> SUFFICES ASSUME DaemonInvariant, [Next]_vars PROVE DaemonInvariant'
    OBVIOUS
  <2>1. CASE DaemonStep
    BY <2>1, QuietStepInvariant, StartInvariant, LoopTestInvariant, StatusInvariant,
       PacketInvariant, ToneInvariant DEF DaemonStep
  <2>2. CASE Signal \/ Lose \/ Tick
    BY <2>2, QuietStepInvariant, TickInvariant
  <2>3. CASE \E c \in 0 .. CounterMod - 1 : DeviceRestart(c)
    BY <2>3, RestartInvariant
  <2>4. CASE \E n \in 1 .. Capacity : ReaderTakes(n)
    BY <2>4, ReaderInvariant
  <2>5. CASE UNCHANGED vars
    BY <2>5, StutterInvariant
  <2> QED BY <2>1, <2>2, <2>3, <2>4, <2>5 DEF Next
<1> QED BY <1>1, InitInvariant, PTL DEF Spec

\* note_counter: whatever is lost, damaged or refused and however the counter wraps,
\* lost_packets is off by less than half the counter's range for each restart of the device.
THEOREM LossesAccounted == Spec => []LossAccounted
<1>1. DaemonInvariant => LossAccounted
  BY DEF DaemonInvariant
<1> QED BY <1>1, DaemonSafety, PTL

\* run_tone: as long as the product of time and rate fits its word, the tone is after each
\* burst less than a packet behind the clock at which the burst began, and never ahead of it.
THEOREM ToneKeepsTime ==
  ASSUME NoOverflow
  PROVE  Spec => []ToneKeepsUp
<1>1. DaemonInvariant => ToneKeepsUp
  BY NoOverflow DEF DaemonInvariant, ToneStages, ToneKeepsUp
<1> QED BY <1>1, DaemonSafety, PTL
=============================================================================
