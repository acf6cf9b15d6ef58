------------------------------ MODULE HalProofs ------------------------------
(***************************************************************************)
(* Proofs about the CoreAudio driver: its IO (HalDriver), for any finite   *)
(* set of clients and any limit of their count; its clock (HalTimeline),   *)
(* for any rates, periods and thresholds; its property tables              *)
(* (HalProperties), for any size of a buffer.                              *)
(***************************************************************************)
EXTENDS HalDriver, HalTimeline, HalProperties, FiniteSetTheorems, TLAPS

-----------------------------------------------------------------------------
(* Counting clients. *)

LEMMA CountedFinite ==
  /\ IsFiniteSet(Counted) /\ Cardinality(Counted) \in Nat
  /\ Cardinality(Counted) = 0 <=> Counted = {}
<1>1. IsFiniteSet(Counted)
  BY HalDriverAssumption, FS_Subset DEF Counted
<1> QED BY <1>1, FS_CardinalityType, FS_EmptySet

\* A client that becomes counted adds one, ...
LEMMA CountedAdd ==
  ASSUME TypeOK, NEW c \in Clients, cpc[c] \notin {"in", "stopping"},
         Goto(c, "in")
  PROVE  Cardinality(Counted') = Cardinality(Counted) + 1
<1>1. Counted' = Counted \cup {c} /\ c \notin Counted
  BY DEF Counted, Goto, TypeOK
<1> QED BY <1>1, CountedFinite, FS_AddElement

\* ... and one that no longer is takes one away.
LEMMA CountedRemove ==
  ASSUME TypeOK, NEW c \in Clients, cpc[c] = "stopping",
         Goto(c, "out") \/ Goto(c, "closing")
  PROVE  /\ Cardinality(Counted) > 0
         /\ Cardinality(Counted') = Cardinality(Counted) - 1
<1>1. Counted' = Counted \ {c} /\ c \in Counted
  BY DEF Counted, Goto, TypeOK
<1> DEFINE S == Counted
<1>2. IsFiniteSet(S)
  BY CountedFinite
<1> HIDE DEF S
<1>3. IsFiniteSet(S \ {c}) /\ Cardinality(S \ {c}) = IF c \in S THEN Cardinality(S) - 1 ELSE Cardinality(S)
  BY <1>2, FS_RemoveElement, Zenon
<1>4. Cardinality(S) \in Nat /\ Cardinality(S \ {c}) \in Nat
  BY <1>2, <1>3, FS_CardinalityType, Zenon
<1>5. Cardinality(S) > 0 /\ Cardinality(S \ {c}) = Cardinality(S) - 1
  <2>1. c \in S
    BY <1>1 DEF S
  <2> DEFINE a == Cardinality(S)
             b == Cardinality(S \ {c})
  <2>2. a \in Nat /\ b \in Nat /\ b = a - 1
    BY <1>3, <1>4, <2>1
  <2> HIDE DEF a, b
  <2>3. a > 0 /\ b = a - 1
    BY <2>2
  <2> QED BY <2>3 DEF a, b
<1> QED BY <1>1, <1>5 DEF S

\* Steps of a client that stays on its side of the count.
LEMMA CountedSame ==
  ASSUME TypeOK, NEW c \in Clients, NEW label, Goto(c, label),
         cpc[c] \in {"in", "stopping"} <=> label \in {"in", "stopping"}
  PROVE  Counted' = Counted
BY DEF Counted, Goto, TypeOK

-----------------------------------------------------------------------------
LEMMA InitInvariant == Init => DriverInvariant
<1> SUFFICES ASSUME Init PROVE DriverInvariant
  OBVIOUS
<1> USE HalDriverAssumption DEF Init
<1>1. Counted = {}
  BY DEF Counted
<1>2. CountExact
  BY <1>1, FS_EmptySet DEF CountExact
<1>3. TypeOK
  <2>1. ioIsRunning \in 0 .. CountMax
    OBVIOUS
  <2>2. mutex \in Clients \cup {Nobody} /\ ringIsOpen \in BOOLEAN /\ mapped \in BOOLEAN
    OBVIOUS
  <2>3. cpc \in [Clients -> {"out", "starting", "opening", "seeking", "in", "stopping", "closing"}]
    OBVIOUS
  <2> QED BY <2>1, <2>2, <2>3 DEF TypeOK
<1>4. MappingTracked /\ RunningHonest
  BY DEF MappingTracked, RunningHonest
<1>5. MutexStages
  BY DEF MutexStages
<1>6. IOStages
  BY DEF IOStages, In
<1> QED BY <1>2, <1>3, <1>4, <1>5, <1>6 DEF DriverInvariant

\* While the mutex is held over a system call no client is counted and no IO goes on.
LEMMA HeldIsQuiet ==
  ASSUME DriverInvariant
  PROVE  ioIsRunning = 0 => Counted = {} /\ In = {} /\ io = "idle" /\ steady = {}
<1>1. ioIsRunning = 0 => Counted = {}
  BY CountedFinite DEF DriverInvariant, CountExact
<1>2. In \subseteq Counted
  BY DEF In, Counted
<1> QED BY <1>1, <1>2 DEF DriverInvariant, IOStages

-----------------------------------------------------------------------------
(* The invariant is preserved by every step of a client, ... *)

LEMMA StartInvariant ==
  ASSUME DriverInvariant, NEW c \in Clients,
         StartCall(c) \/ StartRefused(c) \/ StartMore(c) \/ StartFirst(c)
  PROVE  DriverInvariant'
<1> USE HalDriverAssumption DEF DriverInvariant, Goto, ring
<1>1. CASE StartCall(c)
  <2> USE <1>1 DEF StartCall
  <2>1. CountExact'
    BY CountedSame DEF CountExact
  <2> QED BY <2>1 DEF TypeOK, MappingTracked, RunningHonest, MutexStages, IOStages, In
<1>2. CASE StartRefused(c)
  <2> USE <1>2 DEF StartRefused
  <2>1. CountExact'
    BY CountedSame DEF CountExact
  <2> QED BY <2>1 DEF TypeOK, MappingTracked, RunningHonest, MutexStages, IOStages, In
<1>3. CASE StartMore(c)
  <2> USE <1>3 DEF StartMore
  <2>1. CountExact'
    BY CountedAdd DEF CountExact
  <2>2. TypeOK'
    BY DEF TypeOK
  <2> QED BY <2>1, <2>2 DEF TypeOK, MappingTracked, RunningHonest, MutexStages, IOStages, In
<1>4. CASE StartFirst(c)
  <2> USE <1>4 DEF StartFirst
  <2>1. CountExact'
    BY CountedSame DEF CountExact
  <2> QED BY <2>1 DEF TypeOK, MappingTracked, RunningHonest, MutexStages, IOStages, In
<1> QED BY <1>1, <1>2, <1>3, <1>4

LEMMA StopInvariant ==
  ASSUME DriverInvariant, NEW c \in Clients, StopCall(c) \/ Stop(c)
  PROVE  DriverInvariant'
<1> USE HalDriverAssumption DEF DriverInvariant, Goto, ring
<1>1. CASE StopCall(c)
  <2> USE <1>1 DEF StopCall
  <2>1. CountExact'
    BY CountedSame DEF CountExact
  <2>2. IOStages'
    BY DEF IOStages, In, TypeOK
  <2> QED BY <2>1, <2>2 DEF TypeOK, MappingTracked, RunningHonest, MutexStages
<1>2. CASE Stop(c)
  <2> USE <1>2 DEF Stop
  <2>1. ioIsRunning > 0 /\ CountExact'
    BY CountedRemove DEF CountExact
  <2>2. TypeOK'
    BY <2>1 DEF TypeOK
  <2>3. MutexStages' /\ MappingTracked'
    BY <2>1 DEF MutexStages, MappingTracked, TypeOK
  <2> QED BY <2>1, <2>2, <2>3 DEF TypeOK, RunningHonest, IOStages, In
<1> QED BY <1>1, <1>2

LEMMA HolderInvariant ==
  ASSUME DriverInvariant, NEW c \in Clients, Holder(c)
  PROVE  DriverInvariant'
<1> USE HalDriverAssumption DEF DriverInvariant, Goto, ring
<1>0. mutex = c /\ ioIsRunning = 0 /\ Counted = {} /\ In = {} /\ io = "idle" /\ steady = {}
  BY HeldIsQuiet DEF Holder, OpenRing, OpenFails, Seek, Unmap, Close, MutexStages
<1>1. CASE OpenRing(c)
  <2> USE <1>1 DEF OpenRing
  <2>1. CountExact'
    BY CountedSame DEF CountExact
  <2> QED BY <1>0, <2>1 DEF TypeOK, MappingTracked, RunningHonest, MutexStages, IOStages, In
<1>2. CASE OpenFails(c)
  <2> USE <1>2 DEF OpenFails
  <2>1. CountExact'
    BY CountedAdd DEF CountExact
  <2>2. TypeOK'
    <3>1. ioIsRunning' \in 0 .. CountMax
      BY <1>0
    <3>2. cpc' \in [Clients -> {"out", "starting", "opening", "seeking", "in", "stopping",
                              "closing"}]
      BY DEF TypeOK
    <3> QED BY <3>1, <3>2 DEF TypeOK
  <2>3. MutexStages' /\ MappingTracked'
    BY <1>0, <2>2 DEF MutexStages, MappingTracked, TypeOK
  <2> QED BY <1>0, <2>1, <2>2, <2>3 DEF RunningHonest, IOStages
<1>3. CASE Seek(c)
  <2> USE <1>3 DEF Seek
  <2>1. CountExact'
    BY CountedAdd DEF CountExact
  <2>2. TypeOK'
    BY <1>0 DEF TypeOK
  <2>3. MutexStages' /\ MappingTracked'
    BY <1>0, <2>2 DEF MutexStages, MappingTracked, TypeOK
  <2> QED BY <1>0, <2>1, <2>2, <2>3 DEF RunningHonest, IOStages
<1>4. CASE Unmap(c)
  BY <1>0, <1>4 DEF Unmap, TypeOK, CountExact, Counted, MappingTracked, RunningHonest,
     MutexStages, IOStages, In
<1>5. CASE Close(c)
  <2> USE <1>5 DEF Close
  <2>1. CountExact'
    BY CountedSame DEF CountExact
  <2> QED BY <1>0, <2>1 DEF TypeOK, MappingTracked, RunningHonest, MutexStages, IOStages, In
<1> QED BY <1>1, <1>2, <1>3, <1>4, <1>5 DEF Holder

\* ... of the IO thread, which is in progress only when a client has IO started, and of
\* the thread that asks.
LEMMA IOInvariant ==
  ASSUME DriverInvariant, StampCall \/ Stamp \/ ReadBegin \/ ReadEnd
  PROVE  DriverInvariant'
<1> USE HalDriverAssumption DEF DriverInvariant, ring
<1>1. CountExact'
  BY DEF StampCall, Stamp, ReadBegin, ReadEnd, CountExact, Counted
<1>2. IOStages'
  BY DEF StampCall, Stamp, ReadBegin, ReadEnd, IOStages, In
<1> QED BY <1>1, <1>2 DEF StampCall, Stamp, ReadBegin, ReadEnd, TypeOK, MappingTracked,
       RunningHonest, MutexStages

LEMMA AskerInvariant ==
  ASSUME DriverInvariant, AskRunning \/ AnswerRunning \/ AskerDone
  PROVE  DriverInvariant'
<1> USE HalDriverAssumption DEF DriverInvariant, ring, AskRunning, AnswerRunning, AskerDone
<1>1. CountExact' /\ MappingTracked' /\ MutexStages'
  BY DEF CountExact, Counted, MappingTracked, MutexStages
<1>2. TypeOK' /\ IOStages'
  BY DEF TypeOK, IOStages, In
<1>3. RunningHonest'
  BY HeldIsQuiet DEF RunningHonest, TypeOK
<1> QED BY <1>1, <1>2, <1>3

LEMMA NextInvariant == DriverInvariant /\ [Next]_vars => DriverInvariant'
<1> SUFFICES ASSUME DriverInvariant, [Next]_vars PROVE DriverInvariant'
  OBVIOUS
<1>1. CASE UNCHANGED vars
  BY <1>1 DEF vars, DriverInvariant, TypeOK, CountExact, Counted, MappingTracked,
     RunningHonest, MutexStages, IOStages, In
<1>2. CASE Next
  BY <1>2, StartInvariant, StopInvariant, HolderInvariant, IOInvariant, AskerInvariant
     DEF Next
<1> QED BY <1>1, <1>2

\* The count of running clients, the mapping of the ring and the answer to whether the
\* device runs agree with what any number of clients did.
THEOREM DriverSafety == Spec => []DriverInvariant
BY InitInvariant, NextInvariant, PTL DEF Spec

\* DoIOOperation never reads an unmapped ring or one a StartIO is seeking in, although it
\* takes no mutex.
THEOREM ReadsAreSafe == Spec => []ReadsMappedRing
<1>1. DriverInvariant => ReadsMappedRing
  <2> SUFFICES ASSUME DriverInvariant, io = "read"
               PROVE  mapped /\ \A c \in Clients : cpc[c] \notin {"seeking", "closing"}
    BY DEF ReadsMappedRing
  <2>1. mutex = Nobody
    BY HeldIsQuiet DEF DriverInvariant, MutexStages
  <2> QED BY <2>1, HalDriverAssumption DEF DriverInvariant, MutexStages, MappingTracked, IOStages
<1> QED BY <1>1, DriverSafety, PTL

\* GetZeroTimeStamp never waits for shm_open, mmap or munmap.
THEOREM StampsDoNotWait == Spec => []StampNeverWaitsForSyscall
<1>1. DriverInvariant => StampNeverWaitsForSyscall
  BY HeldIsQuiet DEF DriverInvariant, MutexStages, StampNeverWaitsForSyscall
<1> QED BY <1>1, DriverSafety, PTL

-----------------------------------------------------------------------------
(* The clock: quotients and fractions. *)

\* Division rounds down.
LEMMA FloorBounds ==
  ASSUME NEW a \in Nat, NEW b \in Nat \ {0}
  PROVE  /\ a \div b \in Nat
         /\ b * (a \div b) <= a /\ a < b * (a \div b) + b
BY SMTT(30)

\* A product grows with its factor, ...
LEMMA TimesMonotone ==
  ASSUME NEW a \in Int, NEW b \in Int, NEW c \in Nat, a <= b
  PROVE  a * c <= b * c /\ c * a <= c * b
BY SMTT(30)

\* ... and a positive factor cancels.
LEMMA TimesCancels ==
  ASSUME NEW a \in Int, NEW b \in Int, NEW c \in Nat \ {0}
  PROVE  /\ a * c < b * c => a < b
         /\ a * c <= b * c => a <= b
         /\ a < b => a * c < b * c
BY SMTT(30)

\* Rounded down, more is not less.
LEMMA FloorMonotone ==
  ASSUME NEW a \in Nat, NEW b \in Nat, NEW d \in Nat \ {0}, a <= b
  PROVE  a \div d <= b \div d
<1>1. /\ a \div d \in Nat /\ d * (a \div d) <= a
      /\ b \div d \in Nat /\ b < d * (b \div d) + d
  BY FloorBounds
<1>2. d * (a \div d) < d * (b \div d) + d
  BY <1>1
<1>3. d * (b \div d) + d = d * ((b \div d) + 1)
  BY <1>1
<1>4. a \div d < (b \div d) + 1
  BY <1>1, <1>2, <1>3, TimesCancels
<1> QED BY <1>1, <1>4

\* What fits k times goes in at least k times.
LEMMA FloorOfQuotient ==
  ASSUME NEW a \in Nat, NEW d \in Nat \ {0}, NEW k \in Nat, k * d <= a
  PROVE  k <= a \div d
<1>1. a \div d \in Nat /\ a < d * (a \div d) + d
  BY FloorBounds
<1>2. k * d < ((a \div d) + 1) * d
  BY <1>1
<1>3. k < (a \div d) + 1
  BY <1>1, <1>2, TimesCancels
<1> QED BY <1>1, <1>3

\* The stamp a driver makes el ticks after the anchor at p ticks per q frames, with periods
\* of f frames: n periods have passed and they took h ticks, rounded down.
LEMMA StampArithmetic ==
  ASSUME NEW el \in Nat, NEW p \in Nat \ {0}, NEW q \in Nat \ {0}, NEW f \in Nat \ {0}
  PROVE  LET n == (el * q) \div (p * f)
             h == (n * p * f) \div q
         IN
         /\ n \in Nat /\ h \in Nat /\ n * p * f \in Nat /\ n * p * f <= el * q
         /\ h <= el /\ (el - h - 1) * q < p * f
         /\ n * p * f - q < h * q /\ h * q <= n * p * f
         /\ \A m \in Nat : m * p * f <= el * q => m <= n
<1> DEFINE n == (el * q) \div (p * f)
           h == (n * p * f) \div q
           period == p * f
           passed == el * q
<1>1. period \in Nat \ {0} /\ passed \in Nat
  OBVIOUS
<1> HIDE DEF period, passed
<1>2. n = passed \div period
  BY DEF period, passed
<1> HIDE DEF n
<1>3. n \in Nat /\ period * n <= passed /\ passed < period * n + period
  BY <1>1, <1>2, FloorBounds
<1>4. \A m \in Nat : m * p * f = period * m /\ period * m \in Nat
  BY DEF period
<1> DEFINE ticks == period * n
<1>5. ticks \in Nat /\ ticks = n * p * f
  BY <1>3, <1>4
<1> HIDE DEF ticks
<1>6. h \in Nat /\ q * h <= ticks /\ ticks < q * h + q
  <2>1. h = ticks \div q
    BY <1>5
  <2> HIDE DEF h
  <2> QED BY <1>5, <2>1, FloorBounds
<1> HIDE DEF h
<1>7. h * q = q * h /\ h * q \in Nat
  BY <1>6
<1>8. h * q <= el * q
  <2>1. ticks <= passed
    BY <1>3 DEF ticks
  <2>2. h * q <= passed
    BY <1>1, <1>5, <1>6, <1>7, <2>1
  <2> QED BY <2>2 DEF passed
<1>9. h <= el
  BY <1>6, <1>8, TimesCancels
<1>10. (el - h - 1) * q = el * q - h * q - q
  BY <1>6
<1>11. (el - h - 1) * q < p * f
  BY <1>1, <1>3, <1>5, <1>6, <1>7, <1>10 DEF ticks, passed, period
<1>12. ASSUME NEW m \in Nat, m * p * f <= el * q PROVE m <= n
  <2>1. m * period = period * m /\ m * period \in Nat
    BY <1>1
  <2>2. m * period <= passed
    BY <1>4, <1>12, <2>1 DEF passed
  <2> QED BY <1>1, <1>2, <2>2, FloorOfQuotient
<1>13. n * p * f <= el * q
  BY <1>3, <1>5 DEF ticks, passed
<1>14. n * p * f - q < h * q /\ h * q <= n * p * f
  BY <1>5, <1>6, <1>7
<1>15. /\ n \in Nat /\ h \in Nat /\ n * p * f \in Nat /\ n * p * f <= el * q
       /\ h <= el /\ (el - h - 1) * q < p * f
       /\ n * p * f - q < h * q /\ h * q <= n * p * f
       /\ \A m \in Nat : m * p * f <= el * q => m <= n
  BY <1>3, <1>5, <1>6, <1>9, <1>11, <1>12, <1>13, <1>14
<1> QED BY <1>15, Zenon DEF n, h

\* The rates the driver believes in are fractions, and the lower one is not above the other.
LEMMA RatesBelieved ==
  /\ Low \in Fraction /\ High \in Fraction
/\ ~Less(High, Low)
/\ Low[1] = Nominal * (SkewInv - 1) /\ Low[2] = SkewInv
/\ High[1] = Nominal * (SkewInv + 1) /\ High[2] = SkewInv
<1>1. Nominal \in Nat \ {0} /\ SkewInv \in Nat \ {0} /\ SkewInv > 1
  BY HalTimelineAssumption
<1>2. /\ Nominal * (SkewInv - 1) \in Nat \ {0} /\ Nominal * (SkewInv + 1) \in Nat \ {0}
      /\ Nominal * (SkewInv - 1) <= Nominal * (SkewInv + 1)
  BY <1>1
<1>3. Nominal * (SkewInv - 1) * SkewInv <= Nominal * (SkewInv + 1) * SkewInv
  BY <1>1, <1>2, TimesMonotone
<1> QED BY <1>1, <1>2, <1>3 DEF Low, High, Fraction, Less

\* Whatever was observed, the estimate is a rate the driver believes in.
LEMMA ClampBelieved ==
  ASSUME NEW t \in Int, NEW n \in Nat \ {0}
  PROVE  /\ Clamp(<<t, n>>) \in Fraction
         /\ ~Less(Clamp(<<t, n>>), Low)
         /\ ~Less(High, Clamp(<<t, n>>))
<1> DEFINE low == Nominal * (SkewInv - 1)
<1>1. SkewInv \in Nat \ {0} /\ low \in Nat \ {0}
  BY RatesBelieved, HalTimelineAssumption DEF Fraction, Low
<1>2. /\ Low \in Fraction /\ High \in Fraction
      /\ ~Less(High, Low)
      /\ Low = <<low, SkewInv>>
  BY RatesBelieved DEF Low
<1> HIDE DEF low
<1>3. /\ ~Less(Low, Low)
      /\ ~Less(High, High)
  BY <1>2 DEF Less, Fraction
<1>4. ASSUME ~Less(<<t, n>>, Low) PROVE <<t, n>> \in Fraction
  <2>1. low * n \in Nat \ {0}
    BY <1>1
  <2>2. t * SkewInv > 0
    BY <1>1, <1>2, <1>4, <2>1 DEF Less
  <2>3. t > 0
    BY <1>1, <2>2
  <2> QED BY <2>3 DEF Fraction
<1> QED BY <1>2, <1>3, <1>4 DEF Clamp

\* A window of n frames of a steady source says what one frame says.
LEMMA WindowScales ==
  ASSUME NEW s \in Nat \ {0}, NEW n \in Nat \ {0},
         NEW b \in Fraction
  PROVE  /\ Near(Clamp(<<n * s, n>>), b) => Near(Clamp(<<s, 1>>), b)
         /\ b = Clamp(<<n * s, n>>) => Near(Clamp(<<s, 1>>), b)
<1>1. BandInv \in Nat \ {0}
  BY HalTimelineAssumption
<1>2. ASSUME NEW r \in Fraction
      PROVE  /\ Less(<<n * s, n>>, r) <=> Less(<<s, 1>>, r)
             /\ Less(r, <<n * s, n>>) <=> Less(r, <<s, 1>>)
  <2> DEFINE p == r[1]
             q == r[2]
  <2>1. p \in Nat \ {0} /\ q \in Nat \ {0}
    BY <1>2 DEF Fraction
  <2> HIDE DEF p, q
  <2>2. s * q \in Nat /\ (n * s) * q = (s * q) * n
    BY <2>1
  <2>3. ((s * q) * n < p * n <=> s * q < p) /\ (p * n < (s * q) * n <=> p < s * q)
    BY <2>1, <2>2, TimesCancels
  <2> QED BY <2>1, <2>2, <2>3 DEF Less, p, q
<1>3. ASSUME NEW r \in Fraction PROVE Near(r, r)
  BY <1>1, <1>3 DEF Near, Fraction
<1>4. /\ Near(<<n * s, n>>, b) => Near(<<s, 1>>, b)
      /\ b = <<n * s, n>> => Near(<<s, 1>>, b)
  <2> DEFINE p == b[1]
             q == b[2]
             d == s * q - p
             a == IF d < 0 THEN -d ELSE d
  <2>1. p \in Nat \ {0} /\ q \in Nat \ {0} /\ b = <<p, q>>
    BY DEF Fraction
  <2> HIDE DEF p, q
  <2>2. d \in Int /\ a \in Nat /\ a * BandInv \in Nat
    BY <1>1, <2>1
  <2>3. (n * s) * q - p * n = d * n /\ (d < 0 <=> d * n < 0) /\ -(d * n) = (-d) * n
    BY <2>1, <2>2
  <2>4. Near(<<s, 1>>, b) <=> a * BandInv <= p
    BY <2>1, <2>2 DEF Near
  <2>5. Near(<<n * s, n>>, b) <=> (a * n) * BandInv <= p * n
    BY <2>1, <2>2, <2>3 DEF Near
  <2>6. (a * n) * BandInv = (a * BandInv) * n
    BY <1>1, <2>2
  <2>7. (a * BandInv) * n <= p * n => a * BandInv <= p
    BY <2>1, <2>2, TimesCancels
  <2>8. b = <<n * s, n>> => d = 0
    BY <2>1
  <2>9. d = 0 => a * BandInv <= p
    BY <1>1, <2>1
  <2> QED BY <2>4, <2>5, <2>6, <2>7, <2>8, <2>9
<1>5. Low \in Fraction /\ High \in Fraction
  BY RatesBelieved
<1> QED BY <1>2, <1>3, <1>4, <1>5 DEF Clamp

\* The last stamp lies m periods behind anchor t on the line of rate r, and they have passed.
OnLine(m, t, r) ==
  /\ last.sample = t.sample + m * RingFrames
  /\ last.time = t.time + (m * r[1] * RingFrames) \div r[2]
  /\ m * r[1] * RingFrames <= (now - t.time) * r[2]

\* Whole periods divide exactly.
LEMMA QuotientExact ==
  ASSUME NEW m \in Nat, NEW f \in Nat \ {0}
  PROVE  (m * f) \div f = m
<1>1. m * f \in Nat /\ m <= (m * f) \div f
  BY FloorOfQuotient
<1>2. (m * f) \div f \in Nat /\ f * ((m * f) \div f) <= m * f
  BY <1>1, FloorBounds
<1>3. (m * f) \div f <= m
  BY <1>2, TimesCancels
<1> QED BY <1>1, <1>2, <1>3

\* update_clock_estimate leaves the line as it is or begins a new one at the last stamp.
LEMMA LineContinues ==
  ASSUME TimelineInvariant, UNCHANGED now,
         Observe \/ ObserveNothing
  PROVE  /\ anchor' \in Time /\ slaved' \in Fraction
         /\ ~Less(slaved', Low) /\ ~Less(High, slaved')
         /\ ref' \in Observation /\ seed' \in Nat
         /\ seed' = seed => slaved' = slaved
         /\ \E m \in Nat : OnLine(m, anchor', slaved')
<1> USE DEF TimelineInvariant, TimelineTypeOK
<1>1. RingFrames \in Nat \ {0} /\ MinObserved \in Nat \ {0}
  BY HalTimelineAssumption
<1>2. StampPeriods \in Nat /\ OnLine(StampPeriods, anchor, slaved)
  <2>1. last.sample - anchor.sample \in Nat
    BY DEF StampStages, Time
  <2>2. StampPeriods \in Nat
    BY <1>1, <2>1, FloorBounds DEF StampPeriods
  <2> QED BY <2>2 DEF StampStages, OnLine
<1>3. CASE UNCHANGED <<anchor, slaved, seed>> /\ ref' \in {ref, clock}
  BY <1>2, <1>3
<1>4. CASE Enough /\ Rebase /\ UNCHANGED ref
  <2>1. clock.pos - ref.pos \in Nat \ {0} /\ clock.time - ref.time \in Int
    BY <1>1, <1>4 DEF Enough, Observation
  <2>2. /\ slaved' \in Fraction
        /\ ~Less(slaved', Low) /\ ~Less(High, slaved')
    BY <1>4, <2>1, ClampBelieved DEF Rebase, Estimate
  <2>3. anchor' = last /\ seed' = seed + 1 /\ seed' # seed
    BY <1>4 DEF Rebase
  <2>4. now - last.time \in Nat
    <3> DEFINE el == now - anchor.time
               q == slaved[2]
               ticks == StampPeriods * slaved[1] * RingFrames
    <3>1. el \in Int /\ q \in Nat \ {0} /\ ticks \in Nat
      BY <1>1, <1>2 DEF Fraction, Time
    <3>2. ticks <= el * q /\ last.time = anchor.time + (ticks \div q)
      BY DEF StampStages
    <3>3. last.time \in Nat /\ anchor.time \in Nat
      BY DEF Time
    <3> HIDE DEF el, q, ticks
    <3>4. ticks \div q \in Nat /\ q * (ticks \div q) <= ticks
      BY <3>1, FloorBounds
    <3>5. (ticks \div q) * q <= el * q
      BY <3>1, <3>2, <3>4
    <3>6. ticks \div q <= el
      BY <3>1, <3>4, <3>5, TimesCancels
    <3> QED BY <3>1, <3>2, <3>3, <3>4, <3>6 DEF el
  <2>5. OnLine(0, last, slaved')
    <3> DEFINE p == slaved'[1]
               q == slaved'[2]
    <3>1. p \in Nat \ {0} /\ q \in Nat \ {0}
      BY <2>2 DEF Fraction
    <3>2. last.time \in Nat /\ last.sample \in Nat
      BY DEF Time
    <3> HIDE DEF p, q
    <3>3. 0 * p * RingFrames = 0 /\ 0 \div q = 0 /\ 0 <= (now - last.time) * q /\ 0 * RingFrames = 0
      BY <1>1, <2>4, <3>1
    <3> QED BY <3>1, <3>2, <3>3 DEF OnLine, p, q
  <2> QED BY <1>4, <2>2, <2>3, <2>5
<1> QED BY <1>3, <1>4 DEF Observe, ObserveNothing

\* GetZeroTimeStamp after the estimate: the stamp is m or more periods behind the anchor.
LEMMA StampStep ==
  ASSUME TimelineTypeOK, UNCHANGED now,
         anchor' \in Time, slaved' \in Fraction,
         NEW m \in Nat, OnLine(m, anchor', slaved'), NewStamp
  PROVE  /\ last' \in Time /\ StampStages'
         /\ last'.time >= last.time /\ last'.sample >= last.sample
         /\ last'.time <= now
         /\ (now - last'.time - 1) * slaved'[2] < slaved'[1] * RingFrames
         /\ AtRate(slaved')
<1> DEFINE p == slaved'[1]
           q == slaved'[2]
           f == RingFrames
           t == anchor'.time
           el == now - t
           n == (el * q) \div (p * f)
           h == (n * p * f) \div q
           g == (m * p * f) \div q
<1>1. p \in Nat \ {0} /\ q \in Nat \ {0} /\ f \in Nat \ {0} /\ t \in Nat /\ el \in Int
  BY HalTimelineAssumption DEF Fraction, Time, TimelineTypeOK
<1>2. /\ last.sample \in Nat /\ last.time \in Nat /\ anchor'.sample \in Nat
      /\ last.sample = anchor'.sample + m * f
      /\ last.time = t + g /\ m * p * f <= el * q
  BY DEF OnLine, TimelineTypeOK, Time
<1>3. last' = IF t + h < last.time THEN last
              ELSE [time |-> t + h, sample |-> anchor'.sample + n * f]
  BY DEF NewStamp, Periods
<1> HIDE DEF p, q, f, t, el, n, h, g
<1>4. m * p * f \in Nat
  BY <1>1
<1>5. el \in Nat
  <2>1. 0 * q <= el * q
    BY <1>1, <1>2, <1>4
  <2> QED BY <1>1, <2>1, TimesCancels
<1>6. /\ n \in Nat /\ h \in Nat /\ n * p * f \in Nat /\ n * p * f <= el * q
      /\ h <= el /\ (el - h - 1) * q < p * f
      /\ n * p * f - q < h * q /\ h * q <= n * p * f
      /\ m <= n
  <2>1. /\ n \in Nat /\ h \in Nat /\ n * p * f \in Nat /\ n * p * f <= el * q
        /\ h <= el /\ (el - h - 1) * q < p * f
        /\ n * p * f - q < h * q /\ h * q <= n * p * f
        /\ \A k \in Nat : k * p * f <= el * q => k <= n
    BY <1>1, <1>5, StampArithmetic, Zenon DEF n, h
  <2> QED BY <1>2, <2>1, Zenon
<1>7. g \in Nat /\ q * g <= m * p * f /\ m * p * f < q * g + q
  BY <1>1, <1>4, FloorBounds DEF g
<1>8. m * p * f <= n * p * f /\ m * f <= n * f /\ m * f \in Nat /\ n * f \in Nat
  <2>1. m * p <= n * p /\ m * p \in Nat /\ n * p \in Nat
    BY <1>1, <1>6, TimesMonotone
  <2> QED BY <1>1, <1>6, <2>1, TimesMonotone
<1>9. g <= h
  BY <1>1, <1>4, <1>6, <1>8, FloorMonotone DEF g, h
<1>10. last' = [time |-> t + h, sample |-> anchor'.sample + n * f]
  BY <1>1, <1>2, <1>3, <1>6, <1>7, <1>9
<1>11. last'.time = t + h /\ last'.sample = anchor'.sample + n * f
  BY <1>10
<1>12. last' \in Time
  <2>1. t + h \in Nat /\ anchor'.sample + n * f \in Nat
    BY <1>1, <1>2, <1>6, <1>8
  <2> QED BY <1>10, <2>1 DEF Time
<1>13. StampPeriods' = n
  <2>1. last'.sample - anchor'.sample = n * f
    BY <1>2, <1>8, <1>11
  <2>2. (n * f) \div f = n
    BY <1>1, <1>6, QuotientExact
  <2> QED BY <2>1, <2>2 DEF StampPeriods, f
<1>14. now \in Nat /\ el = now - t
  BY DEF TimelineTypeOK, el
<1>15. StampStages'
  <2>1. last'.sample >= anchor'.sample /\ last'.sample = anchor'.sample + n * f
    BY <1>2, <1>8, <1>11
  <2>2. last'.time = t + (n * p * f) \div q
    BY <1>11 DEF h
  <2>3. n * p * f <= (now' - t) * q
    BY <1>6, <1>14
  <2> QED BY <1>13, <2>1, <2>2, <2>3 DEF StampStages, p, q, f, t
<1>16. last'.time >= last.time /\ last'.sample >= last.sample /\ last'.time <= now
  BY <1>1, <1>2, <1>6, <1>7, <1>8, <1>9, <1>11, <1>14
<1>17. (now - last'.time - 1) * q < p * f
  <2>1. now - last'.time - 1 = el - h - 1
    BY <1>1, <1>6, <1>11, <1>14
  <2> QED BY <1>6, <2>1
<1>18. AtRate(slaved')
  <2> DEFINE d == (last'.time - last.time) * q - (last'.sample - last.sample) * p
  <2>1. last'.time - last.time = h - g /\ last'.sample - last.sample = n * f - m * f
    BY <1>1, <1>2, <1>6, <1>7, <1>8, <1>11
  <2>2. (h - g) * q = h * q - q * g /\ h * q \in Nat /\ q * g \in Nat
    BY <1>1, <1>6, <1>7
  <2>3. (n * f - m * f) * p = n * p * f - m * p * f
    BY <1>1, <1>6
  <2>4. d = h * q - q * g - (n * p * f - m * p * f)
    BY <2>1, <2>2, <2>3
  <2>5. -q <= d /\ d <= q
    BY <1>1, <1>4, <1>6, <1>7, <2>2, <2>4
  <2> QED BY <2>5 DEF AtRate, p, q
<1> QED BY <1>12, <1>15, <1>16, <1>17, <1>18 DEF p, q, f

\* The nominal rate is one the driver believes in.
LEMMA NominalBelieved ==
  /\ <<Nominal, 1>> \in Fraction
/\ ~Less(<<Nominal, 1>>, Low)
/\ ~Less(High, <<Nominal, 1>>)
<1>1. Nominal \in Nat \ {0} /\ SkewInv \in Nat \ {0} /\ SkewInv > 1
  BY HalTimelineAssumption
<1>2. /\ Nominal * (SkewInv - 1) = Nominal * SkewInv - Nominal
      /\ Nominal * (SkewInv + 1) = Nominal * SkewInv + Nominal
      /\ Nominal * SkewInv \in Nat
  BY <1>1
<1> QED BY <1>1, <1>2 DEF Fraction, Less, Low, High

\* No periods have passed on a line that begins at its anchor.
LEMMA FreshLine ==
  ASSUME NEW r \in Fraction, NEW t \in Nat, NEW el \in Nat
  PROVE  /\ (t - t) \div RingFrames = 0 /\ t = t + 0 * RingFrames
         /\ 0 * r[1] * RingFrames = 0 /\ 0 \div r[2] = 0 /\ 0 <= el * r[2]
<1> DEFINE p == r[1]
           q == r[2]
<1>1. p \in Nat \ {0} /\ q \in Nat \ {0} /\ RingFrames \in Nat \ {0}
  BY HalTimelineAssumption DEF Fraction
<1> HIDE DEF p, q
<1>2. 0 * p * RingFrames = 0 /\ 0 \div q = 0 /\ 0 <= el * q
      /\ 0 * RingFrames = 0 /\ (t - t) \div RingFrames = 0
  BY <1>1
<1> QED BY <1>2 DEF p, q

-----------------------------------------------------------------------------
(* The clock: the invariant. *)

\* Initialize leaves an empty line at the nominal rate.
LEMMA LineStartsEmpty ==
  ASSUME TimelineInit
  PROVE  TimelineInvariant
<1> USE DEF TimelineInit
<1>1. /\ {Nominal, RingFrames, MinObserved, SkewInv, BandInv, Capacity} \subseteq Nat \ {0}
      /\ SkewInv > 1 /\ SourceTicks \subseteq Nat \ {0}
      /\ MaxStarts \in Nat /\ MaxLost \in Nat
  BY HalTimelineAssumption
<1>2. /\ slaved \in Fraction
      /\ ~Less(slaved, Low) /\ ~Less(High, slaved)
  BY <1>1, NominalBelieved
<1>3. /\ anchor \in Time /\ last \in Time /\ anchor.time = 0
      /\ clock \in Observation /\ ref \in Observation
      /\ clock.pos = 0 /\ ref.pos = 0
  <2>1. 0 \in Nat
    OBVIOUS
  <2> QED BY <2>1 DEF Time, Origin, Observation, None
<1>4. TimelineTypeOK
  <2>1. /\ now \in Nat /\ due \in Nat /\ source \in SourceTicks /\ pos \in Nat /\ fill \in 0 .. Capacity
        /\ seed \in Nat /\ starts \in 0 .. MaxStarts /\ lost \in 0 .. MaxLost /\ observed \in Nat
    BY <1>1
  <2>2. running \in BOOLEAN /\ open \in BOOLEAN /\ fresh \in BOOLEAN
    BY Zenon
  <2> QED BY <1>2, <1>3, <2>1, <2>2, Zenon DEF TimelineTypeOK
<1>5. StampStages
  <2>1. now - anchor.time \in Nat /\ last = anchor
        /\ last.sample \in Nat /\ last.time \in Nat
    BY <1>3 DEF Time
  <2>2. StampPeriods = 0
    BY <1>2, <2>1, FreshLine DEF StampPeriods
  <2> QED BY <1>2, <2>1, <2>2, FreshLine DEF StampStages
<1>6. ObservationStages /\ FollowsSteadySource
  BY <1>1 DEF ObservationStages, None, FollowsSteadySource
<1> QED BY <1>4, <1>5, <1>6 DEF TimelineInvariant

\* As time passes, the stamp stays on the line.
LEMMA LineStays ==
  ASSUME TimelineTypeOK, StampStages,
         UNCHANGED <<anchor, last, slaved>>, now' \in Nat, now <= now'
  PROVE  StampStages'
<1> DEFINE q == slaved[2]
           k == StampPeriods * slaved[1] * RingFrames
           a == now - anchor.time
           b == now' - anchor.time
<1>1. q \in Nat \ {0} /\ a \in Int /\ b \in Int /\ a <= b
  BY DEF TimelineTypeOK, Fraction, Time
<1>2. k <= a * q
  BY DEF StampStages
<1>3. k \in Nat
  <2>1. last.sample - anchor.sample \in Nat /\ RingFrames \in Nat \ {0} /\ slaved[1] \in Nat
    BY HalTimelineAssumption DEF StampStages, TimelineTypeOK, Time, Fraction
  <2>2. StampPeriods \in Nat
    BY <2>1, FloorBounds DEF StampPeriods
  <2> QED BY <2>1, <2>2
<1> HIDE DEF k, q, a, b
<1>4. k <= b * q
  <2>1. a * q <= b * q /\ a * q \in Int /\ b * q \in Int
    BY <1>1, TimesMonotone
  <2> QED BY <1>2, <1>3, <2>1
<1>5. StampPeriods' = StampPeriods
  BY DEF StampPeriods
<1> QED BY <1>4, <1>5 DEF StampStages, k, q, b

\* What the driver does not do leaves its line and its rate alone.
LEMMA AroundInvariant ==
  ASSUME TimelineInvariant,
         \/ Tick \/ Packet \/ PacketRefused \/ PacketLost
         \/ StopIO \/ UNCHANGED TimelineVars
  PROVE  TimelineInvariant'
<1> USE DEF TimelineInvariant
<1>0. /\ Capacity \in Nat \ {0} /\ SourceTicks \subseteq Nat \ {0} /\ MaxLost \in Nat
      /\ MaxStarts \in Nat
  BY HalTimelineAssumption
<1>1. /\ UNCHANGED <<source, anchor, last, slaved, seed, ref, starts, observed>>
      /\ now' \in {now, now + 1} /\ due' \in {due, due + source} /\ pos' \in {pos, pos + 1}
      /\ fill' = fill \/ (fill < Capacity /\ fill' = fill + 1)
      /\ clock' = clock \/ clock' = [time |-> now, pos |-> pos + 1]
      /\ lost' = lost \/ (lost < MaxLost /\ lost' = lost + 1)
  BY DEF Tick, Packet, PacketRefused, PacketLost,
         StopIO, TimelineVars, env, timeline
<1>2. /\ running' \in {running, FALSE} /\ open' \in {open, FALSE} /\ fresh' \in {fresh, FALSE}
  BY Zenon DEF Tick, Packet, PacketRefused, PacketLost,
         StopIO, TimelineVars, env, timeline
<1>9. (fresh' => fresh) /\ (open' => open)
  <2>1. fresh \in BOOLEAN /\ open \in BOOLEAN
    BY DEF TimelineTypeOK
  <2>2. (fresh = FALSE => fresh' = FALSE) /\ (open = FALSE => open' = FALSE)
    BY <1>2, Zenon
  <2> QED BY <2>1, <2>2, Zenon
<1>3. /\ now' \in Nat /\ now <= now' /\ due' \in Nat /\ pos' \in Nat /\ fill' \in 0 .. Capacity
      /\ lost' \in 0 .. MaxLost
  BY <1>0, <1>1 DEF TimelineTypeOK
<1>4. clock' \in Observation
  <2>1. now \in Nat /\ pos + 1 \in Nat /\ clock \in Observation
    BY DEF TimelineTypeOK
  <2> QED BY <1>1, <2>1 DEF Observation
<1>5. TimelineTypeOK'
  <2>1. running' \in BOOLEAN /\ open' \in BOOLEAN /\ fresh' \in BOOLEAN
    BY <1>2, Zenon DEF TimelineTypeOK
  <2>2. /\ source' \in SourceTicks /\ ref' \in Observation
        /\ anchor' \in Time /\ last' \in Time /\ slaved' \in Fraction
        /\ ~Less(slaved', Low) /\ ~Less(High, slaved')
        /\ seed' \in Nat /\ starts' \in 0 .. MaxStarts /\ observed' \in Nat
    BY <1>1 DEF TimelineTypeOK
  <2> QED BY <1>3, <1>4, <2>1, <2>2, Zenon DEF TimelineTypeOK
<1>6. StampStages'
  BY <1>1, <1>3, LineStays
<1>7. FollowsSteadySource'
  <2>1. Follows' <=> Follows
    BY <1>1 DEF Follows, Near, Clamp, Less
  <2> QED BY <1>1, <1>9, <2>1 DEF FollowsSteadySource
<1>8. ObservationStages'
  <2>1. CASE Packet
    <3>1. /\ now = due /\ fill < Capacity /\ due' = due + source /\ pos' = pos + 1
          /\ clock' = [time |-> now, pos |-> pos + 1] /\ UNCHANGED <<source, ref>>
          /\ open => fill' = fill
      BY <2>1 DEF Packet, timeline
    <3>2. clock'.time = now /\ clock'.pos = pos + 1
      BY <3>1
    <3>3. now \in Nat /\ due \in Nat /\ pos \in Nat /\ source \in Nat \ {0}
          /\ clock \in Observation /\ ref \in Observation
      BY <1>0 DEF TimelineTypeOK
    <3>4. clock.time \in Nat /\ clock.pos \in Nat /\ ref.pos \in Nat /\ ref.time \in Nat
      BY <3>3 DEF Observation
    <3>5. /\ clock'.pos = pos' /\ pos' # 0 /\ ref'.pos <= pos' /\ (ref'.pos = 0 => ref' = None)
      BY <3>1, <3>2, <3>3, <3>4 DEF ObservationStages
    <3>6. due' = clock'.time + source'
      BY <3>1, <3>2
    <3>7. ASSUME fresh, open, ref # None
          PROVE  clock'.time - ref.time = (clock'.pos - ref.pos) * source
      <4>1. /\ clock.time - ref.time = (clock.pos - ref.pos) * source
            /\ clock = None \/ due = clock.time + source
        BY <3>1, <3>7 DEF ObservationStages
      <4>2. ref.pos # 0 /\ clock.pos = pos /\ pos # 0
        BY <3>3, <3>4, <3>7 DEF ObservationStages
      <4>3. clock # None
        BY <4>2 DEF None
      <4>4. now = clock.time + source
        BY <3>1, <4>1, <4>3
      <4> DEFINE d == clock.pos - ref.pos
      <4>5. d \in Int /\ clock'.pos - ref.pos = d + 1
        BY <3>2, <3>4, <4>2
      <4> HIDE DEF d
      <4>6. (d + 1) * source = d * source + source /\ d * source \in Int
        BY <3>3, <4>5
      <4>7. clock.time - ref.time = d * source
        BY <4>1 DEF d
      <4> QED BY <3>2, <3>3, <3>4, <4>4, <4>5, <4>6, <4>7
    <3> QED BY <1>9, <3>1, <3>5, <3>6, <3>7 DEF ObservationStages
  <2>2. CASE ~Packet
    <3>1. UNCHANGED <<pos, clock, fill>>
      BY <2>2 DEF Tick, Packet, PacketRefused, PacketLost,
         StopIO, TimelineVars, env, timeline
    <3>2. fresh' => due' = due \/ fill = Capacity
      BY <2>2 DEF Tick, Packet, PacketRefused, PacketLost,
         StopIO, TimelineVars, env, timeline
    <3> QED BY <1>0, <1>1, <1>9, <3>1, <3>2 DEF ObservationStages
  <2> QED BY <2>1, <2>2
<1> QED BY <1>5, <1>6, <1>7, <1>8

\* A recording begins on a line of its own.
LEMMA RecordingBegins ==
  ASSUME TimelineInvariant, NEW opens \in BOOLEAN,
         StartIO(opens)
  PROVE  TimelineInvariant'
<1> USE DEF TimelineInvariant
<1>0. /\ Capacity \in Nat \ {0} /\ TargetFill \in 0 .. Capacity /\ MaxStarts \in Nat
      /\ MinObserved \in Nat \ {0}
  BY HalTimelineAssumption
<1>1. /\ UNCHANGED <<now, source, due, pos, clock, lost, seed>>
      /\ starts < MaxStarts /\ starts' = starts + 1 /\ observed' = 0
      /\ anchor' = [time |-> now, sample |-> 0] /\ last' = anchor'
      /\ slaved' = <<Nominal, 1>> /\ ref' = None
      /\ fill' \in {fill, TargetFill}
  BY DEF StartIO
<1>2. running' = TRUE /\ open' = opens /\ fresh' = (clock = None \/ due = clock.time + source)
  BY Zenon DEF StartIO
<1>3. /\ fill' \in 0 .. Capacity /\ starts' \in 0 .. MaxStarts /\ observed' \in Nat
      /\ now' \in Nat
  BY <1>0, <1>1 DEF TimelineTypeOK
<1>4. last' \in Time /\ anchor' \in Time /\ anchor'.time = now'
  <2>1. now \in Nat /\ 0 \in Nat
    BY DEF TimelineTypeOK
  <2> QED BY <1>1, <2>1 DEF Time
<1>5. ref' \in Observation /\ ref'.pos = 0
  <2>1. 0 \in Nat
    OBVIOUS
  <2> QED BY <1>1, <2>1 DEF Observation, None
<1>6. /\ slaved' \in Fraction
      /\ ~Less(slaved', Low) /\ ~Less(High, slaved')
  BY <1>1, NominalBelieved
<1>7. TimelineTypeOK'
  <2>1. running' \in BOOLEAN /\ open' \in BOOLEAN /\ fresh' \in BOOLEAN
    BY <1>2, Zenon
  <2>2. /\ source' \in SourceTicks /\ due' \in Nat /\ pos' \in Nat /\ seed' \in Nat
        /\ clock' \in Observation /\ lost' \in 0 .. MaxLost
    BY <1>1 DEF TimelineTypeOK
  <2> QED BY <1>3, <1>4, <1>5, <1>6, <2>1, <2>2, Zenon DEF TimelineTypeOK
<1>8. StampStages'
  <2>1. now' - anchor'.time \in Nat /\ last' = anchor'
        /\ last'.sample \in Nat /\ last'.time \in Nat
    BY <1>1, <1>3, <1>4 DEF Time
  <2>2. StampPeriods' = 0
    BY <1>6, <2>1, FreshLine DEF StampPeriods
  <2> QED BY <1>6, <2>1, <2>2, FreshLine DEF StampStages
<1>9. FollowsSteadySource'
  BY <1>0, <1>1 DEF FollowsSteadySource
<1>10. ObservationStages'
  <2>1. fresh' => clock' = None \/ due' = clock'.time + source'
    BY <1>1, <1>2, Zenon
  <2>2. pos \in Nat
    BY DEF TimelineTypeOK
  <2>3. /\ clock'.pos = pos' /\ (pos' = 0 => clock' = None)
        /\ ref'.pos <= pos' /\ ref' = None
    BY <1>1, <1>5, <2>2 DEF ObservationStages
  <2> QED BY <2>1, <2>3 DEF ObservationStages
<1> QED BY <1>7, <1>8, <1>9, <1>10

\* GetZeroTimeStamp: what one call does to the stamps.
LEMMA ZeroTimeStampStep ==
  ASSUME TimelineInvariant, GetZeroTimeStamp
  PROVE  /\ last' \in Time /\ StampStages'
         /\ last'.time >= last.time /\ last'.sample >= last.sample
         /\ last'.time <= now
         /\ (now - last'.time - 1) * slaved'[2] < slaved'[1] * RingFrames
         /\ AtRate(slaved')
         /\ seed' = seed => slaved' = slaved
<1>1. UNCHANGED now /\ (Observe \/ ObserveNothing) /\ NewStamp
  BY DEF GetZeroTimeStamp, env
<1>2. /\ anchor' \in Time /\ slaved' \in Fraction
      /\ seed' = seed => slaved' = slaved
      /\ \E m \in Nat : OnLine(m, anchor', slaved')
  BY <1>1, LineContinues
<1>3. PICK m \in Nat : OnLine(m, anchor', slaved')
  BY <1>2
<1>4. TimelineTypeOK
  BY DEF TimelineInvariant
<1> QED BY <1>1, <1>2, <1>3, <1>4, StampStep

\* GetZeroTimeStamp preserves the invariant; the estimate it makes of a steady source is the
\* rate of the source.
LEMMA ZeroTimeStampInvariant ==
  ASSUME TimelineInvariant, GetZeroTimeStamp
  PROVE  TimelineInvariant'
<1> USE DEF TimelineInvariant
<1>1. /\ UNCHANGED <<now, source, due, pos, fill, clock, lost, running, open, starts, fresh>>
      /\ Observe \/ ObserveNothing
  BY DEF GetZeroTimeStamp, env
<1>2. /\ clock \in Observation /\ ref \in Observation /\ slaved \in Fraction
      /\ observed \in Nat /\ pos \in Nat /\ source \in Nat \ {0}
      /\ MinObserved \in Nat \ {0}
  BY HalTimelineAssumption DEF TimelineTypeOK
<1>3. clock.time \in Nat /\ clock.pos \in Nat /\ ref.pos \in Nat /\ ref.time \in Nat
  BY <1>2 DEF Observation
<1>4. ref' \in {ref, clock}
  BY DEF GetZeroTimeStamp, Observe, ObserveNothing
<1>5. clock.pos = pos /\ ref.pos <= pos
  BY DEF ObservationStages
<1>6. observed' \in Nat
  <2>1. observed' \in {observed, 0, clock.pos - ref.pos}
    BY <1>4 DEF GetZeroTimeStamp
  <2> QED BY <1>2, <1>3, <1>5, <2>1
<1>7. TimelineTypeOK'
  <2>1. /\ anchor' \in Time /\ slaved' \in Fraction
        /\ ~Less(slaved', Low) /\ ~Less(High, slaved')
        /\ ref' \in Observation /\ seed' \in Nat
    BY <1>1, LineContinues
  <2>2. last' \in Time
    BY ZeroTimeStampStep
  <2> QED BY <1>1, <1>6, <2>1, <2>2, Zenon DEF TimelineTypeOK
<1>8. StampStages'
  BY ZeroTimeStampStep
<1>9. ObservationStages'
  <2>1. CASE ref' = ref
    BY <1>1, <2>1 DEF ObservationStages
  <2>2. CASE ref' = clock
    <3>1. clock.time - clock.time = (clock.pos - clock.pos) * source /\ clock.pos <= pos
      BY <1>2, <1>3, <1>5
    <3>2. clock.pos = 0 => clock = None
      BY DEF ObservationStages
    <3> QED BY <1>1, <2>2, <3>1, <3>2 DEF ObservationStages
  <2> QED BY <1>4, <2>1, <2>2
<1>10. FollowsSteadySource'
  <2> SUFFICES ASSUME fresh, observed' >= MinObserved
               PROVE  Near(Clamp(<<source, 1>>), slaved')
    BY <1>1 DEF FollowsSteadySource, Follows, Near, Clamp, Less
  <2>1. CASE ObserveNothing /\ UNCHANGED observed
    <3>1. slaved' = slaved /\ observed' = observed
      BY <2>1 DEF ObserveNothing
    <3>2. Near(Clamp(<<source, 1>>), slaved)
      BY <3>1 DEF FollowsSteadySource, Follows
    <3> QED BY <3>1, <3>2
  <2>2. CASE Observe /\ observed' = IF ref' = clock THEN 0 ELSE clock.pos - ref'.pos
    <3> DEFINE n == clock.pos - ref.pos
    <3>1. ref' # clock
      BY <1>2, <2>2
    <3>2. /\ open /\ ref # None /\ ~(clock.pos < ref.pos) /\ ref' = ref
          /\ IF Enough /\ ~Near(Estimate, slaved) THEN Rebase
             ELSE UNCHANGED <<anchor, slaved, seed>>
      BY <2>2, <3>1 DEF Observe
    <3>3. n >= MinObserved /\ n \in Nat \ {0} /\ clock.pos >= ref.pos
      BY <1>2, <1>3, <2>2, <3>1, <3>2
    <3>4. Enough
      BY <3>2, <3>3 DEF Enough
    <3>5. clock.time - ref.time = n * source
      BY <3>2 DEF ObservationStages
    <3>6. Estimate = Clamp(<<n * source, n>>)
      BY <3>5 DEF Estimate
    <3> HIDE DEF n
    <3>7. CASE Near(Estimate, slaved)
      <4>1. slaved' = slaved
        BY <3>2, <3>7
      <4> QED BY <1>2, <3>3, <3>6, <3>7, <4>1, WindowScales
    <3>8. CASE ~Near(Estimate, slaved)
      <4>1. slaved' = Clamp(<<n * source, n>>)
        BY <3>2, <3>4, <3>6, <3>8 DEF Rebase
      <4>2. slaved' \in Fraction
        BY <1>1, LineContinues
      <4> QED BY <1>2, <3>3, <4>1, <4>2, WindowScales
    <3> QED BY <3>7, <3>8
  <2> QED BY <2>1, <2>2 DEF GetZeroTimeStamp
<1> QED BY <1>7, <1>8, <1>9, <1>10

\* Every step preserves the invariant.
LEMMA TimelineStep ==
  ASSUME TimelineInvariant, [TimelineNext]_TimelineVars
  PROVE  TimelineInvariant'
<1>1. ASSUME NEW opens \in BOOLEAN, StartIO(opens) PROVE TimelineInvariant'
  BY <1>1, RecordingBegins
<1>2. CASE GetZeroTimeStamp
  BY <1>2, ZeroTimeStampInvariant
<1>3. CASE \/ Tick \/ Packet \/ PacketRefused \/ PacketLost
           \/ StopIO \/ UNCHANGED TimelineVars
  BY <1>3, AroundInvariant
<1> QED BY <1>1, <1>2, <1>3 DEF TimelineNext

\* Within a recording only GetZeroTimeStamp makes a stamp or changes the rate.
LEMMA OtherSteps ==
  ASSUME TimelineInvariant, TimelineNext, SameRecording
  PROVE  GetZeroTimeStamp \/ (last' = last /\ slaved' = slaved)
<1>1. ASSUME NEW opens \in BOOLEAN, StartIO(opens) PROVE FALSE
  BY <1>1 DEF StartIO, SameRecording, TimelineInvariant, TimelineTypeOK
<1>2. CASE Tick \/ Packet \/ PacketRefused \/ PacketLost
           \/ StopIO
  BY <1>2 DEF Tick, Packet, PacketRefused, PacketLost,
              StopIO, timeline
<1> QED BY <1>1, <1>2 DEF TimelineNext

\* In every state the slaved rate is one the driver believes in, the last stamp lies on the line
\* of that rate, and for a steady recording the rate is the source's (update_clock_estimate,
\* GetZeroTimeStamp).
THEOREM TimelineSafety == TimelineSpec => []TimelineInvariant
<1>1. TimelineInit => TimelineInvariant
  BY LineStartsEmpty
<1>2. TimelineInvariant /\ [TimelineNext]_TimelineVars => TimelineInvariant'
  BY TimelineStep
<1> QED BY <1>1, <1>2, PTL DEF TimelineSpec

\* Within a recording no stamp goes back in host time or in sample time, however often the line
\* is rebased and whatever the estimates are (GetZeroTimeStamp).
THEOREM StampsNeverGoBack == TimelineSpec => StampsMonotone
<1>1. TimelineInvariant /\ [TimelineNext]_TimelineVars =>
        [SameRecording => last'.time >= last.time /\ last'.sample >= last.sample]_TimelineVars
  <2> SUFFICES ASSUME TimelineInvariant, TimelineNext, SameRecording
               PROVE  last'.time >= last.time /\ last'.sample >= last.sample
    OBVIOUS
  <2>1. CASE GetZeroTimeStamp
    BY <2>1, ZeroTimeStampStep
  <2>2. CASE last' = last
    BY <2>2 DEF TimelineInvariant, TimelineTypeOK, Time
  <2> QED BY <2>1, <2>2, OtherSteps
<1> QED BY <1>1, TimelineSafety, PTL DEF TimelineSpec, StampsMonotone

\* A stamp is never in the future and less than a period old, up to the tick that rounding
\* costs (GetZeroTimeStamp).
THEOREM StampsAreCurrent == TimelineSpec => StampCurrent
<1>1. TimelineInvariant /\ [TimelineNext]_TimelineVars =>
        [GetZeroTimeStamp =>
           /\ last'.time <= now
           /\ (now - last'.time - 1) * slaved'[2] < slaved'[1] * RingFrames]_TimelineVars
  BY ZeroTimeStampStep
<1> QED BY <1>1, TimelineSafety, PTL DEF TimelineSpec, StampCurrent

\* The two times of the stamps advance together at the rate in force, across every rebase, and
\* the rate changes only with the seed (update_clock_estimate, GetZeroTimeStamp).
THEOREM TimelineHasNoJump == TimelineSpec => TimelineContinuous
<1>1. TimelineInvariant /\ [TimelineNext]_TimelineVars =>
        [SameRecording => /\ AtRate(slaved')
                          /\ seed' = seed => AtRate(slaved)]_TimelineVars
  <2> SUFFICES ASSUME TimelineInvariant, TimelineNext, SameRecording
               PROVE  AtRate(slaved') /\ (seed' = seed => AtRate(slaved))
    OBVIOUS
  <2>1. CASE GetZeroTimeStamp
    BY <2>1, ZeroTimeStampStep
  <2>2. CASE last' = last /\ slaved' = slaved
    <3> DEFINE p == slaved[1]
               q == slaved[2]
    <3>1. p \in Nat \ {0} /\ q \in Nat \ {0} /\ last.time \in Nat /\ last.sample \in Nat
      BY DEF TimelineInvariant, TimelineTypeOK, Time, Fraction
    <3> HIDE DEF p, q
    <3>2. (last.time - last.time) * q - (last.sample - last.sample) * p = 0
      BY <3>1
    <3>3. AtRate(slaved)
      BY <2>2, <3>1, <3>2 DEF AtRate, p, q
    <3> QED BY <2>2, <3>3
  <2> QED BY <2>1, <2>2, OtherSteps
<1> QED BY <1>1, TimelineSafety, PTL DEF TimelineSpec, TimelineContinuous

-----------------------------------------------------------------------------
(* The property tables. *)

\* What HasProperty affirms has a size, what it denies has none: the plug-in, ...
LEMMA PlugInSizes ==
  ASSUME NEW sel
  PROVE  /\ sel \in PlugInSelectors => plugin_property_size(sel).status = "ok"
         /\ sel \notin PlugInSelectors => plugin_property_size(sel) = UnknownProperty
BY DEF PlugInSelectors, Common, plugin_property_size, Ok

\* ... and the device.
LEMMA DeviceSizes ==
  ASSUME NEW sel, NEW scope
  PROVE  /\ sel \in DeviceSelectors \cup Preferred => device_property_size(sel, scope).status = "ok"
         /\ sel \notin DeviceSelectors \cup Preferred =>
              device_property_size(sel, scope) = UnknownProperty
BY DEF DeviceSelectors, Preferred, Common, device_property_size, Ok

\* Answers that stay within a buffer, and those that fill it.
Fits(room) == {r \in Reply : r.size <= room}
Fills(room) == {r \in Fits(room) : r.status = "ok" /\ r.size = room}

\* An answer without data fits every buffer.
LEMMA Refusals ==
  ASSUME NEW room \in Nat
  PROVE  /\ BadObject \in Fits(room) /\ BadSize \in Fits(room)
         /\ UnknownProperty \in Fits(room) /\ Ok(0, "") \in Fits(room)
         /\ room = 0 => Ok(0, "") \in Fills(room)
<1>1. 0 <= room /\ "" \in Values
  BY DEF Values
<1> QED BY <1>1 DEF Fits, Fills, Reply, Ok, BadObject,
                    BadSize, UnknownProperty, Error

\* An answer with data fits the buffer or is withheld; it fills a buffer of its size.
LEMMA WriteAnswers ==
  ASSUME NEW room \in Nat, NEW size \in Nat, NEW value \in Values
  PROVE  /\ Write(room, size, value) \in Fits(room)
         /\ WriteList(room, size, value) \in Fits(room)
         /\ room = size => /\ Write(room, size, value) \in Fills(room)
                           /\ WriteList(room, size, value) \in Fills(room)
<1>1. /\ Ok(size, value) \in Reply
      /\ Ok(size, value).size = size /\ Ok(size, value).status = "ok"
  BY DEF Ok, Reply
<1>2. CASE room < size
  <2>1. room # size
    BY <1>2
  <2>2. Write(room, size, value) = BadSize
    BY <1>2 DEF Write
  <2>3. WriteList(room, size, value) = Ok(0, "")
    BY <1>2 DEF WriteList
  <2> QED BY <2>1, <2>2, <2>3, Refusals
<1>3. CASE ~(room < size)
  <2>1. size <= room
    BY <1>3
  <2>2. Ok(size, value) \in Fits(room)
    BY <1>1, <2>1 DEF Fits
  <2>3. room = size => Ok(size, value) \in Fills(room)
    BY <1>1, <2>2 DEF Fills
  <2> QED BY <1>3, <2>2, <2>3 DEF Write, WriteList
<1> QED BY <1>2, <1>3

\* Sizes are natural numbers.
LEMMA SizesAreNumbers ==
  /\ Word \in Nat /\ Wide \in Nat /\ ValueRange \in Nat
  /\ ChannelLayout \in Nat /\ StreamFormat \in Nat /\ RangedFormat \in Nat
  /\ 2 * Word \in Nat
BY DEF Word, Wide, ValueRange, ChannelLayout,
       StreamFormat, RangedFormat

\* The values of the plug-in fit, and fill a buffer of the size the size table names, ...
LEMMA PlugInData ==
  ASSUME NEW sel, NEW room \in Nat, NEW uid
  PROVE  /\ sel \notin PlugInSelectors => plugin_property_data(sel, room, uid) = UnknownProperty
         /\ plugin_property_data(sel, room, uid) \in Fits(room)
         /\ sel \in PlugInSelectors \ {"TranslateUIDToDevice"} /\ room =
              plugin_property_size(sel).size =>
              plugin_property_data(sel, room, uid) \in Fills(room)
<1>1. \A size \in Nat : Ok(size, "").size = size
  BY DEF Ok
<1>2. sel \notin PlugInSelectors => plugin_property_data(sel, room, uid) = UnknownProperty
  BY DEF PlugInSelectors, Common, plugin_property_data
<1>4. plugin_property_data(sel, room, uid) \in Fits(room)
  BY Refusals, SizesAreNumbers, WriteAnswers DEF plugin_property_data, Values, ObjectIDs, Objects
<1>6. ASSUME sel \in PlugInSelectors \ {"TranslateUIDToDevice"},
               room = plugin_property_size(sel).size
      PROVE  plugin_property_data(sel, room, uid) \in Fills(room)
  <2>1. room = IF sel \in {"Manufacturer", "ResourceBundle"} THEN Wide ELSE Word
    BY <1>1, <1>6, SizesAreNumbers DEF PlugInSelectors, Common, plugin_property_size
  <2> QED BY <1>6, <2>1, SizesAreNumbers, WriteAnswers
     DEF PlugInSelectors, Common, plugin_property_data, Values, ObjectIDs, Objects
<1> QED BY <1>2, <1>4, <1>6

\* ... so do those of the device ...
LEMMA DeviceData ==
  ASSUME NEW sel, NEW scope, NEW room \in Nat, NEW clients
  PROVE  /\ sel \notin DeviceSelectors \cup Preferred =>
              device_property_data(sel, scope, room, clients) = UnknownProperty
         /\ device_property_data(sel, scope, room, clients) \in Fits(room)
         /\ sel \in DeviceSelectors \cup Preferred
             /\ room = device_property_size(sel, scope).size =>
              device_property_data(sel, scope, room, clients) \in Fills(room)
<1>1. \A size \in Nat : Ok(size, "").size = size
  BY DEF Ok
<1>2. sel \notin DeviceSelectors \cup Preferred =>
        device_property_data(sel, scope, room, clients) = UnknownProperty
  BY DEF DeviceSelectors, Preferred, Common, device_property_data
<1>4. device_property_data(sel, scope, room, clients) \in Fits(room)
  BY Refusals, SizesAreNumbers, WriteAnswers
     DEF device_property_data, Values, ObjectIDs, Objects
<1>6. ASSUME sel \in DeviceSelectors \cup Preferred,
             room = device_property_size(sel, scope).size
      PROVE  device_property_data(sel, scope, room, clients) \in Fills(room)
  <2>1. room = CASE sel \in {"Name", "Manufacturer", "DeviceUID", "ModelUID",
          "NominalSampleRate"} -> Wide
                 [] sel = "ControlList" -> 0
                 [] sel = "Streams" -> IF scope = "Output" THEN 0 ELSE Word
                 [] sel = "AvailableNominalSampleRates" -> ValueRange
                 [] sel = "PreferredChannelsForStereo" -> 2 * Word
                 [] sel = "PreferredChannelLayout" -> ChannelLayout
                 [] OTHER -> Word
    BY <1>1, <1>6, SizesAreNumbers
     DEF DeviceSelectors, Preferred, Common, StreamsSize,
         device_property_size
  <2> QED BY <1>6, <2>1, SizesAreNumbers, WriteAnswers, Refusals
     DEF DeviceSelectors, Preferred, Common, StreamsSize,
         device_property_data, Values, ObjectIDs, Objects
<1> QED BY <1>2, <1>4, <1>6

\* ... and of the stream.
LEMMA StreamAnswers ==
  ASSUME NEW sel, NEW room \in Nat
  PROVE  /\ sel \in StreamSelectors => stream_property_size(sel).status = "ok"
         /\ sel \notin StreamSelectors =>
              /\ stream_property_size(sel) = UnknownProperty
              /\ stream_property_data(sel, room) = UnknownProperty
         /\ stream_property_data(sel, room) \in Fits(room)
         /\ sel \in StreamSelectors /\ room = stream_property_size(sel).size =>
              stream_property_data(sel, room) \in Fills(room)
<1>1. \A size \in Nat : Ok(size, "").size = size /\ Ok(size, "").status = "ok"
  BY DEF Ok
<1>2. sel \in StreamSelectors => stream_property_size(sel).status = "ok"
  BY <1>1, SizesAreNumbers DEF StreamSelectors, Common, stream_property_size
<1>3. sel \notin StreamSelectors =>
        /\ stream_property_size(sel) = UnknownProperty
        /\ stream_property_data(sel, room) = UnknownProperty
  BY DEF StreamSelectors, Common, stream_property_size,
         stream_property_data
<1>4. stream_property_data(sel, room) \in Fits(room)
  BY Refusals, SizesAreNumbers, WriteAnswers
     DEF stream_property_data, Values, ObjectIDs, Objects,
         StreamOwner
<1>5. ASSUME sel \in StreamSelectors, room = stream_property_size(sel).size
      PROVE  stream_property_data(sel, room) \in Fills(room)
  <2>1. room = CASE sel \in {"VirtualFormat", "PhysicalFormat"} -> StreamFormat
                 [] sel \in {"AvailableVirtualFormats", "AvailablePhysicalFormats"} -> RangedFormat
                 [] OTHER -> Word
    BY <1>1, <1>5, SizesAreNumbers
       DEF StreamSelectors, Common, stream_property_size
  <2> QED BY <1>5, <2>1, SizesAreNumbers, WriteAnswers
          DEF StreamSelectors, Common, stream_property_data,
              Values, ObjectIDs, Objects, StreamOwner
<1> QED BY <1>2, <1>3, <1>4, <1>5

\* GetPropertyDataSize against HasProperty, for every object.
LEMMA SizeAnswers ==
  ASSUME NEW obj, NEW sel, NEW scope
  PROVE  /\ HasProperty(obj, sel, scope) => GetPropertyDataSize(obj, sel, scope).status = "ok"
         /\ ~HasProperty(obj, sel, scope) /\ sel \notin Preferred =>
              GetPropertyDataSize(obj, sel, scope).status \in {"unknown property", "bad object"}
         /\ GetPropertyDataSize(obj, sel, scope) \in Reply
<1>1. BadObject.status = "bad object" /\ UnknownProperty.status = "unknown property"
  BY DEF BadObject, UnknownProperty, Error
<1>2. 0 \in Nat
  OBVIOUS
<1>3. BadObject \in Reply /\ UnknownProperty \in Reply
  BY <1>2, Refusals DEF Fits
<1>4. \A size \in Nat : Ok(size, "") \in Reply
  BY DEF Ok, Reply, Values
<1>5. /\ plugin_property_size(sel) \in Reply
      /\ device_property_size(sel, scope) \in Reply
      /\ stream_property_size(sel) \in Reply
  BY <1>2, <1>3, <1>4, SizesAreNumbers
     DEF plugin_property_size, device_property_size, stream_property_size,
         StreamsSize
<1>6. CASE obj = "PlugIn"
  BY <1>1, <1>5, <1>6, PlugInSizes DEF GetPropertyDataSize, HasProperty
<1>7. CASE obj = "Device"
  BY <1>1, <1>5, <1>7, DeviceSizes
     DEF GetPropertyDataSize, HasProperty, device_has_property
<1>8. CASE obj = "Stream"
  BY <1>1, <1>2, <1>5, <1>8, StreamAnswers DEF GetPropertyDataSize, HasProperty
<1>9. CASE obj \notin {"PlugIn", "Device", "Stream"}
  BY <1>1, <1>3, <1>9 DEF GetPropertyDataSize, HasProperty
<1> QED BY <1>6, <1>7, <1>8, <1>9

\* GetPropertyData against HasProperty and GetPropertyDataSize, for every object.
LEMMA DataAnswers ==
  ASSUME NEW obj, NEW sel, NEW scope, NEW room \in Nat, NEW uid, NEW clients
  PROVE  LET a == GetPropertyData(obj, sel, scope, room, uid, clients) IN
         /\ a \in Fits(room)
         /\ /\ HasProperty(obj, sel, scope) /\ sel # "TranslateUIDToDevice"
            /\ room = GetPropertyDataSize(obj, sel, scope).size
            => a \in Fills(room)
         /\ ~HasProperty(obj, sel, scope) /\ sel \notin Preferred =>
              a.status \in {"unknown property", "bad object"}
<1>1. BadObject.status = "bad object" /\ UnknownProperty.status = "unknown property"
  BY DEF BadObject, UnknownProperty, Error
<1>2. CASE obj = "PlugIn"
  BY <1>1, <1>2, PlugInData
     DEF GetPropertyData, GetPropertyDataSize, HasProperty
<1>3. CASE obj = "Device"
  BY <1>1, <1>3, DeviceData
     DEF GetPropertyData, GetPropertyDataSize, HasProperty,
         device_has_property
<1>4. CASE obj = "Stream"
  BY <1>1, <1>4, StreamAnswers
     DEF GetPropertyData, GetPropertyDataSize, HasProperty
<1>5. CASE obj \notin {"PlugIn", "Device", "Stream"}
  BY <1>1, <1>5, Refusals DEF GetPropertyData, HasProperty
<1> QED BY <1>2, <1>3, <1>4, <1>5

\* An answer that was written says what it was to say.
LEMMA WrittenValue ==
  ASSUME NEW room \in Nat, NEW size \in Nat \ {0}, NEW value
  PROVE  /\ Write(room, size, value).status = "ok" =>
              Write(room, size, value) = Ok(size, value)
         /\ WriteList(room, size, value).size > 0 =>
              WriteList(room, size, value) = Ok(size, value)
         /\ room >= size => /\ Write(room, size, value).value = value
                            /\ WriteList(room, size, value).value = value
         /\ Ok(size, value).size = size /\ Ok(size, value).value = value
         /\ Ok(size, value).status = "ok"
<1>1. /\ Ok(size, value).size = size /\ Ok(size, value).value = value
      /\ Ok(size, value).status = "ok"
      /\ Ok(0, "").size = 0 /\ BadSize.status # "ok"
  BY DEF Ok, BadSize, Error
<1>2. CASE room < size
  <2>1. /\ Write(room, size, value) = BadSize
        /\ WriteList(room, size, value) = Ok(0, "")
    BY <1>2 DEF Write, WriteList
  <2>2. ~(room >= size) /\ ~(Ok(0, "").size > 0)
    <3>1. ~(room >= size)
      BY <1>2
    <3>2. ~(Ok(0, "").size > 0)
      BY DEF Ok
    <3> QED BY <3>1, <3>2, Zenon
  <2>3. ~(WriteList(room, size, value).size > 0) /\ Write(room, size, value).status # "ok"
    BY <1>1, <2>1, <2>2
  <2> QED BY <1>1, <2>2, <2>3
<1>3. CASE ~(room < size)
  BY <1>1, <1>3 DEF Write, WriteList
<1> QED BY <1>2, <1>3

\* Owner and OwnedObjects describe one tree.
LEMMA TreeAnswers ==
  ASSUME NEW obj \in ObjectIDs, NEW sel, NEW scope, NEW room \in Nat, NEW uid, NEW clients
  PROVE  LET a == GetPropertyData(obj, sel, scope, room, uid, clients) IN
         a.status = "ok" /\ a.size > 0 =>
           /\ sel \in {"OwnedObjects", "DeviceList", "Streams"} => Value(a.value, "Owner") = obj
           /\ sel = "Owner" /\ a.value # "Unknown" => Value(a.value, "OwnedObjects") = obj
<1> DEFINE a == GetPropertyData(obj, sel, scope, room, uid, clients)
<1> SUFFICES ASSUME a.status = "ok", a.size > 0
             PROVE  /\ sel \in {"OwnedObjects", "DeviceList", "Streams"} =>
                         Value(a.value, "Owner") = obj
                    /\ sel = "Owner" /\ a.value # "Unknown" => Value(a.value, "OwnedObjects") = obj
  OBVIOUS
<1>1. Word \in Nat \ {0} /\ 1000 \in Nat /\ 1000 >= Word
  BY DEF Word
<1>2. \A v : /\ Write(1000, Word, v).value = v
             /\ WriteList(1000, Word, v).value = v
  BY <1>1, WrittenValue
<1>3. /\ Value("Device", "Owner") = "PlugIn" /\ Value("Stream", "Owner") = "Device"
      /\ Value("PlugIn", "OwnedObjects") = "Device"
      /\ Value("Device", "OwnedObjects") = "Stream"
  <2>1. \A s, r, c, u : /\ device_property_data("Owner", s, r, c) = Write(r, Word, "PlugIn")
                        /\ device_property_data("OwnedObjects", s, r, c) = Write(r, Word, "Stream")
                        /\ stream_property_data("Owner", r) = Write(r, Word, "Device")
                        /\ plugin_property_data("OwnedObjects", r, u) = WriteList(r, Word, "Device")
    BY DEF device_property_data, stream_property_data,
           plugin_property_data, StreamOwner
  <2> QED BY <1>2, <2>1 DEF Value, GetPropertyData
<1>4. \A v : /\ Write(room, Word, v).status = "ok" =>
                  Write(room, Word, v).value = v
             /\ WriteList(room, Word, v).size > 0 =>
                  WriteList(room, Word, v).value = v
  BY <1>1, WrittenValue
<1>5. /\ UnknownProperty.status # "ok" /\ BadObject.status # "ok"
      /\ ~(Ok(0, "").size > 0)
  BY DEF UnknownProperty, BadObject, Error, Ok
<1>6. CASE obj = "PlugIn"
  <2>1. a = plugin_property_data(sel, room, uid)
    BY <1>6 DEF GetPropertyData
  <2>2. sel \in {"OwnedObjects", "DeviceList"} => a = WriteList(room, Word, "Device")
    BY <2>1 DEF plugin_property_data
  <2>3. sel = "Owner" => a = Write(room, Word, "Unknown")
    BY <2>1 DEF plugin_property_data
  <2>4. sel # "Streams"
    BY <1>5, <2>1 DEF plugin_property_data
  <2> HIDE DEF a
  <2> QED BY <1>3, <1>4, <1>6, <2>2, <2>3, <2>4
<1>7. CASE obj = "Device"
  <2>1. a = device_property_data(sel, scope, room, clients)
    BY <1>7 DEF GetPropertyData
  <2>2. sel = "OwnedObjects" => a = Write(room, Word, "Stream")
    BY <2>1 DEF device_property_data
  <2>3. sel = "Streams" => a = WriteList(room, Word, "Stream")
    BY <1>5, <2>1 DEF device_property_data
  <2>4. sel = "Owner" => a = Write(room, Word, "PlugIn")
    BY <2>1 DEF device_property_data
  <2>5. sel # "DeviceList"
    BY <1>5, <2>1 DEF device_property_data
  <2> HIDE DEF a
  <2> QED BY <1>3, <1>4, <1>7, <2>2, <2>3, <2>4, <2>5
<1>8. CASE obj = "Stream"
  <2>1. a = stream_property_data(sel, room)
    BY <1>8 DEF GetPropertyData
  <2>2. sel = "Owner" => a = Write(room, Word, "Device")
    BY <2>1 DEF stream_property_data, StreamOwner
  <2>3. sel \notin {"OwnedObjects", "DeviceList", "Streams"}
    BY <1>5, <2>1 DEF stream_property_data
  <2> HIDE DEF a
  <2> QED BY <1>3, <1>4, <1>8, <2>2, <2>3
<1>9. CASE obj = "Unknown"
  BY <1>5, <1>9 DEF GetPropertyData
<1> QED BY <1>6, <1>7, <1>8, <1>9 DEF ObjectIDs, Objects

\* What IsPropertySettable says of a property is what SetPropertyData does with its value.
LEMMA SetAnswers ==
  ASSUME NEW uid, NEW clients, NEW value, query.room \in Nat,
         query.reply = GetPropertyData(query.obj, query.sel, query.scope, query.room, uid, clients),
         query.reply.status = "ok",
         NEW b, b = SetPropertyData(query.obj, query.sel, query.reply.size, value)
  PROVE  /\ b \in Reply
         /\ value = query.reply.value => (b.status = "ok" <=>
              Settable(query.obj, query.sel, query.scope))
         /\ value # query.reply.value => b.status # "ok"
<1>1. /\ Wide \in Nat \ {0} /\ StreamFormat \in Nat \ {0}
  BY DEF Wide, StreamFormat
<1>2. /\ UnknownProperty.status # "ok" /\ Unsupported.status # "ok"
      /\ Ok(0, "").status = "ok"
  BY DEF UnknownProperty, Unsupported, Error, Ok
<1>3. /\ UnknownProperty \in Reply /\ Unsupported \in Reply
      /\ Ok(0, "") \in Reply
  BY DEF UnknownProperty, Unsupported, Error, Ok, Reply,
         Values
<1>4. CASE query.obj = "Device" /\ query.sel = "NominalSampleRate"
  <2>1. query.reply = Write(query.room, Wide, "48000")
    BY <1>4 DEF GetPropertyData, device_property_data
  <2>2. query.reply.size = Wide /\ query.reply.value = "48000"
    BY <1>1, <2>1, WrittenValue
  <2>3. Settable(query.obj, query.sel, query.scope)
    BY <1>4 DEF Settable, HasProperty, device_has_property,
                DeviceSelectors
  <2>4. b = IF value = "48000" THEN Ok(0, "") ELSE Unsupported
    BY <1>4, <2>2 DEF SetPropertyData
  <2>5. /\ b \in Reply /\ (value = query.reply.value => b.status = "ok")
        /\ value # query.reply.value => b.status # "ok"
    BY <1>2, <1>3, <2>2, <2>4
  <2> QED BY <2>3, <2>5
<1>5. CASE query.obj = "Stream" /\ query.sel \in Formats
  <2>1. query.reply = Write(query.room, StreamFormat, DeviceFormat)
    BY <1>5 DEF GetPropertyData, stream_property_data, Formats
  <2>2. query.reply.size = StreamFormat /\ query.reply.value = DeviceFormat
    BY <1>1, <2>1, WrittenValue
  <2>3. Settable(query.obj, query.sel, query.scope)
    BY <1>5 DEF Settable, HasProperty, StreamSelectors, Formats
  <2>4. b = IF value = DeviceFormat THEN Ok(0, "") ELSE Unsupported
    BY <1>5, <2>2 DEF SetPropertyData, formats_equal
  <2>5. /\ b \in Reply /\ (value = query.reply.value => b.status = "ok")
        /\ value # query.reply.value => b.status # "ok"
    BY <1>2, <1>3, <2>2, <2>4
  <2> QED BY <2>3, <2>5
<1>6. CASE /\ ~(query.obj = "Device" /\ query.sel = "NominalSampleRate")
           /\ ~(query.obj = "Stream" /\ query.sel \in Formats)
  <2>1. b = UnknownProperty
    BY <1>6 DEF SetPropertyData
  <2>2. ~Settable(query.obj, query.sel, query.scope)
    BY <1>6 DEF Settable
  <2>3. b \in Reply /\ b.status # "ok"
    BY <1>2, <1>3, <2>1
  <2> QED BY <2>2, <2>3
<1> QED BY <1>4, <1>5, <1>6

\* The inductive part: the rest follows from the tables.
Told == PropertiesTypeOK /\ SetHonest /\ QueryStages

\* What the host was told agrees with the other tables.
LEMMA ToldAgrees ==
  ASSUME Told
  PROVE  TablesAgree /\ OwnershipTree
<1> DEFINE obj == query.obj
           sel == query.sel
           scope == query.scope
           room == query.room
<1>1. /\ query.reply \in Reply /\ room \in Nat /\ obj \in ObjectIDs
      /\ query.stage \in {"none", "asked", "got", "put back", "put other"}
  BY DEF Told, PropertiesTypeOK, Query
<1>2. CASE query.stage = "asked"
  <2>1. query.reply = GetPropertyDataSize(obj, sel, scope)
    BY <1>2 DEF Told, QueryStages
  <2>2. /\ Has => query.reply.status = "ok"
        /\ ~Has /\ sel \notin Preferred =>
             query.reply.status \in {"unknown property", "bad object"}
    <3> DEFINE a == GetPropertyDataSize(obj, sel, scope)
    <3>1. /\ HasProperty(obj, sel, scope) => a.status = "ok"
          /\ ~HasProperty(obj, sel, scope) /\ sel \notin Preferred =>
               a.status \in {"unknown property", "bad object"}
      BY SizeAnswers
    <3>2. query.reply = a
      BY <2>1
    <3> HIDE DEF a
    <3> QED BY <3>1, <3>2 DEF Has
  <2> QED BY <1>2, <2>2 DEF TablesAgree, OwnershipTree
<1>3. CASE query.stage = "got"
  <2>1. PICK uid \in Uids, clients \in 0 .. MaxRunning :
          query.reply = GetPropertyData(obj, sel, scope, room, uid, clients)
    BY <1>3 DEF Told, QueryStages
  <2>2. /\ query.reply \in Fits(room)
        /\ /\ Has /\ sel # "TranslateUIDToDevice"
           /\ room = GetPropertyDataSize(obj, sel, scope).size
           => query.reply \in Fills(room)
        /\ ~Has /\ sel \notin Preferred =>
             query.reply.status \in {"unknown property", "bad object"}
    <3> DEFINE a == GetPropertyData(obj, sel, scope, room, uid, clients)
    <3>1. /\ a \in Fits(room)
          /\ /\ HasProperty(obj, sel, scope) /\ sel # "TranslateUIDToDevice"
             /\ room = GetPropertyDataSize(obj, sel, scope).size
             => a \in Fills(room)
          /\ ~HasProperty(obj, sel, scope) /\ sel \notin Preferred =>
               a.status \in {"unknown property", "bad object"}
      BY <1>1, DataAnswers
    <3>2. query.reply = a
      BY <2>1
    <3> HIDE DEF a
    <3> QED BY <3>1, <3>2 DEF Has
  <2>3. TablesAgree
    BY <1>3, <2>2 DEF TablesAgree, Fits, Fills
  <2>4. OwnershipTree
    BY <1>1, <2>1, TreeAnswers DEF OwnershipTree
  <2> QED BY <2>3, <2>4
<1>4. CASE query.stage \notin {"asked", "got"}
  BY <1>4 DEF TablesAgree, OwnershipTree
<1> QED BY <1>2, <1>3, <1>4

\* Before the first question nothing was told.
LEMMA NothingToldYet ==
  ASSUME PropertiesInit
  PROVE  Told
<1>1. 0 \in Nat /\ 0 \in 0 .. CountMod - 1 /\ 0 \in 0 .. MaxRunning
  BY HalPropertiesAssumption
<1>2. UnknownProperty \in Reply
  BY <1>1, Refusals DEF Fits
<1>3. query \in Query /\ query.stage = "none"
  BY <1>1, <1>2 DEF PropertiesInit, NoQuery, Query, ObjectIDs,
                    Selectors, Scopes
<1> QED BY <1>1, <1>3 DEF Told, PropertiesInit, PropertiesTypeOK, SetHonest, QueryStages

\* The references and the number of running clients.
LEMMA CountsTold ==
  ASSUME Told,
         \/ QueryInterface \/ AddRef \/ Release
         \/ RunningChanges \/ UNCHANGED PropertiesVars
  PROVE  Told'
<1>1. CountMod \in Nat \ {0} /\ MaxRunning \in Nat
  BY HalPropertiesAssumption
<1>2. /\ refCount \in 0 .. CountMod - 1 /\ held = refCount /\ runningClients \in 0 .. MaxRunning
      /\ query \in Query
  BY DEF Told, PropertiesTypeOK
<1>3. query' = query
  BY DEF QueryInterface, AddRef, Release, RunningChanges,
         PropertiesVars
<1>4. refCount' \in 0 .. CountMod - 1 /\ held' = refCount' /\ runningClients' \in 0 .. MaxRunning
  <2>1. refCount < CountMod - 1 => (refCount + 1) % CountMod = refCount + 1
    BY <1>1, <1>2
  <2>2. CASE QueryInterface \/ AddRef
    BY <1>1, <1>2, <2>1, <2>2 DEF QueryInterface, AddRef
  <2>3. CASE Release
    BY <1>1, <1>2, <2>3 DEF Release
  <2>4. CASE RunningChanges \/ UNCHANGED PropertiesVars
    BY <1>1, <1>2, <2>4 DEF RunningChanges, PropertiesVars
  <2> QED BY <2>2, <2>3, <2>4
<1>5. PropertiesTypeOK'
  BY <1>2, <1>3, <1>4 DEF PropertiesTypeOK
<1>6. SetHonest' /\ QueryStages'
  BY <1>3 DEF Told, SetHonest, QueryStages
<1> QED BY <1>5, <1>6 DEF Told

\* The host's conversation about a property.
LEMMA QueryTold ==
  ASSUME Told,
         \/ Done
         \/ \E obj \in ObjectIDs, sel \in Selectors, scope \in Scopes :
              Ask(obj, sel, scope)
         \/ \E room \in Rooms, uid \in Uids : Fetch(room, uid)
         \/ \E value \in {query.reply.value} \cup OtherValues : Put(value)
  PROVE  Told'
<1>1. Sizes \subseteq Nat
  BY HalPropertiesAssumption
<1>2. /\ refCount \in 0 .. CountMod - 1 /\ held = refCount /\ runningClients \in 0 .. MaxRunning
      /\ query \in Query
  BY DEF Told, PropertiesTypeOK
<1>3. /\ query.reply \in Reply /\ query.room \in Nat /\ query.obj \in ObjectIDs
      /\ query.sel \in Selectors /\ query.scope \in Scopes
      /\ query.reply.size \in Nat
  BY <1>2 DEF Query, Reply
<1>4. UNCHANGED <<refCount, held, runningClients>>
  BY DEF Done, Ask, Fetch, Put
<1>5. SUFFICES query' \in Query /\ SetHonest' /\ QueryStages'
  BY <1>2, <1>4 DEF Told, PropertiesTypeOK
<1>6. CASE Done
  <2>1. 0 \in Nat
    OBVIOUS
  <2>2. UnknownProperty \in Reply
    BY <2>1, Refusals DEF Fits
  <2>3. query' \in Query /\ query'.stage = "none"
    BY <1>6, <2>1, <2>2 DEF Done, NoQuery, Query, ObjectIDs,
                      Selectors, Scopes
  <2> QED BY <2>3 DEF SetHonest, QueryStages
<1>7. ASSUME NEW obj \in ObjectIDs, NEW sel \in Selectors,
             NEW scope \in Scopes, Ask(obj, sel, scope)
      PROVE  query' \in Query /\ SetHonest' /\ QueryStages'
  <2> DEFINE a == GetPropertyDataSize(obj, sel, scope)
  <2>1. a \in Reply
    BY SizeAnswers
  <2>2. query' = [query EXCEPT !.stage = "asked", !.obj = obj, !.sel = sel, !.scope = scope,
          !.reply = a]
    BY <1>7 DEF Ask
  <2> HIDE DEF a
  <2>3. query' \in Query
    BY <1>2, <2>1, <2>2 DEF Query
  <2>4. /\ query'.stage = "asked" /\ query'.obj = obj /\ query'.sel = sel
        /\ query'.scope = scope /\ query'.reply = a
    BY <1>2, <2>2 DEF Query
  <2> QED BY <2>3, <2>4 DEF SetHonest, QueryStages, a
<1>8. ASSUME NEW room \in Rooms, NEW uid \in Uids, Fetch(room, uid)
      PROVE  query' \in Query /\ SetHonest' /\ QueryStages'
  <2> DEFINE a == GetPropertyData(query.obj, query.sel, query.scope, room, uid, runningClients)
  <2>1. room \in Nat
    BY <1>1, <1>3 DEF Rooms
  <2>2. a \in Reply
    BY <2>1, DataAnswers DEF Fits
  <2>3. query' = [query EXCEPT !.stage = "got", !.room = room, !.reply = a]
    BY <1>8 DEF Fetch
  <2>4. query' \in Query
    BY <1>2, <2>1, <2>2, <2>3 DEF Query
  <2>5. /\ query'.stage = "got" /\ query'.obj = query.obj /\ query'.sel = query.sel
        /\ query'.scope = query.scope /\ query'.room = room /\ query'.reply = a
    BY <1>2, <2>3 DEF Query
  <2>6. QueryStages'
    BY <1>2, <2>5 DEF QueryStages, a
  <2> QED BY <2>4, <2>5, <2>6 DEF SetHonest
<1>9. ASSUME NEW value, Put(value)
      PROVE  query' \in Query /\ SetHonest' /\ QueryStages'
  <2> DEFINE b == SetPropertyData(query.obj, query.sel, query.reply.size, value)
             stage == IF value = query.reply.value THEN "put back" ELSE "put other"
  <2>1. query.stage = "got" /\ query.reply.status = "ok"
    BY <1>9 DEF Put
  <2>2. PICK uid \in Uids, clients \in 0 .. MaxRunning :
          query.reply = GetPropertyData(query.obj, query.sel, query.scope, query.room, uid, clients)
    BY <2>1 DEF Told, QueryStages
  <2>3. /\ b \in Reply
        /\ value = query.reply.value => (b.status = "ok" <=>
             Settable(query.obj, query.sel, query.scope))
        /\ value # query.reply.value => b.status # "ok"
    <3> HIDE DEF b
    <3>1. b = SetPropertyData(query.obj, query.sel, query.reply.size, value)
      BY DEF b
    <3> QED BY <1>3, <2>1, <2>2, <3>1, SetAnswers
  <2>4. query' = [query EXCEPT !.stage = stage, !.reply = b]
    BY <1>9 DEF Put
  <2>5. stage \in {"put back", "put other"} /\ (stage = "put back" <=> value = query.reply.value)
    OBVIOUS
  <2> HIDE DEF b, stage
  <2>6. query' \in Query
    BY <1>2, <2>3, <2>4, <2>5 DEF Query
  <2>7. /\ query'.stage = stage /\ query'.obj = query.obj /\ query'.sel = query.sel
        /\ query'.scope = query.scope /\ query'.reply = b
    BY <1>2, <2>4 DEF Query
  <2>8. QueryStages'
    BY <2>5, <2>7 DEF QueryStages
  <2>9. Settable(query.obj, query.sel, query.scope) \in BOOLEAN
    BY DEF Settable
  <2>10. stage = "put back" =>
           (b.status = "ok") = Settable(query.obj, query.sel, query.scope)
    BY <2>3, <2>5, <2>9
  <2>11. SetHonest'
    BY <2>3, <2>5, <2>7, <2>10 DEF SetHonest
  <2> QED BY <2>6, <2>8, <2>11
<1> QED BY <1>6, <1>7, <1>8, <1>9

\* In every state.
LEMMA AlwaysTold == PropertiesSpec => []Told
<1>1. PropertiesInit => Told
  BY NothingToldYet
<1>2. Told /\ [PropertiesNext]_PropertiesVars => Told'
  BY CountsTold, QueryTold DEF PropertiesNext
<1> QED BY <1>1, <1>2, PTL DEF PropertiesSpec

\* HasProperty, GetPropertyDataSize and GetPropertyData agree on every property of every object,
\* whatever other threads do between the calls, and no answer writes past its buffer, of
\* whatever size.
THEOREM TablesNeverDisagree == PropertiesSpec => []TablesAgree
<1>1. Told => TablesAgree
  BY ToldAgrees
<1> QED BY <1>1, AlwaysTold, PTL

\* The reference count never wraps, ownership is one tree, and a property can be set exactly
\* if IsPropertySettable says so, to the value it has (AddRef, Release, SetPropertyData).
THEOREM PropertiesSafety == PropertiesSpec => []PropertiesInvariant
<1>1. Told => PropertiesInvariant
  BY ToldAgrees DEF Told, PropertiesInvariant
<1> QED BY <1>1, AlwaysTold, PTL
=============================================================================
