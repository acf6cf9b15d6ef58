-------------------------- MODULE SharedAudioProofs --------------------------
(***************************************************************************)
(* Proofs about SharedAudio for every capacity, channel count, block size, *)
(* regulation parameter and bound.                                         *)
(***************************************************************************)
EXTENDS SharedAudio, TLAPS

-----------------------------------------------------------------------------
(* Arithmetic of slots, corrections and counters. *)

\* Division with remainder, for the positive capacity of a ring.
LEMMA ModEq ==
  ASSUME NEW p \in Nat, NEW C \in Nat \ {0}
  PROVE  p % C \in 0 .. C - 1 /\ p = C * (p \div C) + (p % C) /\ p \div C \in Nat
OBVIOUS

\* A positive multiple of C is at least C.
LEMMA MulPos ==
  ASSUME NEW C \in Nat \ {0}, NEW k \in Nat \ {0}
  PROVE  C * k >= C
OBVIOUS

\* A slot is an index of the sample block.
LEMMA SlotType ==
  ASSUME NEW p \in Nat
  PROVE  Slot(p) \in 0 .. Capacity - 1
BY SharedAudioAssumption, ModEq DEF Slot

\* Frames less than one capacity apart are in different slots.
LEMMA SlotDistinct ==
  ASSUME NEW p \in Nat, NEW q \in Nat, p < q, q < p + Capacity
  PROVE  Slot(p) # Slot(q)
<1> DEFINE a == p \div Capacity
           b == q \div Capacity
<1>1. /\ p % Capacity \in Nat /\ a \in Nat /\ p = Capacity * a + (p % Capacity)
      /\ q % Capacity \in Nat /\ b \in Nat /\ q = Capacity * b + (q % Capacity)
  BY SharedAudioAssumption, ModEq
<1>c. Capacity \in Nat \ {0}
  BY SharedAudioAssumption
<1> HIDE DEF a, b
<1> SUFFICES ASSUME p % Capacity = q % Capacity PROVE FALSE
  BY DEF Slot
<1>2. q - p = Capacity * b - Capacity * a
  BY <1>1, <1>c
<1>3. Capacity * b - Capacity * a = Capacity * (b - a)
  BY <1>1, <1>c
<1>4. b > a
  <2> SUFFICES ASSUME a >= b PROVE FALSE
    BY <1>1
  <2>1. Capacity * (b - a) <= 0
    BY <1>1, <1>c
  <2> QED BY <2>1, <1>2, <1>3, <1>1, <1>c
<1>5. Capacity * (b - a) >= Capacity
  BY <1>4, <1>1, <1>c, MulPos
<1> QED BY <1>2, <1>3, <1>5, <1>1, <1>c

\* A counter of the header stays a counter.
LEMMA BumpType ==
  ASSUME NEW counter \in Nat, NEW n \in Nat
  PROVE  Bump(counter, n) \in Counter
BY SharedAudioAssumption, ModEq DEF Bump, Counter

\* A drop takes some of the excess and never more than what is buffered.
LEMMA DropRange ==
  ASSUME NEW fill \in Nat, TooFull(fill)
  PROVE  DropOf(fill) \in 1 .. fill
BY RegulationAssumption DEF DropOf, TooFull, MinOf

\* An insertion replaces at most the frames asked for.
LEMMA InsertRange ==
  ASSUME NEW fill \in Nat, NEW frames \in Nat
  PROVE  InsertOf(fill, frames) \in 0 .. frames
BY RegulationAssumption DEF InsertOf, TooEmpty, MinOf

\* A seek leaves no more than it found.
LEMMA SeekRange ==
  ASSUME NEW fill \in Nat
  PROVE  SeekFill(fill) \in 0 .. fill
BY RegulationAssumption DEF SeekFill, MinOf

-----------------------------------------------------------------------------
(* The inductive invariant. *)

LEMMA InitInvariant == Init => RingInvariant
<1> SUFFICES ASSUME Init PROVE RingInvariant
  OBVIOUS
<1> USE SharedAudioAssumption
<1>1. TypeOK
  BY DEF Init, TypeOK, Sample, Counter, NoBuffer
<1>2. FillWithinCapacity /\ Queued /\ WriterClaim /\ ReaderClaim /\ DeliveredExact
  BY DEF Init, FillWithinCapacity, Fill, Queued, WriterClaim, ReaderClaim, DeliveredExact
<1> QED BY <1>1, <1>2 DEF RingInvariant

\* A step that changes nothing of the ring keeps everything said about it.
LEMMA StutterInvariant == RingInvariant /\ UNCHANGED vars => RingInvariant'
BY DEF vars, RingInvariant, TypeOK, Sample, Counter, FillWithinCapacity, Fill, Queued,
       WriterClaim, ReaderClaim, DeliveredExact, Delivered, CopiedSoFar, CopyCh, OutCh

\* The channels of the caller's buffer change only with rchans.
LEMMA ChannelsKept ==
  ASSUME rchans' = rchans
  PROVE  CopyCh' = CopyCh /\ OutCh' = OutCh
BY DEF CopyCh, OutCh

LEMMA WriteRefuseInvariant ==
  ASSUME RingInvariant, NEW frames \in WriteSizes, WriteRefuse(frames)
  PROVE  RingInvariant'
<1> USE DEF RingInvariant, WriteRefuse, header, counters, writer, reader
<1>ch. CopyCh' = CopyCh /\ OutCh' = OutCh
  BY ChannelsKept
<1> USE <1>ch
<1>1. overruns' \in Counter
  BY SharedAudioAssumption, BumpType DEF TypeOK, Counter
<1>2. TypeOK'
  BY <1>1 DEF TypeOK, Sample, Counter
<1>3. FillWithinCapacity' /\ Queued' /\ WriterClaim' /\ ReaderClaim' /\ DeliveredExact'
  BY DEF FillWithinCapacity, Fill, Queued, WriterClaim, ReaderClaim, DeliveredExact,
         Delivered, CopiedSoFar
<1> QED BY <1>2, <1>3

LEMMA WriteBeginInvariant ==
  ASSUME RingInvariant, NEW frames \in WriteSizes, WriteBegin(frames)
  PROVE  RingInvariant'
<1> USE DEF RingInvariant, WriteBegin, header, counters, writer, reader
<1>ch. CopyCh' = CopyCh /\ OutCh' = OutCh
  BY ChannelsKept
<1> USE <1>ch
<1>0. frames \in Nat \ {0} /\ Capacity \in Nat \ {0}
  BY SharedAudioAssumption
<1>1. TypeOK'
  BY <1>0 DEF TypeOK, Sample, Counter
<1>2. FillWithinCapacity' /\ Queued' /\ ReaderClaim' /\ DeliveredExact'
  BY DEF FillWithinCapacity, Fill, Queued, ReaderClaim, DeliveredExact, Delivered,
         CopiedSoFar
<1>3. WriterClaim'
  <2>1. write_pos + frames <= read_pos + Capacity
    BY <1>0 DEF TypeOK, Writable, Fill
  <2> QED BY <2>1, <1>0 DEF WriterClaim
<1> QED BY <1>1, <1>2, <1>3

\* The sample written is outside the frames between the positions, because the
\* block fits behind the reader.
LEMMA WriteSampleInvariant ==
  ASSUME RingInvariant, NEW ch \in RingCh, NEW i \in Nat, WriteSample(ch, i)
  PROVE  RingInvariant'
<1> USE DEF RingInvariant, WriteSample, header, counters, writer, reader
<1>ch. CopyCh' = CopyCh /\ OutCh' = OutCh
  BY ChannelsKept
<1> USE <1>ch
<1>0. /\ Capacity \in Nat \ {0}
      /\ write_pos \in Nat /\ read_pos \in Nat /\ wframes \in Nat
      /\ i \in 0 .. wframes - 1
      /\ write_pos + wframes <= read_pos + Capacity
      /\ read_pos <= write_pos
      /\ samples \in [RingCh \X (0 .. Capacity - 1) -> Sample]
      /\ Slot(write_pos + i) \in 0 .. Capacity - 1
  BY SharedAudioAssumption, SlotType
     DEF TypeOK, WriterClaim, FillWithinCapacity, Fill
<1>1. TypeOK'
  <2>1. samples' \in [RingCh \X (0 .. Capacity - 1) -> Sample]
    BY <1>0 DEF Sample
  <2> QED BY <2>1 DEF TypeOK, Counter, Sample
<1>2. FillWithinCapacity' /\ ReaderClaim' /\ DeliveredExact'
  BY DEF FillWithinCapacity, Fill, ReaderClaim, DeliveredExact, Delivered, CopiedSoFar
<1>3. Queued'
  <2> SUFFICES ASSUME NEW p \in read_pos .. write_pos - 1, NEW c \in RingCh
               PROVE  samples'[<<c, Slot(p)>>] = p
    BY DEF Queued
  <2>1. samples[<<c, Slot(p)>>] = p
    BY DEF Queued
  <2>2. Slot(p) # Slot(write_pos + i)
    BY <1>0, SlotDistinct
  <2>3. Slot(p) \in 0 .. Capacity - 1
    BY <1>0, SlotType
  <2> QED BY <1>0, <2>1, <2>2, <2>3
<1>4. WriterClaim'
  <2> SUFFICES ASSUME NEW c \in RingCh, NEW j \in 0 .. wframes - 1,
                      <<c, j>> \notin wtodo'
               PROVE  samples'[<<c, Slot(write_pos + j)>>] = write_pos + j
    BY <1>0 DEF WriterClaim
  <2>1. Slot(write_pos + j) \in 0 .. Capacity - 1
    BY <1>0, SlotType
  <2>2. CASE j = i /\ c = ch
    BY <2>1, <2>2, <1>0
  <2>3. CASE ~(j = i /\ c = ch)
    <3>1. samples[<<c, Slot(write_pos + j)>>] = write_pos + j
      BY <2>3 DEF WriterClaim
    <3>2. j # i => Slot(write_pos + j) # Slot(write_pos + i)
      <4>1. CASE j < i BY <4>1, <1>0, SlotDistinct
      <4>2. CASE i < j BY <4>2, <1>0, SlotDistinct
      <4> QED BY <4>1, <4>2, <1>0
    <3> QED BY <3>1, <3>2, <2>1, <2>3, <1>0
  <2> QED BY <2>2, <2>3
<1> QED BY <1>1, <1>2, <1>3, <1>4

LEMMA WritePublishInvariant ==
  ASSUME RingInvariant, WritePublish
  PROVE  RingInvariant'
<1> USE DEF RingInvariant, WritePublish, header, counters, writer, reader
<1>ch. CopyCh' = CopyCh /\ OutCh' = OutCh
  BY ChannelsKept
<1> USE <1>ch
<1>0. /\ Capacity \in Nat \ {0}
      /\ write_pos \in Nat /\ read_pos \in Nat /\ wframes \in Nat
      /\ write_pos + wframes <= read_pos + Capacity
      /\ read_pos <= write_pos
  BY SharedAudioAssumption DEF TypeOK, WriterClaim, FillWithinCapacity, Fill
<1>1. TypeOK'
  BY <1>0 DEF TypeOK, Counter, Sample
<1>2. FillWithinCapacity'
  BY <1>0 DEF FillWithinCapacity, Fill
<1>3. Queued'
  <2> SUFFICES ASSUME NEW p \in read_pos .. write_pos + wframes - 1, NEW c \in RingCh
               PROVE  samples[<<c, Slot(p)>>] = p
    BY <1>0 DEF Queued
  <2>1. CASE p < write_pos
    BY <2>1, <1>0 DEF Queued
  <2>2. CASE p >= write_pos
    <3>1. p - write_pos \in 0 .. wframes - 1 /\ write_pos + (p - write_pos) = p
      BY <2>2, <1>0
    <3> QED BY <3>1 DEF WriterClaim
  <2> QED BY <2>1, <2>2, <1>0
<1>4. WriterClaim' /\ DeliveredExact'
  BY DEF WriterClaim, DeliveredExact, Delivered
<1>5. ReaderClaim'
  BY <1>0 DEF ReaderClaim, CopiedSoFar, TypeOK
<1> QED BY <1>1, <1>2, <1>3, <1>4, <1>5

LEMMA WriterCrashInvariant ==
  ASSUME RingInvariant, WriterCrash
  PROVE  RingInvariant'
<1> USE DEF RingInvariant, WriterCrash, header, counters, writer, reader
<1>ch. CopyCh' = CopyCh /\ OutCh' = OutCh
  BY ChannelsKept
<1> USE <1>ch
<1>1. TypeOK'
  BY DEF TypeOK, Counter, Sample
<1>2. FillWithinCapacity' /\ Queued' /\ WriterClaim' /\ ReaderClaim' /\ DeliveredExact'
  BY DEF FillWithinCapacity, Fill, Queued, WriterClaim, ReaderClaim, DeliveredExact,
         Delivered, CopiedSoFar
<1> QED BY <1>1, <1>2

LEMMA ReadCallInvariant ==
  ASSUME RingInvariant, NEW frames \in ReadSizes, ReadCall(frames)
  PROVE  RingInvariant'
<1> USE DEF RingInvariant, ReadCall, header, counters, writer, reader
<1>1. TypeOK'
  BY SharedAudioAssumption DEF TypeOK, ReaderClaim, Sample, Counter
<1>2. FillWithinCapacity' /\ Queued' /\ WriterClaim' /\ ReaderClaim' /\ DeliveredExact'
  BY DEF FillWithinCapacity, Fill, Queued, WriterClaim, ReaderClaim, DeliveredExact
<1> QED BY <1>1, <1>2

LEMMA PlanarCallInvariant ==
  ASSUME RingInvariant, NEW frames \in ReadSizes, PlanarCall(frames)
  PROVE  RingInvariant'
<1> USE DEF RingInvariant, PlanarCall, header, counters, writer, reader
<1>1. TypeOK'
  BY SharedAudioAssumption DEF TypeOK, ReaderClaim, Sample, Counter
<1>2. FillWithinCapacity' /\ Queued' /\ WriterClaim' /\ ReaderClaim' /\ DeliveredExact'
  BY DEF FillWithinCapacity, Fill, Queued, WriterClaim, ReaderClaim, DeliveredExact
<1> QED BY <1>1, <1>2

LEMMA RegulateDropInvariant ==
  ASSUME RingInvariant, NEW frames \in ReadSizes, RegulateDrop(frames)
  PROVE  RingInvariant'
<1> USE DEF RingInvariant, RegulateDrop, header, counters, writer, reader
<1>0. /\ Fill \in Nat /\ write_pos \in Nat /\ read_pos \in Nat
      /\ DropOf(Fill) \in 1 .. Fill
  BY DropRange DEF TypeOK, FillWithinCapacity, Fill
<1>1. rnext' \in Nat /\ read_pos <= rnext' /\ rnext' <= write_pos
  BY <1>0 DEF Fill
<1>2. TypeOK'
  BY <1>1, SharedAudioAssumption DEF TypeOK, ReaderClaim, Sample, Counter
<1>3. FillWithinCapacity' /\ Queued' /\ WriterClaim' /\ DeliveredExact'
  BY DEF FillWithinCapacity, Fill, Queued, WriterClaim, DeliveredExact
<1>4. ReaderClaim'
  BY <1>1 DEF ReaderClaim
<1> QED BY <1>2, <1>3, <1>4

LEMMA RegulateInsertInvariant ==
  ASSUME RingInvariant, NEW frames \in ReadSizes, RegulateInsert(frames)
  PROVE  RingInvariant'
<1> USE DEF RingInvariant, RegulateInsert, header, counters, writer, reader
<1>0. Fill \in Nat /\ frames \in Nat
  BY SharedAudioAssumption DEF TypeOK, FillWithinCapacity, Fill
<1>1. rinsert' \in Nat /\ rwant' \in Nat
  <2>1. InsertOf(Fill, frames) \in 0 .. frames
    BY <1>0, InsertRange
  <2>2. rinsert' \in 0 .. frames /\ rwant' = frames - rinsert'
    BY <2>1
  <2> QED BY <2>2, <1>0
<1>2. TypeOK'
  BY <1>1, SharedAudioAssumption DEF TypeOK, ReaderClaim, Sample, Counter
<1>3. FillWithinCapacity' /\ Queued' /\ WriterClaim' /\ ReaderClaim' /\ DeliveredExact'
  BY DEF FillWithinCapacity, Fill, Queued, WriterClaim, ReaderClaim, DeliveredExact
<1> QED BY <1>2, <1>3

\* Dropping frames the writer has published only frees slots.
LEMMA DropStoreInvariant ==
  ASSUME RingInvariant, DropStore
  PROVE  RingInvariant'
<1> USE DEF RingInvariant, DropStore, header, counters, writer, reader
<1>ch. CopyCh' = CopyCh /\ OutCh' = OutCh
  BY ChannelsKept
<1> USE <1>ch
<1>0. /\ write_pos \in Nat /\ read_pos \in Nat /\ rnext \in Nat /\ wframes \in Nat
      /\ Capacity \in Nat
      /\ read_pos <= rnext /\ rnext <= write_pos /\ write_pos - read_pos <= Capacity
  BY SharedAudioAssumption DEF TypeOK, ReaderClaim, FillWithinCapacity, Fill
<1>1. dropped_frames' \in Counter
  BY <1>0, SharedAudioAssumption, BumpType DEF TypeOK, Counter
<1>2. TypeOK'
  BY <1>0, <1>1 DEF TypeOK, Sample, Counter
<1>3. FillWithinCapacity' /\ Queued' /\ WriterClaim'
  <2>1. FillWithinCapacity'
    BY <1>0 DEF FillWithinCapacity, Fill
  <2>2. Queued'
    BY <1>0 DEF Queued
  <2>3. WriterClaim'
    BY <1>0 DEF WriterClaim
  <2> QED BY <2>1, <2>2, <2>3
<1>4. ReaderClaim' /\ DeliveredExact'
  BY DEF ReaderClaim, DeliveredExact
<1> QED BY <1>2, <1>3, <1>4

LEMMA ReadLoadInvariant ==
  ASSUME RingInvariant, ReadLoad
  PROVE  RingInvariant'
<1> USE DEF RingInvariant, ReadLoad, header, counters, writer, reader
<1>ch. CopyCh' = CopyCh /\ OutCh' = OutCh
  BY ChannelsKept
<1> USE <1>ch
<1>0. /\ write_pos \in Nat /\ read_pos \in Nat /\ rwant \in Nat /\ rinsert \in Nat
      /\ rreal' \in Nat /\ rreal' <= rwant /\ read_pos + rreal' <= write_pos
  BY DEF TypeOK, FillWithinCapacity, Fill, MinOf
<1>1. TypeOK'
  BY <1>0 DEF TypeOK, Sample, Counter
<1>2. FillWithinCapacity' /\ Queued' /\ WriterClaim' /\ DeliveredExact'
  BY DEF FillWithinCapacity, Fill, Queued, WriterClaim, DeliveredExact
<1>3. ReaderClaim'
  <2> SUFFICES ASSUME NEW c \in DOMAIN out' PROVE out'[c] = CopiedSoFar(c)'
    BY <1>0 DEF ReaderClaim
  <2>1. c[1] \in 0 .. rwant + rinsert - 1 /\ c = <<c[1], c[2]>>
    BY <1>0
  <2>2. c[2] \in CopyCh /\ c[1] < rreal' => c \in rtodo'
    BY <1>0, <2>1
  <2> QED BY <2>2, <1>0 DEF CopiedSoFar
<1> QED BY <1>1, <1>2, <1>3

LEMMA ReadSampleInvariant ==
  ASSUME RingInvariant, NEW i \in Nat, NEW ch \in CopyCh, ReadSample(i, ch)
  PROVE  RingInvariant'
<1> USE DEF RingInvariant, ReadSample, header, counters, writer, reader
<1>ch. CopyCh' = CopyCh /\ OutCh' = OutCh
  BY ChannelsKept
<1> USE <1>ch
<1>0. /\ write_pos \in Nat /\ read_pos \in Nat /\ rreal \in Nat /\ i \in 0 .. rreal - 1
      /\ read_pos + rreal <= write_pos /\ rreal <= rwant
      /\ ch \in RingCh /\ ch \in OutCh
  BY SharedAudioAssumption DEF TypeOK, ReaderClaim, CopyCh, RingCh, OutCh, MinOf
<1>1. samples[<<ch, Slot(read_pos + i)>>] = read_pos + i
  BY <1>0 DEF Queued
<1>2. TypeOK'
  <2>1. out' \in [DOMAIN out -> Sample]
    BY <1>0, <1>1 DEF TypeOK, Sample
  <2> QED BY <2>1 DEF TypeOK, Sample, Counter
<1>3. FillWithinCapacity' /\ Queued' /\ WriterClaim' /\ DeliveredExact'
  BY DEF FillWithinCapacity, Fill, Queued, WriterClaim, DeliveredExact
<1>4. ReaderClaim'
  <2> SUFFICES ASSUME NEW c \in DOMAIN out PROVE out'[c] = CopiedSoFar(c)'
    BY DEF ReaderClaim, TypeOK
  <2>1. out[c] = CopiedSoFar(c)
    BY DEF ReaderClaim
  <2>2. CASE c = <<i, ch>>
    <3>1. c[1] = i /\ c[2] = ch /\ c \notin rtodo'
      BY <2>2
    <3>2. out'[c] = read_pos + i
      BY <2>2, <1>1
    <3> QED BY <3>1, <3>2, <1>0 DEF CopiedSoFar
  <2>3. CASE c # <<i, ch>>
    BY <2>1, <2>3 DEF CopiedSoFar
  <2> QED BY <2>2, <2>3
<1> QED BY <1>2, <1>3, <1>4

LEMMA ReadAdvanceInvariant ==
  ASSUME RingInvariant, ReadAdvance
  PROVE  RingInvariant'
<1> USE DEF RingInvariant, ReadAdvance, header, counters, writer, reader
<1>ch. CopyCh' = CopyCh /\ OutCh' = OutCh
  BY ChannelsKept
<1> USE <1>ch
<1>0. /\ write_pos \in Nat /\ read_pos \in Nat /\ rreal \in Nat /\ wframes \in Nat
      /\ rwant \in Nat /\ rinsert \in Nat /\ Capacity \in Nat
      /\ read_pos + rreal <= write_pos /\ rreal <= rwant
      /\ write_pos - read_pos <= Capacity
      /\ DOMAIN out = (0 .. rwant + rinsert - 1) \X OutCh
      /\ \A c \in DOMAIN out : out[c] = CopiedSoFar(c)
  BY SharedAudioAssumption DEF TypeOK, ReaderClaim, FillWithinCapacity, Fill
<1>1. underruns' \in Counter /\ inserted_frames' \in Counter
  <2>1. /\ underruns \in Counter /\ underruns \in Nat
        /\ inserted_frames \in Counter /\ inserted_frames \in Nat
    BY SharedAudioAssumption DEF TypeOK, Counter
  <2>2. Bump(underruns, 1) \in Counter /\ Bump(inserted_frames, rinsert) \in Counter
    BY <2>1, <1>0, BumpType
  <2> QED BY <2>1, <2>2
<1>2. ASSUME NEW c \in DOMAIN out PROVE out'[c] = Delivered(c)'
  <2>1. c[1] \in 0 .. rwant + rinsert - 1 /\ c[2] \in OutCh /\ c = <<c[1], c[2]>>
    BY <1>0
  <2>2. out[c] = CopiedSoFar(c)
    BY <1>0
  <2>3. CASE c[1] < rwant
    BY <2>1, <2>2, <2>3, <1>0 DEF CopiedSoFar, Delivered
  <2>4. CASE c[1] >= rwant /\ rreal > 0
    <3>1. <<rreal - 1, c[2]>> \in DOMAIN out
      BY <2>1, <2>4, <1>0
    <3>2. out'[c] = out[<<rreal - 1, c[2]>>]
      BY <2>1, <2>4, <1>0 DEF TailSample
    <3>3. out[<<rreal - 1, c[2]>>] = IF c[2] \in CopyCh THEN read_pos + (rreal - 1)
                                                        ELSE Silence
      BY <3>1, <2>4, <1>0 DEF CopiedSoFar
    <3> QED BY <3>2, <3>3, <2>1, <2>4, <1>0 DEF Delivered
  <2>5. CASE c[1] >= rwant /\ rreal = 0
    BY <2>1, <2>5, <1>0 DEF Delivered, TailSample
  <2> QED BY <2>1, <2>3, <2>4, <2>5, <1>0
<1>3. ASSUME NEW c \in DOMAIN out PROVE Delivered(c)' \in Sample
  <2>1. c[1] \in Nat
    BY <1>0
  <2> QED BY <2>1, <1>0 DEF Delivered, Sample
<1>4. TypeOK'
  <2>1. out' \in [DOMAIN out -> Sample]
    BY <1>2, <1>3
  <2> QED BY <2>1, <1>0, <1>1 DEF TypeOK, Sample, Counter
<1>5. FillWithinCapacity' /\ Queued' /\ WriterClaim'
  BY <1>0 DEF FillWithinCapacity, Fill, Queued, WriterClaim
<1>6. ReaderClaim'
  BY <1>0 DEF ReaderClaim
<1>7. DeliveredExact'
  BY <1>2 DEF DeliveredExact
<1> QED BY <1>4, <1>5, <1>6, <1>7

LEMMA ReadReturnInvariant ==
  ASSUME RingInvariant, ReadReturn
  PROVE  RingInvariant'
<1> USE DEF RingInvariant, ReadReturn, ReaderForgets, header, counters, writer, reader
<1>1. TypeOK'
  BY DEF TypeOK, Sample, Counter, NoBuffer
<1>2. FillWithinCapacity' /\ Queued' /\ WriterClaim' /\ ReaderClaim' /\ DeliveredExact'
  BY DEF FillWithinCapacity, Fill, Queued, WriterClaim, ReaderClaim, DeliveredExact
<1> QED BY <1>1, <1>2

LEMMA SeekLoadInvariant ==
  ASSUME RingInvariant, SeekLoad
  PROVE  RingInvariant'
<1> USE DEF RingInvariant, SeekLoad, header, counters, writer, reader
<1>ch. CopyCh' = CopyCh /\ OutCh' = OutCh
  BY ChannelsKept
<1> USE <1>ch
<1>0. /\ Fill \in Nat /\ write_pos \in Nat /\ read_pos \in Nat
      /\ SeekFill(Fill) \in 0 .. Fill
  BY SeekRange DEF TypeOK, FillWithinCapacity, Fill
<1>1. rnext' \in Nat /\ read_pos <= rnext' /\ rnext' <= write_pos
  BY <1>0 DEF Fill
<1>2. TypeOK'
  BY <1>1 DEF TypeOK, Sample, Counter
<1>3. FillWithinCapacity' /\ Queued' /\ WriterClaim' /\ DeliveredExact'
  BY DEF FillWithinCapacity, Fill, Queued, WriterClaim, DeliveredExact
<1>4. ReaderClaim'
  BY <1>1 DEF ReaderClaim
<1> QED BY <1>2, <1>3, <1>4

LEMMA SeekStoreInvariant ==
  ASSUME RingInvariant, SeekStore
  PROVE  RingInvariant'
<1> USE DEF RingInvariant, SeekStore, ReaderForgets, header, counters, writer, reader
<1>0. /\ write_pos \in Nat /\ read_pos \in Nat /\ rnext \in Nat /\ wframes \in Nat
      /\ Capacity \in Nat
      /\ read_pos <= rnext /\ rnext <= write_pos /\ write_pos - read_pos <= Capacity
  BY SharedAudioAssumption DEF TypeOK, ReaderClaim, FillWithinCapacity, Fill
<1>1. resets' \in Counter
  BY SharedAudioAssumption, BumpType DEF TypeOK, Counter
<1>2. TypeOK'
  BY <1>0, <1>1 DEF TypeOK, Sample, Counter, NoBuffer
<1>3. FillWithinCapacity' /\ Queued' /\ WriterClaim'
  <2>1. FillWithinCapacity'
    BY <1>0 DEF FillWithinCapacity, Fill
  <2>2. Queued'
    BY <1>0 DEF Queued
  <2>3. WriterClaim'
    BY <1>0 DEF WriterClaim
  <2> QED BY <2>1, <2>2, <2>3
<1>4. ReaderClaim' /\ DeliveredExact'
  BY DEF ReaderClaim, DeliveredExact
<1> QED BY <1>2, <1>3, <1>4

LEMMA ReaderCrashInvariant ==
  ASSUME RingInvariant, ReaderCrash
  PROVE  RingInvariant'
<1> USE DEF RingInvariant, ReaderCrash, ReaderForgets, header, counters, writer, reader
<1>0. restarts' \in 0 .. MaxRestarts
  BY SharedAudioAssumption DEF TypeOK
<1>1. TypeOK'
  BY <1>0 DEF TypeOK, Sample, Counter, NoBuffer
<1>2. FillWithinCapacity' /\ Queued' /\ WriterClaim' /\ ReaderClaim' /\ DeliveredExact'
  BY DEF FillWithinCapacity, Fill, Queued, WriterClaim, ReaderClaim, DeliveredExact
<1> QED BY <1>1, <1>2

LEMMA NextInvariant == RingInvariant /\ [Next]_vars => RingInvariant'
<1> SUFFICES ASSUME RingInvariant, [Next]_vars PROVE RingInvariant'
  OBVIOUS
<1>1. CASE \E frames \in WriteSizes : WriteRefuse(frames) \/ WriteBegin(frames)
  BY <1>1, WriteRefuseInvariant, WriteBeginInvariant
<1>2. CASE \E cell \in wtodo : WriteSample(cell[1], cell[2])
  <2>1. PICK cell \in wtodo : WriteSample(cell[1], cell[2])
    BY <1>2
  <2>2. cell[1] \in RingCh /\ cell[2] \in Nat
    BY DEF RingInvariant, TypeOK
  <2> QED BY <2>1, <2>2, WriteSampleInvariant
<1>3. CASE WritePublish
  BY <1>3, WritePublishInvariant
<1>4. CASE WriterCrash
  BY <1>4, WriterCrashInvariant
<1>5. CASE \E frames \in ReadSizes : ReadCall(frames) \/ PlanarCall(frames)
  BY <1>5, ReadCallInvariant, PlanarCallInvariant
<1>6. CASE \E frames \in ReadSizes : RegulateDrop(frames) \/ RegulateInsert(frames)
  BY <1>6, RegulateDropInvariant, RegulateInsertInvariant
<1>7. CASE DropStore
  BY <1>7, DropStoreInvariant
<1>8. CASE ReadLoad
  BY <1>8, ReadLoadInvariant
<1>9. CASE \E cell \in rtodo : ReadSample(cell[1], cell[2])
  <2>1. PICK cell \in rtodo : ReadSample(cell[1], cell[2])
    BY <1>9
  <2>2. cell[1] \in Nat /\ cell[2] \in CopyCh
    BY DEF RingInvariant, TypeOK
  <2> QED BY <2>1, <2>2, ReadSampleInvariant
<1>10. CASE ReadAdvance
  BY <1>10, ReadAdvanceInvariant
<1>11. CASE ReadReturn
  BY <1>11, ReadReturnInvariant
<1>12. CASE SeekLoad
  BY <1>12, SeekLoadInvariant
<1>13. CASE SeekStore
  BY <1>13, SeekStoreInvariant
<1>14. CASE ReaderCrash
  BY <1>14, ReaderCrashInvariant
<1>15. CASE UNCHANGED vars
  BY <1>15, StutterInvariant
<1> QED BY <1>1, <1>2, <1>3, <1>4, <1>5, <1>6, <1>7, <1>8, <1>9, <1>10, <1>11, <1>12,
           <1>13, <1>14, <1>15
        DEF Next, WriterNext, ReaderNext, ReaderStep

\* Every reachable state of the ring satisfies the inductive invariant.
THEOREM RingSafety == Spec => []RingInvariant
BY InitInvariant, NextInvariant, PTL DEF Spec

\* Every variable of the ring stays in its domain (no position wraps below 0).
THEOREM TypeCorrect == Spec => []TypeOK
<1>1. RingInvariant => TypeOK
  BY DEF RingInvariant
<1> QED BY <1>1, RingSafety, PTL

\* The positions of writer and reader never get further apart than the capacity
\* and never cross.
THEOREM FillBounded == Spec => []FillWithinCapacity
<1>1. RingInvariant => FillWithinCapacity
  BY DEF RingInvariant
<1> QED BY <1>1, RingSafety, PTL

\* The unlocked copies of writer and reader never meet in a sample.
THEOREM RaceFree == Spec => []NoSlotRace
<1>1. RingInvariant => NoSlotRace
  <2> SUFFICES ASSUME RingInvariant, NEW w \in wtodo, NEW r \in rtodo
               PROVE  Slot(write_pos + w[2]) # Slot(read_pos + r[1])
    BY DEF NoSlotRace
  <2>1. wpc = "copy" /\ rpc = "copy"
    BY DEF RingInvariant, TypeOK, WriterClaim, ReaderClaim
  <2>2. /\ Capacity \in Nat /\ write_pos \in Nat /\ read_pos \in Nat
        /\ wframes \in Nat /\ rreal \in Nat
        /\ w[2] \in 0 .. wframes - 1 /\ r[1] \in 0 .. rreal - 1
        /\ write_pos + wframes <= read_pos + Capacity
        /\ read_pos + rreal <= write_pos
    BY <2>1, SharedAudioAssumption DEF RingInvariant, TypeOK, WriterClaim, ReaderClaim
  <2> DEFINE b == read_pos + r[1]
             a == write_pos + w[2]
  <2>3. a \in Nat /\ b \in Nat /\ b < a /\ a < b + Capacity
    BY <2>2
  <2> QED BY <2>3, SlotDistinct
<1> QED BY <1>1, RingSafety, PTL

\* What a read returns is exactly the next frames of the stream, padded with
\* silence and duplicates where the code says so.
THEOREM DeliveryCorrect == Spec => []DeliveredExact
<1>1. RingInvariant => DeliveredExact
  BY DEF RingInvariant
<1> QED BY <1>1, RingSafety, PTL

\* A counter that is incremented by one shows it.
LEMMA BumpShows ==
  ASSUME NEW counter \in Counter
  PROVE  Bump(counter, 1) # counter
<1>1. CounterMod \in Nat \ {0, 1} /\ counter \in 0 .. CounterMod - 1
  BY SharedAudioAssumption DEF Counter
<1>2. CASE counter < CounterMod - 1
  <2>1. (counter + 1) % CounterMod = counter + 1
    BY <1>1, <1>2
  <2> QED BY <2>1, <1>1 DEF Bump
<1>3. CASE counter = CounterMod - 1
  <2>1. (counter + 1) % CounterMod = 0
    BY <1>1, <1>3
  <2> QED BY <2>1, <1>1, <1>3 DEF Bump
<1> QED BY <1>1, <1>2, <1>3

\* A read that asks the ring for anything counts the silence it returns: a buffer
\* with silence on a channel of the ring means that fewer frames were there than
\* asked for.
THEOREM SilenceCounted == Spec => SilenceIsCounted
<1>1. RingInvariant /\ RingInvariant' /\ [Next]_vars
        => [DeliversSilence /\ rwant > 0 => underruns' # underruns]_vars
  <2> SUFFICES ASSUME RingInvariant, RingInvariant', Next, DeliversSilence, rwant > 0
               PROVE  underruns' # underruns
    BY DEF vars, DeliversSilence
  <2>1. ReadAdvance
    BY DEF DeliversSilence, Next, WriterNext, ReaderNext, ReaderStep, ReaderForgets,
       WriteRefuse, WriteBegin, WriteSample, WritePublish, WriterCrash, ReadCall,
       PlanarCall, RegulateDrop, RegulateInsert, DropStore, ReadLoad, ReadSample,
       ReadReturn, SeekLoad, SeekStore, ReaderCrash, reader
  <2>2. /\ rwant \in Nat /\ rreal \in Nat /\ rreal <= rwant /\ read_pos \in Nat
        /\ rreal' = rreal /\ rwant' = rwant /\ read_pos' = read_pos + rreal
        /\ underruns \in Counter /\ CopyCh' = CopyCh /\ rpc' = "return"
    BY <2>1, ChannelsKept DEF RingInvariant, TypeOK, ReaderClaim, ReadAdvance
  <2>3. rreal < rwant
    <3> SUFFICES ASSUME rreal = rwant PROVE FALSE
      BY <2>2
    <3>1. PICK c \in DOMAIN out' : c[2] \in CopyCh /\ out'[c] = Silence
      BY DEF DeliversSilence
    <3>2. out'[c] = Delivered(c)'
      BY <2>2 DEF RingInvariant, DeliveredExact
    <3>3. c[1] \in Nat
      BY <2>2 DEF RingInvariant, TypeOK
    <3>4. Delivered(c)' \in Nat
      BY <2>2, <3>1, <3>3 DEF Delivered
    <3> QED BY <3>1, <3>2, <3>4 DEF Silence
  <2> QED BY <2>1, <2>2, <2>3, BumpShows DEF ReadAdvance
<1> QED BY <1>1, RingSafety, PTL DEF Spec, SilenceIsCounted

-----------------------------------------------------------------------------
(* What the steps do to the positions, and the refinement of AudioFifo. *)

\* A step moves at most one position, forwards, and within its claim.
LEMMA PositionStep ==
  ASSUME RingInvariant, [Next]_vars
  PROVE  \/ UNCHANGED <<write_pos, read_pos>>
         \/ /\ read_pos' = read_pos
            /\ \E n \in Nat : write_pos' = write_pos + n
                             /\ write_pos + n <= read_pos + Capacity
         \/ /\ write_pos' = write_pos
            /\ \E n \in Nat : read_pos' = read_pos + n /\ read_pos + n <= write_pos
<1> USE DEF RingInvariant, header, counters, writer, reader
<1>1. CASE WritePublish
  BY <1>1 DEF WritePublish, TypeOK, WriterClaim
<1>2. CASE DropStore \/ SeekStore
  <2>1. /\ read_pos' = rnext /\ write_pos' = write_pos
        /\ read_pos \in Nat /\ rnext \in Nat /\ write_pos \in Nat
        /\ read_pos <= rnext /\ rnext <= write_pos
    BY <1>2 DEF DropStore, SeekStore, TypeOK, ReaderClaim
  <2>2. rnext - read_pos \in Nat /\ read_pos + (rnext - read_pos) = rnext
    BY <2>1
  <2> QED BY <2>1, <2>2
<1>3. CASE ReadAdvance
  BY <1>3 DEF ReadAdvance, TypeOK, ReaderClaim
<1>4. CASE ~(WritePublish \/ DropStore \/ SeekStore \/ ReadAdvance)
  <2>1. UNCHANGED <<write_pos, read_pos>>
    BY <1>4 DEF vars, Next, WriterNext, ReaderNext, ReaderStep, WriteRefuse,
       WriteBegin, WriteSample, WriterCrash, ReadCall, PlanarCall, RegulateDrop, RegulateInsert,
       ReadLoad, ReadSample, ReadReturn, SeekLoad, ReaderCrash
  <2> QED BY <2>1
<1> QED BY <1>1, <1>2, <1>3, <1>4

\* Neither position ever moves backwards.
THEOREM MonotonePositions == Spec => PositionsMonotone
<1>1. RingInvariant /\ [Next]_vars
        => [write_pos' >= write_pos /\ read_pos' >= read_pos]_vars
  <2> SUFFICES ASSUME RingInvariant, [Next]_vars
               PROVE  write_pos' >= write_pos /\ read_pos' >= read_pos
    OBVIOUS
  <2>1. write_pos \in Nat /\ read_pos \in Nat
    BY DEF RingInvariant, TypeOK
  <2> QED BY <2>1, PositionStep
<1> QED BY <1>1, RingSafety, PTL DEF Spec, PositionsMonotone

\* The frames in the ring are those of the stream, whole and in order.
LEMMA ContentExact ==
  ASSUME RingInvariant
  PROVE  Content = [p \in read_pos .. write_pos - 1 |-> Fifo!Frame(p)]
BY DEF RingInvariant, Queued, Content, Fifo!Frame, RingCh

\* The detailed ring implements the abstract queue of frames: copies sample by
\* sample, stale loads, corrections, seeks and crashes are invisible but for
\* whole blocks appearing at one end and frames leaving at the other.
THEOREM RingImplementsFifo == Spec => ImplementsFifo
<1>1. Init => Fifo!Init
  <2> SUFFICES ASSUME Init PROVE Fifo!Init
    OBVIOUS
  <2>1. RingInvariant
    BY InitInvariant
  <2>2. Content = [p \in 0 .. -1 |-> Fifo!Frame(p)]
    BY <2>1, ContentExact DEF Init
  <2> QED BY <2>2 DEF Init, Fifo!Init
<1>2. RingInvariant /\ RingInvariant' /\ [Next]_vars => [Fifo!Next]_(Fifo!fifoVars)
  <2> SUFFICES ASSUME RingInvariant, RingInvariant', [Next]_vars
               PROVE  [Fifo!Next]_(Fifo!fifoVars)
    OBVIOUS
  <2>0. /\ write_pos \in Nat /\ read_pos \in Nat /\ Capacity \in Nat
        /\ read_pos <= write_pos /\ write_pos <= read_pos + Capacity
    BY SharedAudioAssumption DEF RingInvariant, TypeOK, FillWithinCapacity, Fill
  <2>1. /\ Content = [p \in read_pos .. write_pos - 1 |-> Fifo!Frame(p)]
        /\ Content' = [p \in read_pos' .. write_pos' - 1 |-> Fifo!Frame(p)]
    BY ContentExact DEF RingInvariant, Queued, Content, Fifo!Frame, RingCh
  <2>2. CASE UNCHANGED <<write_pos, read_pos>>
    BY <2>1, <2>2 DEF Fifo!fifoVars
  <2>3. ASSUME NEW n \in Nat, read_pos' = read_pos, write_pos' = write_pos + n,
               write_pos + n <= read_pos + Capacity
        PROVE  [Fifo!Next]_(Fifo!fifoVars)
    <3>1. CASE n = 0
      BY <3>1, <2>3, <2>2, <2>0
    <3>2. CASE n # 0
      <4>1. n \in 1 .. Capacity
        BY <3>2, <2>0, <2>3
      <4>2. Fifo!Accept(n)
        BY <2>0, <2>1, <2>3 DEF Fifo!Accept
      <4> QED BY <4>1, <4>2 DEF Fifo!Next
    <3> QED BY <3>1, <3>2
  <2>4. ASSUME NEW n \in Nat, write_pos' = write_pos, read_pos' = read_pos + n,
               read_pos + n <= write_pos
        PROVE  [Fifo!Next]_(Fifo!fifoVars)
    <3>1. CASE n = 0
      BY <3>1, <2>4, <2>2, <2>0
    <3>2. CASE n # 0
      <4>1. n \in 1 .. Capacity
        BY <3>2, <2>0, <2>4
      <4>2. Fifo!Remove(n)
        BY <2>0, <2>1, <2>4 DEF Fifo!Remove
      <4> QED BY <4>1, <4>2 DEF Fifo!Next
    <3> QED BY <3>1, <3>2
  <2> QED BY <2>2, <2>3, <2>4, PositionStep
<1> QED BY <1>1, <1>2, RingSafety, PTL DEF Spec, ImplementsFifo, Fifo!Spec
=============================================================================
