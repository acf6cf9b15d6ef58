----------------------------- MODULE SharedAudio -----------------------------
(***************************************************************************)
(* The shared memory audio ring of src/shared_audio.c: one writer          *)
(* (reacjackd) and one reader (the CoreAudio driver) that share a header   *)
(* of positions and counters and a block of samples, without a lock.       *)
(*                                                                         *)
(* Every access to memory the other side writes is a step of its own: the  *)
(* loads and stores of write_pos and read_pos (acquire/release in the      *)
(* code) and each sample that a memcpy or a copy loop moves.  The order in *)
(* which one copy moves its samples is left open, as memcpy leaves it.     *)
(* Loads by a side of the position only it stores are merged with the next *)
(* shared access.                                                          *)
(*                                                                         *)
(* The sample of every channel of stream frame p is the number p, so a     *)
(* delivered sample says which frame it came from.                         *)
(***************************************************************************)
EXTENDS Regulation

CONSTANTS
  Capacity,     \* capacity_frames
  Channels,     \* channels of the ring
  OutChannels,  \* channels of an interleaved buffer (out_channels)
  WriteSizes,   \* values of frames the writer passes
  ReadSizes,    \* values of frames the reader passes
  MaxWritten,   \* bound: frames the writer attempts to publish in all
  MaxRestarts,  \* bound: crashes of the reading process
  CounterMod    \* 2^64 in the code: the header's counters wrap

ASSUME SharedAudioAssumption ==
  /\ Capacity \in Nat \ {0}
  /\ Channels \in Nat \ {0}
  /\ OutChannels \in Nat \ {0}
  /\ WriteSizes \subseteq Nat \ {0}
  /\ ReadSizes \subseteq Nat \ {0}
  /\ MaxWritten \in Nat
  /\ MaxRestarts \in Nat
  /\ CounterMod \in Nat \ {0, 1}

RingCh == 0 .. Channels - 1

Silence == -1   \* 0.0f
Garbage == -2   \* what the caller's buffer held before the call

Slot(p) == p % Capacity

VARIABLES
  \* SharedAudioHeader and the samples behind it
  write_pos, read_pos, samples,
  underruns, overruns, resets, inserted_frames, dropped_frames,
  \* the writer inside shared_audio_write
  wpc,       \* "idle", "copy", "dead"
  wframes,   \* frames of the block being written
  wtodo,     \* samples <<ch, i>> of it still to be copied
  \* the reader inside a read or a seek
  rpc,       \* "idle", "drop", "load", "copy", "return", "seek"
  rchans,    \* channels of the caller's buffer
  rwant,     \* frames asked of the inner read
  rinsert,   \* frames to duplicate behind them
  rnext,     \* read_pos a drop or a seek is about to store
  rreal,     \* to_read: real frames this read delivers
  rtodo,     \* samples <<i, ch>> still to be copied into out
  out,       \* the caller's buffer
  restarts   \* crashes of the reader so far

header == <<write_pos, read_pos, samples>>
counters == <<underruns, overruns, resets, inserted_frames, dropped_frames>>
writer == <<wpc, wframes, wtodo>>
reader == <<rpc, rchans, rwant, rinsert, rnext, rreal, rtodo, out, restarts>>
vars == <<write_pos, read_pos, samples,
          underruns, overruns, resets, inserted_frames, dropped_frames,
          wpc, wframes, wtodo,
          rpc, rchans, rwant, rinsert, rnext, rreal, rtodo, out, restarts>>

\* Channels of the caller's buffer, and those of them the ring can fill
\* (copy_channels; a planar read has a buffer for each channel of the ring).
OutCh  == 0 .. rchans - 1
CopyCh == 0 .. MinOf(Channels, rchans) - 1

NoBuffer == [c \in {} |-> Silence]

Fill == write_pos - read_pos

\* An increment of a header counter.
Bump(counter, n) == (counter + n) % CounterMod

\* A fresh ring is zero pages: empty, silent, every counter 0.
Init ==
  /\ write_pos = 0 /\ read_pos = 0
  /\ samples = [c \in RingCh \X (0 .. Capacity - 1) |-> Silence]
  /\ underruns = 0 /\ overruns = 0 /\ resets = 0
  /\ inserted_frames = 0 /\ dropped_frames = 0
  /\ wpc = "idle" /\ wframes = 0 /\ wtodo = {}
  /\ rpc = "idle" /\ rchans = 0 /\ rwant = 0 /\ rinsert = 0 /\ rnext = 0 /\ rreal = 0
  /\ rtodo = {} /\ out = NoBuffer /\ restarts = 0

-----------------------------------------------------------------------------
(* The writer: shared_audio_write. *)

\* Mutant: one frame too many is taken for free.
WritableOffByOne == Capacity - Fill + 1

\* shared_audio_writable_frames
Writable == Capacity - Fill

\* Too little space: the block is dropped whole and counted.
WriteRefuse(frames) ==
  /\ wpc = "idle"
  /\ frames > Writable
  /\ overruns' = Bump(overruns, 1)
  /\ UNCHANGED <<header, underruns, resets, inserted_frames, dropped_frames,
                 writer, reader>>

\* Enough space: from here on the block's samples are copied one by one.
WriteBegin(frames) ==
  /\ wpc = "idle"
  /\ write_pos + frames <= MaxWritten
  /\ frames <= Writable
  /\ wpc' = "copy"
  /\ wframes' = frames
  /\ wtodo' = RingCh \X (0 .. frames - 1)
  /\ UNCHANGED <<header, counters, reader>>

WriteSample(ch, i) ==
  /\ wpc = "copy"
  /\ <<ch, i>> \in wtodo
  /\ samples' = [samples EXCEPT ![<<ch, Slot(write_pos + i)>>] = write_pos + i]
  /\ wtodo' = wtodo \ {<<ch, i>>}
  /\ UNCHANGED <<write_pos, read_pos, counters, wpc, wframes, reader>>

\* Mutant: write_pos is stored before the samples are all there.
WritePublishEarly ==
  /\ wpc = "copy"
  /\ write_pos' = write_pos + wframes
  /\ wpc' = "idle"
  /\ wframes' = 0
  /\ wtodo' = {}
  /\ UNCHANGED <<read_pos, samples, counters, reader>>

\* The release store of write_pos, once the copy is complete.
WritePublish ==
  /\ wpc = "copy"
  /\ wtodo = {}
  /\ write_pos' = write_pos + wframes
  /\ wpc' = "idle"
  /\ wframes' = 0
  /\ UNCHANGED <<read_pos, samples, counters, wtodo, reader>>

\* reacjackd dies, possibly half way through a block.  A new daemon makes a
\* new ring, so nobody writes to this one again.
WriterCrash ==
  /\ wpc # "dead"
  /\ wpc' = "dead"
  /\ wframes' = 0
  /\ wtodo' = {}
  /\ UNCHANGED <<header, counters, reader>>

-----------------------------------------------------------------------------
(* The reader: shared_audio_read, shared_audio_read_interleaved and        *)
(* shared_audio_read_interleaved_regulated.                                *)

\* An unregulated interleaved read goes straight to the inner read ...
ReadCall(frames) ==
  /\ rpc = "idle"
  /\ rpc' = "load"
  /\ rchans' = OutChannels
  /\ rwant' = frames
  /\ UNCHANGED <<header, counters, writer, rinsert, rnext, rreal, rtodo, out,
                 restarts>>

\* ... and a planar read is the same loads, copies and stores into one buffer
\* per channel of the ring.  It silences the missing frames after the copy and
\* not before, an order that nobody but the caller's own buffer sees.
PlanarCall(frames) ==
  /\ rpc = "idle"
  /\ rpc' = "load"
  /\ rchans' = Channels
  /\ rwant' = frames
  /\ UNCHANGED <<header, counters, writer, rinsert, rnext, rreal, rtodo, out,
                 restarts>>

\* A regulated read looks at the fill: too full, it will drop frames first ...
RegulateDrop(frames) ==
  /\ rpc = "idle"
  /\ TooFull(Fill)
  /\ rpc' = "drop"
  /\ rnext' = read_pos + DropOf(Fill)
  /\ rchans' = OutChannels
  /\ rwant' = frames
  /\ UNCHANGED <<header, counters, writer, rinsert, rreal, rtodo, out, restarts>>

\* ... otherwise it reads, fewer frames than asked for if it is too empty.
RegulateInsert(frames) ==
  /\ rpc = "idle"
  /\ ~TooFull(Fill)
  /\ rpc' = "load"
  /\ rinsert' = InsertOf(Fill, frames)
  /\ rchans' = OutChannels
  /\ rwant' = frames - rinsert'
  /\ UNCHANGED <<header, counters, writer, rnext, rreal, rtodo, out, restarts>>

DropStore ==
  /\ rpc = "drop"
  /\ read_pos' = rnext
  /\ dropped_frames' = Bump(dropped_frames, rnext - read_pos)
  /\ rpc' = "load"
  /\ rnext' = 0
  /\ UNCHANGED <<write_pos, samples, underruns, overruns, resets,
                 inserted_frames, writer, rchans, rwant, rinsert, rreal, rtodo,
                 out, restarts>>

\* The inner read loads write_pos (a second time, if regulated) and silences
\* the part of the buffer it was given; the tail to insert is still garbage.
ReadLoad ==
  /\ rpc = "load"
  /\ rpc' = "copy"
  /\ rreal' = MinOf(Fill, rwant)
  /\ rtodo' = (0 .. rreal' - 1) \X CopyCh
  /\ out' = [c \in (0 .. rwant + rinsert - 1) \X OutCh |->
               IF c[1] < rwant THEN Silence ELSE Garbage]
  /\ UNCHANGED <<header, counters, writer, rchans, rwant, rinsert, rnext, restarts>>

ReadSample(i, ch) ==
  /\ rpc = "copy"
  /\ <<i, ch>> \in rtodo
  /\ out' = [out EXCEPT ![<<i, ch>>] = samples[<<ch, Slot(read_pos + i)>>]]
  /\ rtodo' = rtodo \ {<<i, ch>>}
  /\ UNCHANGED <<header, counters, writer, rpc, rchans, rwant, rinsert, rnext,
                 rreal, restarts>>

\* Output frame i of the tail: the last real frame, or silence without one.
TailSample(c) ==
  IF rreal > 0 THEN out[<<rreal - 1, c[2]>>] ELSE Silence

\* Mutant: only a read that finds nothing at all counts as an underrun.
ReadAdvanceLenient ==
  /\ rpc = "copy"
  /\ rtodo = {}
  /\ underruns' = IF rreal = 0 THEN Bump(underruns, 1) ELSE underruns
  /\ read_pos' = read_pos + rreal
  /\ out' = [c \in DOMAIN out |-> IF c[1] < rwant THEN out[c] ELSE TailSample(c)]
  /\ inserted_frames' = IF rreal > 0 THEN Bump(inserted_frames, rinsert)
                                     ELSE inserted_frames
  /\ rpc' = "return"
  /\ UNCHANGED <<write_pos, samples, overruns, resets, dropped_frames, writer,
                 rchans, rwant, rinsert, rnext, rreal, rtodo, restarts>>

\* Count a short read, release the frames to the writer, fill the tail.
ReadAdvance ==
  /\ rpc = "copy"
  /\ rtodo = {}
  /\ underruns' = IF rreal < rwant THEN Bump(underruns, 1) ELSE underruns
  /\ read_pos' = read_pos + rreal
  /\ out' = [c \in DOMAIN out |-> IF c[1] < rwant THEN out[c] ELSE TailSample(c)]
  /\ inserted_frames' = IF rreal > 0 THEN Bump(inserted_frames, rinsert)
                                     ELSE inserted_frames
  /\ rpc' = "return"
  /\ UNCHANGED <<write_pos, samples, overruns, resets, dropped_frames, writer,
                 rchans, rwant, rinsert, rnext, rreal, rtodo, restarts>>

\* The call's locals are gone; the caller takes its buffer away.
ReaderForgets ==
  /\ rpc' = "idle"
  /\ rchans' = 0 /\ rwant' = 0 /\ rinsert' = 0 /\ rnext' = 0 /\ rreal' = 0
  /\ rtodo' = {}
  /\ out' = NoBuffer

ReadReturn ==
  /\ rpc = "return"
  /\ ReaderForgets
  /\ UNCHANGED <<header, counters, writer, restarts>>

\* shared_audio_seek_to_fill: load write_pos, then store read_pos.
SeekLoad ==
  /\ rpc = "idle"
  /\ rpc' = "seek"
  /\ rnext' = write_pos - SeekFill(Fill)
  /\ UNCHANGED <<header, counters, writer, rchans, rwant, rinsert, rreal, rtodo, out,
                 restarts>>

SeekStore ==
  /\ rpc = "seek"
  /\ read_pos' = rnext
  /\ resets' = Bump(resets, 1)
  /\ ReaderForgets
  /\ UNCHANGED <<write_pos, samples, underruns, overruns, inserted_frames,
                 dropped_frames, writer, restarts>>

\* coreaudiod is killed and loads the driver again: what the dead reader had
\* stored in the header stays, what it held locally does not.
ReaderCrash ==
  /\ restarts < MaxRestarts
  /\ rpc # "idle"
  /\ restarts' = restarts + 1
  /\ ReaderForgets
  /\ UNCHANGED <<header, counters, writer>>

-----------------------------------------------------------------------------
WriterNext ==
  \/ \E frames \in WriteSizes : WriteRefuse(frames) \/ WriteBegin(frames)
  \/ \E cell \in wtodo : WriteSample(cell[1], cell[2])
  \/ WritePublish
  \/ WriterCrash

\* A regulated read whose request is longer than any correction: an insertion
\* cannot replace all of it.
LongReaderCall ==
  \E frames \in ReadSizes :
    frames > MaxCorrection /\ (RegulateDrop(frames) \/ RegulateInsert(frames))

ReaderStep ==
  \/ DropStore
  \/ ReadLoad
  \/ \E cell \in rtodo : ReadSample(cell[1], cell[2])
  \/ ReadAdvance
  \/ ReadReturn
  \/ SeekStore

ReaderNext ==
  \/ \E frames \in ReadSizes :
       \/ ReadCall(frames) \/ PlanarCall(frames)
       \/ RegulateDrop(frames) \/ RegulateInsert(frames)
  \/ ReaderStep
  \/ SeekLoad
  \/ ReaderCrash

Next == WriterNext \/ ReaderNext

Spec == Init /\ [][Next]_vars

\* A call that was made runs to its end: nothing in it waits for the writer.
\* No fairness is asked of the writer, nor of the host that makes the calls.
CallFairSpec == Spec /\ WF_vars(ReaderStep)

\* In addition the host's IO thread keeps asking for audio: no matter how often
\* IO is restarted (a seek) or other reads are made, regulated reads of more
\* frames than a correction (8 in the code, which CoreAudio's IO buffers exceed)
\* happen again and again.
HostFairSpec == CallFairSpec /\ SF_vars(LongReaderCall)

-----------------------------------------------------------------------------
(* Properties. *)

Counter == 0 .. CounterMod - 1
Sample == Nat \cup {Silence, Garbage}

\* Every variable stays in its domain; in particular read_pos never becomes
\* negative, which in the code is a position that wrapped below zero.
TypeOK ==
  /\ write_pos \in Nat /\ read_pos \in Nat
  /\ samples \in [RingCh \X (0 .. Capacity - 1) -> Sample]
  /\ underruns \in Counter /\ overruns \in Counter /\ resets \in Counter
  /\ inserted_frames \in Counter /\ dropped_frames \in Counter
  /\ wpc \in {"idle", "copy", "dead"}
  /\ wframes \in Nat
  /\ wtodo \subseteq RingCh \X (0 .. wframes - 1)
  /\ rpc \in {"idle", "drop", "load", "copy", "return", "seek"}
  /\ rchans \in Nat /\ rwant \in Nat /\ rinsert \in Nat /\ rnext \in Nat /\ rreal \in Nat
  /\ rtodo \subseteq (0 .. rreal - 1) \X CopyCh
  /\ out \in [DOMAIN out -> Sample]
  /\ rpc \in {"copy", "return"} =>
       DOMAIN out = (0 .. rwant + rinsert - 1) \X OutCh
  /\ restarts \in 0 .. MaxRestarts

\* The reader never overtakes the writer and the writer never laps the reader,
\* whatever the interleaving of blocks, reads, drift corrections, seeks and
\* crashes: writable_frames' subtraction cannot wrap.
FillWithinCapacity == 0 <= Fill /\ Fill <= Capacity

\* The two sides never touch the same sample at the same time: what the writer
\* is still to overwrite and what the reader is still to copy are different
\* slots of the ring, so the plain memory accesses of the two do not race.
NoSlotRace ==
  \A w \in wtodo, r \in rtodo :
    w[1] = r[2] => Slot(write_pos + w[2]) # Slot(read_pos + r[1])

\* What a read that is about to return has put in the caller's buffer.
Delivered(c) ==
  CASE c[2] \notin CopyCh -> Silence
    [] c[2] \in CopyCh /\ c[1] < rreal -> read_pos - rreal + c[1]
    [] c[2] \in CopyCh /\ c[1] >= rwant /\ rreal > 0 -> read_pos - 1
    [] OTHER -> Silence

\* A read delivers consecutive frames of the stream, each whole, from where the
\* last one stopped; silence where frames are missing and on channels the ring
\* has not; the last real frame repeated where regulation inserts; and nothing
\* of what the buffer held before ("the reader never observes partially written
\* frames", shared_audio.h).
DeliveredExact == rpc = "return" => \A c \in DOMAIN out : out[c] = Delivered(c)

\* "Positions are monotonically increasing frame counts" (shared_audio.h): not
\* even a seek or a drop, whose decision is stale when it is stored, goes back.
PositionsMonotone == [][write_pos' >= write_pos /\ read_pos' >= read_pos]_vars

\* A read is about to return a buffer with silence on a channel of the ring,
\* although the stream has no silence in it.
DeliversSilence ==
  /\ rpc = "copy" /\ rpc' = "return"
  /\ \E c \in DOMAIN out' : c[2] \in CopyCh /\ out'[c] = Silence

\* A read that asks the ring for at least one frame counts the silence it
\* returns as an underrun ("missing frames become silence and increment
\* underruns", shared_audio.h).  The hypothesis rwant > 0 says that the insertion
\* did not replace the whole request, as it may when a regulated read asks for
\* no more frames than the largest correction; the silence that is then returned
\* when there is no frame to repeat is not counted (shared_audio.c:257-272).
SilenceIsCounted ==
  [][DeliversSilence /\ rwant > 0 => underruns' # underruns]_vars

\* "Never blocks" (shared_audio.h): a read or a seek ends even if the writer died
\* in the middle of a block.
ReadReturns == rpc # "idle" ~> rpc = "idle"

\* Every frame that was published leaves the ring, delivered or counted as
\* dropped: regulation that keeps duplicating frames of a starving ring does not
\* keep the last ones in it.
PublishedConsumed == \A p \in 0 .. MaxWritten - 1 : p < write_pos ~> p < read_pos

\* The reader makes progress whatever the writer does: its calls return, and through
\* them everything published is consumed, provided that among the reads there are
\* always some longer than a correction (a shorter one may take nothing).
ReaderProgress == ReadReturns /\ PublishedConsumed

\* The frames between the positions, as the samples stand in memory.
Content ==
  [p \in read_pos .. write_pos - 1 |-> [ch \in RingCh |-> samples[<<ch, Slot(p)>>]]]

Fifo == INSTANCE AudioFifo WITH head <- read_pos, tail <- write_pos, buffer <- Content

\* The ring, with its copies and its stale loads, is a bounded first-in
\* first-out queue of whole frames: each publication of write_pos is an Accept,
\* each store of read_pos a Remove, and every other step leaves the content of
\* the queue as it is.
ImplementsFifo == Fifo!Spec

-----------------------------------------------------------------------------
(* Why it works: an invariant that every step preserves.  Each side holds a *)
(* claim on frames of the ring that the other side's stores cannot void.    *)

\* Every frame between the positions is in its slots, whole.
Queued ==
  \A p \in read_pos .. write_pos - 1, ch \in RingCh : samples[<<ch, Slot(p)>>] = p

\* The block being written fits behind the reader, also behind where the reader
\* was when the writer looked, and what is copied of it is in its slots.
WriterClaim ==
  /\ wpc # "copy" => wtodo = {} /\ wframes = 0
  /\ wpc = "copy" =>
       /\ write_pos + wframes <= read_pos + Capacity
       /\ \A ch \in RingCh, i \in 0 .. wframes - 1 :
            <<ch, i>> \notin wtodo =>
              samples[<<ch, Slot(write_pos + i)>>] = write_pos + i

\* What a read in progress has made of cell c of the caller's buffer.
CopiedSoFar(c) ==
  IF c[2] \in CopyCh /\ c[1] < rreal /\ c \notin rtodo THEN read_pos + c[1]
  ELSE IF c[1] < rwant THEN Silence ELSE Garbage

\* What the reader decided from a load of write_pos stays true of any later
\* write_pos, and its buffer holds what it has copied.
ReaderClaim ==
  /\ rpc # "copy" => rtodo = {}
  /\ rpc \in {"drop", "seek"} => read_pos <= rnext /\ rnext <= write_pos
  /\ rpc \in {"copy", "return"} => rreal <= rwant
  /\ rpc = "copy" => /\ read_pos + rreal <= write_pos
                     /\ \A c \in DOMAIN out : out[c] = CopiedSoFar(c)
  /\ rpc = "return" => rreal <= read_pos

\* The inductive invariant: types, the distance of the positions, the content of
\* the ring, the claims of the two sides, and what a finished read delivered.
RingInvariant ==
  /\ TypeOK
  /\ FillWithinCapacity
  /\ Queued
  /\ WriterClaim
  /\ ReaderClaim
  /\ DeliveredExact
=============================================================================
