------------------------------ MODULE HalDriver ------------------------------
(***************************************************************************)
(* The IO side of the CoreAudio driver (ReacJackDriver.c) inside           *)
(* coreaudiod: clients that start and stop IO, the realtime IO thread that *)
(* asks for time stamps and for audio, and a thread that asks whether the  *)
(* device is running.  They share gDevice_IOMutex and the mapping of the   *)
(* ring, and the IO thread reads the ring without the mutex.               *)
(*                                                                         *)
(* The host is external: IO operations happen only while a client has      *)
(* IO started, and the last such client waits for the operation in         *)
(* progress before its StopIO.  What a time stamp says is the subject of   *)
(* HalTimeline, what a read does to the ring that of SharedAudio.          *)
(***************************************************************************)
EXTENDS Integers, FiniteSets

CONSTANTS
  Clients,    \* clients of the device
  Nobody,     \* holds the mutex when no thread does
  CountMax    \* UINT64_MAX, the limit of gDevice_IOIsRunning

ASSUME HalDriverAssumption ==
  Nobody \notin Clients /\ IsFiniteSet(Clients) /\ CountMax \in Nat \ {0}

VARIABLES
  mutex,        \* who holds gDevice_IOMutex
  ioIsRunning,  \* gDevice_IOIsRunning
  ringIsOpen,   \* gDevice_RingIsOpen
  mapped,       \* whether gDevice_Ring's memory is mapped
  cpc,          \* clients: "out", "starting", "opening", "seeking", "in", "stopping", "closing"
  io,           \* IO thread: "idle", "stamp" (wants the mutex), "read"
  asker,        \* kAudioDevicePropertyDeviceIsRunning: "idle", "asked", "yes", "no"
  steady        \* clients that have IO started since before the question was asked

vars == <<mutex, ioIsRunning, ringIsOpen, mapped, cpc, io, asker, steady>>
ring == <<ringIsOpen, mapped>>

In == {c \in Clients : cpc[c] = "in"}

Init ==
  /\ mutex = Nobody /\ ioIsRunning = 0 /\ ringIsOpen = FALSE /\ mapped = FALSE
  /\ cpc = [c \in Clients |-> "out"]
  /\ io = "idle" /\ asker = "idle" /\ steady = {}

Goto(c, label) == cpc' = [cpc EXCEPT ![c] = label]

-----------------------------------------------------------------------------
(* ReacJack_StartIO *)

StartCall(c) ==
  /\ cpc[c] = "out"
  /\ Goto(c, "starting")
  /\ UNCHANGED <<mutex, ioIsRunning, ring, io, asker, steady>>

\* The count is at its limit: the call fails.
StartRefused(c) ==
  /\ cpc[c] = "starting" /\ mutex = Nobody
  /\ ioIsRunning = CountMax
  /\ Goto(c, "out")
  /\ UNCHANGED <<mutex, ioIsRunning, ring, io, asker, steady>>

\* Mutant: a further client moves the read position, too.
StartMoreSeeks(c) ==
  /\ cpc[c] = "starting" /\ mutex = Nobody
  /\ ioIsRunning > 0 /\ ioIsRunning < CountMax
  /\ Goto(c, "seeking")
  /\ UNCHANGED <<mutex, ioIsRunning, ring, io, asker, steady>>

\* A further client: counted, nothing else.
StartMore(c) ==
  /\ cpc[c] = "starting" /\ mutex = Nobody
  /\ ioIsRunning > 0 /\ ioIsRunning < CountMax
  /\ ioIsRunning' = ioIsRunning + 1
  /\ Goto(c, "in")
  /\ UNCHANGED <<mutex, ring, io, asker, steady>>

\* The first client: the timeline is reset and the ring opened, mutex held.
StartFirst(c) ==
  /\ cpc[c] = "starting" /\ mutex = Nobody
  /\ ioIsRunning = 0
  /\ mutex' = c
  /\ Goto(c, "opening")
  /\ UNCHANGED <<ioIsRunning, ring, io, asker, steady>>

\* shared_audio_open succeeds, and the read position is about to be moved; ...
OpenRing(c) ==
  /\ cpc[c] = "opening"
  /\ mapped' = TRUE /\ ringIsOpen' = TRUE
  /\ Goto(c, "seeking")
  /\ UNCHANGED <<mutex, ioIsRunning, io, asker, steady>>

\* Mutant: a client that gets no ring is not counted, although its StartIO succeeds.
OpenFailsUncounted(c) ==
  /\ cpc[c] = "opening"
  /\ ringIsOpen' = FALSE
  /\ mutex' = Nobody
  /\ Goto(c, "in")
  /\ UNCHANGED <<ioIsRunning, mapped, io, asker, steady>>

\* ... or it fails, and the client records silence.
OpenFails(c) ==
  /\ cpc[c] = "opening"
  /\ ringIsOpen' = FALSE
  /\ ioIsRunning' = ioIsRunning + 1
  /\ mutex' = Nobody
  /\ Goto(c, "in")
  /\ UNCHANGED <<mapped, io, asker, steady>>

Seek(c) ==
  /\ cpc[c] = "seeking"
  /\ ioIsRunning' = ioIsRunning + 1
  /\ mutex' = Nobody
  /\ Goto(c, "in")
  /\ UNCHANGED <<ring, io, asker, steady>>

-----------------------------------------------------------------------------
(* ReacJack_StopIO *)

\* The host's part: a last client waits for the IO operation in progress.
StopCall(c) ==
  /\ cpc[c] = "in"
  /\ io = "idle" \/ In # {c}
  /\ Goto(c, "stopping")
  /\ steady' = steady \ {c}
  /\ UNCHANGED <<mutex, ioIsRunning, ring, io, asker>>

\* Mutant: the ring is closed by the first client that stops.
StopAnyCloses(c) ==
  /\ cpc[c] = "stopping" /\ mutex = Nobody
  /\ ioIsRunning' = ioIsRunning - 1
  /\ IF ringIsOpen
     THEN mutex' = c /\ Goto(c, "closing")
     ELSE Goto(c, "out") /\ UNCHANGED mutex
  /\ UNCHANGED <<ring, io, asker, steady>>

\* The last client closes the ring, mutex held; with a count of 0 the call fails.
Stop(c) ==
  /\ cpc[c] = "stopping" /\ mutex = Nobody
  /\ ioIsRunning' = IF ioIsRunning = 0 THEN 0 ELSE ioIsRunning - 1
  /\ IF ioIsRunning = 1 /\ ringIsOpen
     THEN mutex' = c /\ Goto(c, "closing")
     ELSE Goto(c, "out") /\ UNCHANGED mutex
  /\ UNCHANGED <<ring, io, asker, steady>>

\* shared_audio_close first unmaps; the flag follows.
Unmap(c) ==
  /\ cpc[c] = "closing" /\ mapped
  /\ mapped' = FALSE
  /\ UNCHANGED <<mutex, ioIsRunning, ringIsOpen, cpc, io, asker, steady>>

Close(c) ==
  /\ cpc[c] = "closing" /\ ~mapped
  /\ ringIsOpen' = FALSE
  /\ mutex' = Nobody
  /\ Goto(c, "out")
  /\ UNCHANGED <<ioIsRunning, mapped, io, asker, steady>>

-----------------------------------------------------------------------------
(* The IO thread: GetZeroTimeStamp and DoIOOperation(ReadInput). *)

StampCall ==
  /\ io = "idle" /\ In # {}
  /\ io' = "stamp"
  /\ UNCHANGED <<mutex, ioIsRunning, ring, cpc, asker, steady>>

\* With the mutex, the ring's clock is read if the ring is open.  Taking the mutex,
\* counting or looking, and letting it go is one step, here and above: mutex is not
\* Nobody only while it is held over system calls.
Stamp ==
  /\ io = "stamp" /\ mutex = Nobody
  /\ io' = "idle"
  /\ UNCHANGED <<mutex, ioIsRunning, ring, cpc, asker, steady>>

\* gDevice_RingIsOpen is tested without the mutex ...
ReadBegin ==
  /\ io = "idle" /\ In # {}
  /\ io' = IF ringIsOpen THEN "read" ELSE "idle"
  /\ UNCHANGED <<mutex, ioIsRunning, ring, cpc, asker, steady>>

\* ... and the ring read for as long as that takes.
ReadEnd ==
  /\ io = "read"
  /\ io' = "idle"
  /\ UNCHANGED <<mutex, ioIsRunning, ring, cpc, asker, steady>>

-----------------------------------------------------------------------------
(* GetPropertyData(kAudioDevicePropertyDeviceIsRunning) *)

AskRunning ==
  /\ asker = "idle"
  /\ asker' = "asked"
  /\ steady' = In
  /\ UNCHANGED <<mutex, ioIsRunning, ring, cpc, io>>

AnswerRunning ==
  /\ asker = "asked" /\ mutex = Nobody
  /\ asker' = IF ioIsRunning > 0 THEN "yes" ELSE "no"
  /\ UNCHANGED <<mutex, ioIsRunning, ring, cpc, io, steady>>

AskerDone ==
  /\ asker \in {"yes", "no"}
  /\ asker' = "idle"
  /\ steady' = {}
  /\ UNCHANGED <<mutex, ioIsRunning, ring, cpc, io>>

-----------------------------------------------------------------------------
\* What a thread does once it has the mutex: system calls that return.
Holder(c) == OpenRing(c) \/ OpenFails(c) \/ Seek(c) \/ Unmap(c) \/ Close(c)

Next ==
  \/ \E c \in Clients :
       \/ StartCall(c) \/ StartRefused(c) \/ StartMore(c) \/ StartFirst(c)
       \/ StopCall(c) \/ Stop(c) \/ Holder(c)
  \/ StampCall \/ Stamp \/ ReadBegin \/ ReadEnd
  \/ AskRunning \/ AnswerRunning \/ AskerDone

Spec == Init /\ [][Next]_vars

-----------------------------------------------------------------------------
(* Properties. *)

\* Every variable stays in its domain; the mutex is held over the steps of a client that
\* opens or closes the ring and by nobody else.
TypeOK ==
  /\ mutex \in Clients \cup {Nobody}
  /\ ioIsRunning \in 0 .. CountMax
  /\ ringIsOpen \in BOOLEAN /\ mapped \in BOOLEAN
  /\ cpc \in [Clients -> {"out", "starting", "opening", "seeking", "in", "stopping", "closing"}]
  /\ io \in {"idle", "stamp", "read"}
  /\ asker \in {"idle", "asked", "yes", "no"}
  /\ steady \subseteq Clients

\* gDevice_IOIsRunning counts the clients whose StartIO was counted and whose StopIO was
\* not: every one of them could stop without meeting a count of 0.
Counted == {c \in Clients : cpc[c] \in {"in", "stopping"}}
CountExact == ioIsRunning = Cardinality(Counted)

\* The IO thread reads the ring without the mutex, yet never one that was unmapped
\* between its test of gDevice_RingIsOpen and its last access, nor together with the
\* seek of a StartIO, which would make two readers of a ring for one.
ReadsMappedRing == io = "read" => mapped /\ \A c \in Clients : cpc[c] \notin {"seeking", "closing"}

\* "Nothing here may block ... on the IO path": GetZeroTimeStamp does take the mutex that
\* is held over shm_open, mmap and munmap, but never waits for one of these: whoever holds
\* it then only counts.
StampNeverWaitsForSyscall == io = "stamp" => mutex = Nobody

\* A mapping is not leaked and not unmapped twice: while no client is counted and none
\* opens or closes, the ring is not mapped, and the flag always says so.
MappingTracked ==
  mutex = Nobody => mapped = ringIsOpen /\ (ioIsRunning = 0 => ~mapped)

\* "Is the device running?" is answered yes if a client had IO started all the while.
RunningHonest == asker = "no" => steady = {}

-----------------------------------------------------------------------------
(* Why it works: the mutex is held over several steps only while no client is  *)
(* counted, and IO is in progress only while one is.                           *)

\* The holder of the mutex is the one client that opens or closes, no client is counted
\* meanwhile, and each stage knows what became of the ring.
MutexStages ==
  /\ \A c \in Clients : mutex = c <=> cpc[c] \in {"opening", "seeking", "closing"}
  /\ mutex # Nobody => ioIsRunning = 0
  /\ \A c \in Clients :
       /\ cpc[c] = "opening" => ~mapped /\ ~ringIsOpen
       /\ cpc[c] = "seeking" => mapped /\ ringIsOpen
       /\ cpc[c] = "closing" => ringIsOpen

\* An IO operation in progress has a client that has IO started, and a read found the
\* ring open, which it still is; so has a client in steady.
IOStages ==
  /\ io # "idle" => In # {}
  /\ io = "read" => ringIsOpen
  /\ steady \subseteq In

\* What holds of StartIO, StopIO and the running query in every state: the count, the
\* mapping and the answer agree with what the clients did.
DriverInvariant ==
  TypeOK /\ CountExact /\ MappingTracked /\ RunningHonest /\ MutexStages /\ IOStages
=============================================================================
