---------------------------- MODULE RingLifecycle ----------------------------
(***************************************************************************)
(* Making, finding and removing the shared memory ring: reacjackd creates  *)
(* the POSIX shared memory object when its first packet tells it the       *)
(* channel count and unlinks it when it ends; the CoreAudio driver opens   *)
(* it when recording starts and closes it when recording stops.            *)
(*                                                                         *)
(* The kernel's namespace holds one name.  Objects (segments) are named    *)
(* after the daemon process that made them; a mapping keeps its segment    *)
(* when the name goes.  A restart of the daemon is another process of the  *)
(* set Daemons.  Each system call is one step, and so is each store to the *)
(* header: they are plain stores, seen by the opener in any order.         *)
(***************************************************************************)
EXTENDS Naturals

CONSTANTS
  Daemons,   \* daemon processes, each started at most once
  None       \* no segment

ASSUME RingLifecycleAssumption == None \notin Daemons

Fields == {"identity", "sample_rate", "channels", "capacity_frames"}

\* What shared_audio_open looks at; "identity" is magic, version and size of the
\* header.
Checked == {"identity", "channels", "capacity_frames"}

VARIABLES
  name,     \* segment the shared memory name stands for
  sized,    \* segments that have their size
  stored,   \* header fields stored in each segment
  dpc,      \* daemon: "off", "unlink", "open", "size", "header", "run",
            \*   "close", "remove", "gone"
  dseg,     \* daemon: segment it has mapped
  killed,   \* daemons that ended without running their exit path
  rpc,      \* driver: "stopped", "fstat", "check", "attached", "silent"
  rseg      \* driver: segment it has opened

vars == <<name, sized, stored, dpc, dseg, killed, rpc, rseg>>

Init ==
  /\ name = None /\ sized = {}
  /\ stored = [s \in Daemons |-> {}]
  /\ dpc = [d \in Daemons |-> "off"]
  /\ dseg = [d \in Daemons |-> None]
  /\ killed = {}
  /\ rpc = "stopped" /\ rseg = None

-----------------------------------------------------------------------------
(* The daemon: ensure_ring, shared_audio_create and the end of main. *)

Goto(d, pc) == dpc' = [dpc EXCEPT ![d] = pc]

\* A daemon is started and reaches ensure_ring.
Start(d) ==
  /\ dpc[d] = "off"
  /\ Goto(d, "unlink")
  /\ UNCHANGED <<name, sized, stored, dseg, killed, rpc, rseg>>

\* Whatever has the name loses it.
CreateUnlink(d) ==
  /\ dpc[d] = "unlink"
  /\ name' = None
  /\ Goto(d, "open")
  /\ UNCHANGED <<sized, stored, dseg, killed, rpc, rseg>>

\* Mutant: without O_EXCL the segment another daemon has just made is shared.
CreateOpenShared(d) ==
  /\ dpc[d] = "open"
  /\ name' = IF name = None THEN d ELSE name
  /\ dseg' = [dseg EXCEPT ![d] = name']
  /\ Goto(d, "size")
  /\ UNCHANGED <<sized, stored, killed, rpc, rseg>>

\* O_CREAT | O_EXCL: another daemon may have taken the name since; then create
\* fails and the daemon ends without touching the name.
CreateOpen(d) ==
  /\ dpc[d] = "open"
  /\ IF name = None
     THEN name' = d /\ dseg' = [dseg EXCEPT ![d] = d] /\ Goto(d, "size")
     ELSE Goto(d, "gone") /\ UNCHANGED <<name, dseg>>
  /\ UNCHANGED <<sized, stored, killed, rpc, rseg>>

\* ftruncate and mmap.
CreateSize(d) ==
  /\ dpc[d] = "size"
  /\ sized' = sized \cup {dseg[d]}
  /\ Goto(d, "header")
  /\ UNCHANGED <<name, stored, dseg, killed, rpc, rseg>>

\* Mutant: the failed create leaves its segment behind.
CreateSizeFailsLeaky(d) ==
  /\ dpc[d] = "size"
  /\ dseg' = [dseg EXCEPT ![d] = None]
  /\ Goto(d, "gone")
  /\ UNCHANGED <<name, sized, stored, killed, rpc, rseg>>

\* One of them fails: the name is removed, whoever has it now.
CreateSizeFails(d) ==
  /\ dpc[d] = "size"
  /\ name' = None
  /\ dseg' = [dseg EXCEPT ![d] = None]
  /\ Goto(d, "gone")
  /\ UNCHANGED <<sized, stored, killed, rpc, rseg>>

StoreField(d, f) ==
  /\ dpc[d] = "header"
  /\ f \notin stored[dseg[d]]
  /\ stored' = [stored EXCEPT ![dseg[d]] = @ \cup {f}]
  /\ UNCHANGED <<name, sized, dpc, dseg, killed, rpc, rseg>>

CreateReturn(d) ==
  /\ dpc[d] = "header"
  /\ stored[dseg[d]] = Fields
  /\ Goto(d, "run")
  /\ UNCHANGED <<name, sized, stored, dseg, killed, rpc, rseg>>

\* SIGINT or SIGTERM: the capture loop ends.
Stop(d) ==
  /\ dpc[d] = "run"
  /\ Goto(d, "close")
  /\ UNCHANGED <<name, sized, stored, dseg, killed, rpc, rseg>>

CloseRing(d) ==
  /\ dpc[d] = "close"
  /\ dseg' = [dseg EXCEPT ![d] = None]
  /\ Goto(d, "remove")
  /\ UNCHANGED <<name, sized, stored, killed, rpc, rseg>>

\* shared_audio_unlink: by name, whichever segment has it.
RemoveRing(d) ==
  /\ dpc[d] = "remove"
  /\ name' = None
  /\ Goto(d, "gone")
  /\ UNCHANGED <<sized, stored, dseg, killed, rpc, rseg>>

\* SIGKILL, a crash, a power cut of the process: the name stays.
Kill(d) ==
  /\ dpc[d] \notin {"off", "gone"}
  /\ killed' = killed \cup {d}
  /\ dseg' = [dseg EXCEPT ![d] = None]
  /\ Goto(d, "gone")
  /\ UNCHANGED <<name, sized, stored, rpc, rseg>>

-----------------------------------------------------------------------------
(* The driver: shared_audio_open in StartIO, shared_audio_close in StopIO. *)

\* shm_open; without a ring the device records silence.
OpenRing ==
  /\ rpc = "stopped"
  /\ rseg' = name
  /\ rpc' = IF name = None THEN "silent" ELSE "fstat"
  /\ UNCHANGED <<name, sized, stored, dpc, dseg, killed>>

OpenFstat ==
  /\ rpc = "fstat"
  /\ IF rseg \in sized THEN rpc' = "check" /\ UNCHANGED rseg
                       ELSE rpc' = "silent" /\ rseg' = None
  /\ UNCHANGED <<name, sized, stored, dpc, dseg, killed>>

\* Mutant: the magic number is taken for the whole header.
OpenCheckMagic ==
  /\ rpc = "check"
  /\ IF "identity" \in stored[rseg] THEN rpc' = "attached" /\ UNCHANGED rseg
                                    ELSE rpc' = "silent" /\ rseg' = None
  /\ UNCHANGED <<name, sized, stored, dpc, dseg, killed>>

OpenCheck ==
  /\ rpc = "check"
  /\ IF Checked \subseteq stored[rseg] THEN rpc' = "attached" /\ UNCHANGED rseg
                                       ELSE rpc' = "silent" /\ rseg' = None
  /\ UNCHANGED <<name, sized, stored, dpc, dseg, killed>>

\* Mutant: the ring stays open across recordings.
StopIOKeeps ==
  /\ rpc \in {"attached", "silent"}
  /\ rpc' = IF rpc = "attached" THEN "attached" ELSE "stopped"
  /\ UNCHANGED <<name, sized, stored, dpc, dseg, killed, rseg>>

StopIO ==
  /\ rpc \in {"attached", "silent"}
  /\ rpc' = "stopped"
  /\ rseg' = None
  /\ UNCHANGED <<name, sized, stored, dpc, dseg, killed>>

-----------------------------------------------------------------------------
DaemonStep(d) ==
  \/ CreateUnlink(d) \/ CreateOpen(d) \/ CreateSize(d) \/ CreateSizeFails(d)
  \/ \E f \in Fields : StoreField(d, f)
  \/ CreateReturn(d) \/ CloseRing(d) \/ RemoveRing(d)

DriverStep == OpenRing \/ OpenFstat \/ OpenCheck \/ StopIO

Next ==
  \/ \E d \in Daemons : Start(d) \/ DaemonStep(d) \/ Stop(d) \/ Kill(d)
  \/ DriverStep

Spec == Init /\ [][Next]_vars

\* A daemon in create or on its way out runs on, and the user stops and starts
\* recording again and again; nothing makes a daemon start or stop.
FairSpec == Spec /\ WF_vars(DriverStep) /\ \A d \in Daemons : WF_vars(DaemonStep(d))

-----------------------------------------------------------------------------
(* Properties. *)

\* Every variable stays in its domain.
TypeOK ==
  /\ name \in Daemons \cup {None}
  /\ sized \subseteq Daemons /\ killed \subseteq Daemons
  /\ stored \in [Daemons -> SUBSET Fields]
  /\ dpc \in [Daemons -> {"off", "unlink", "open", "size", "header", "run", "close",
                          "remove", "gone"}]
  /\ dseg \in [Daemons -> Daemons \cup {None}]
  /\ rpc \in {"stopped", "fstat", "check", "attached", "silent"}
  /\ rseg \in Daemons \cup {None}

\* "Single-writer" (shared_audio.h): two daemons never write to the same segment,
\* not even when both are in shared_audio_create at the same time.
OneWriterPerRing ==
  \A d, e \in Daemons : d # e /\ dseg[d] # None => dseg[d] # dseg[e]

\* A ring the driver accepted has its size and the fields reads rely on, however
\* the open fell between the steps of the create.
AttachedComplete ==
  rpc = "attached" => rseg \in sized /\ {"channels", "capacity_frames"} \subseteq stored[rseg]

\* Daemons that end by a signal they handle, or by a failed create, leave nothing
\* behind: the name is free when the last one is gone.
NoRingLeftBehind ==
  killed = {} /\ (\A d \in Daemons : dpc[d] \in {"off", "gone"}) => name = None

\* The device attached to a running daemon's ring, or no daemon running.
Attached ==
  (\E d \in Daemons : dpc[d] = "run") => rpc = "attached" /\ dpc[rseg] = "run"

\* Two daemons are alive.
Overlapping ==
  \E d, e \in Daemons : d # e /\ {dpc[d], dpc[e]} \cap {"off", "gone"} = {}

\* "If reacjackd is restarted, stop and restart recording so the device reattaches
\* to the new ring" (README.md): whatever became of the daemons before, killed
\* ones included, as long as each was gone before the next was started.
RestartRecovers == []~Overlapping => []<>Attached

\* Every daemon ends by a signal it handles, after a create that succeeded, and the
\* next is started when the one before has left its capture loop, though perhaps
\* not its exit path.
OrderlyRestarts ==
  /\ killed = {}
  /\ \A d \in Daemons : dpc[d] = "gone" => stored[d] = Fields
  /\ \A d, e \in Daemons :
       d # e => ~({dpc[d], dpc[e]} \subseteq {"unlink", "open", "size", "header", "run"})

\* The same promise of README.md for such restarts, which do not wait for the old
\* daemon's exit path.  The code does not keep it: that path removes the name,
\* whichever ring has it by then.
RestartAlwaysRecovers == []OrderlyRestarts => []<>Attached

-----------------------------------------------------------------------------
(* The inductive invariant. *)

\* A daemon maps no segment but its own.
OwnSegment ==
  \A d \in Daemons : /\ dseg[d] \in {d, None}
                     /\ dpc[d] \in {"size", "header", "run", "close"} => dseg[d] = d

\* The name stands for the segment of a daemon that will still unlink it, or that
\* was killed before it could.
NameIsOwned ==
  name # None =>
    name \in killed \/ dpc[name] \in {"size", "header", "run", "close", "remove"}

\* What the driver has found out about the segment it is opening stays true.
OpenStages ==
  /\ rpc \in {"fstat", "check", "attached"} => rseg # None
  /\ rpc = "check" => rseg \in sized

\* All of it.
LifecycleInvariant ==
  TypeOK /\ OwnSegment /\ NameIsOwned /\ OpenStages /\ AttachedComplete
=============================================================================
