----------------------------- MODULE SharedClock -----------------------------
(***************************************************************************)
(* The clock observations in the header of the shared ring: the writer     *)
(* publishes "sample_pos was written at host_time", any number of readers  *)
(* (the CoreAudio driver, reacjackctl) fetch the latest pair.  The pair is *)
(* two words guarded by a sequence number that is odd during an update.    *)
(*                                                                         *)
(* Each atomic load and store is one step.  All stores are releases and    *)
(* all loads acquires, so neither side's accesses are reordered and        *)
(* interleaving them covers what the hardware may do.                      *)
(*                                                                         *)
(* The k-th observation is the pair of numbers k and k, so a reader that   *)
(* returns two different numbers has mixed two observations.               *)
(***************************************************************************)
EXTENDS Integers

CONSTANTS
  Readers,       \* processes that call shared_audio_get_clock
  Attempts,      \* 16: how often a call tries
  MaxPublished   \* bound: publications the writer starts

ASSUME SharedClockAssumption ==
  /\ Attempts \in Nat \ {0}
  /\ MaxPublished \in Nat

VARIABLES
  clock_seq, clock_host_time, clock_sample_pos,   \* in the shared header
  wpc,        \* next store of the writer: "begin", "time", "pos", "end"
  alive,      \* whether the writer still runs
  published,  \* publications completed
  rpc,        \* reader: "idle", "seq", "time", "pos", "recheck", "ok", "fail"
  attempt,    \* reader: tries made in this call
  seq, observed_time, observed_pos,               \* reader: its locals
  callStart,  \* reader: publications completed when the call began
  quiet,      \* reader: the writer has stored nothing since the call began
  last        \* reader: the observation its caller obtained last, 0 if none

header == <<clock_seq, clock_host_time, clock_sample_pos>>
writer == <<wpc, alive, published>>
locals == <<attempt, seq, observed_time, observed_pos>>
vars == <<clock_seq, clock_host_time, clock_sample_pos, wpc, alive, published,
          rpc, attempt, seq, observed_time, observed_pos, callStart, quiet, last>>

Init ==
  /\ clock_seq = 0 /\ clock_host_time = 0 /\ clock_sample_pos = 0
  /\ wpc = "begin" /\ alive = TRUE /\ published = 0
  /\ rpc = [r \in Readers |-> "idle"]
  /\ attempt = [r \in Readers |-> 0]
  /\ seq = [r \in Readers |-> 0]
  /\ observed_time = [r \in Readers |-> 0]
  /\ observed_pos = [r \in Readers |-> 0]
  /\ callStart = [r \in Readers |-> 0]
  /\ quiet = [r \in Readers |-> TRUE]
  /\ last = [r \in Readers |-> 0]

-----------------------------------------------------------------------------
(* shared_audio_publish_clock *)

Stored == quiet' = [r \in Readers |-> FALSE]

PublishBegin ==
  /\ alive /\ wpc = "begin"
  /\ published < MaxPublished
  /\ clock_seq' = clock_seq + 1     \* odd: updating
  /\ wpc' = "time"
  /\ Stored
  /\ UNCHANGED <<clock_host_time, clock_sample_pos, alive, published, rpc, locals,
                 callStart, last>>

PublishTime ==
  /\ alive /\ wpc = "time"
  /\ clock_host_time' = published + 1
  /\ wpc' = "pos"
  /\ Stored
  /\ UNCHANGED <<clock_seq, clock_sample_pos, alive, published, rpc, locals,
                 callStart, last>>

PublishPos ==
  /\ alive /\ wpc = "pos"
  /\ clock_sample_pos' = published + 1
  /\ wpc' = "end"
  /\ Stored
  /\ UNCHANGED <<clock_seq, clock_host_time, alive, published, rpc, locals,
                 callStart, last>>

PublishEnd ==
  /\ alive /\ wpc = "end"
  /\ clock_seq' = clock_seq + 1     \* seq + 2 of the load: even, stable
  /\ wpc' = "begin"
  /\ published' = published + 1
  /\ Stored
  /\ UNCHANGED <<clock_host_time, clock_sample_pos, alive, rpc, locals,
                 callStart, last>>

\* The daemon dies between any two stores; the header stays as it is.
WriterCrash ==
  /\ alive
  /\ alive' = FALSE
  /\ UNCHANGED <<header, wpc, published, rpc, locals, callStart, quiet, last>>

-----------------------------------------------------------------------------
(* shared_audio_get_clock *)

GetCall(r) ==
  /\ rpc[r] = "idle"
  /\ rpc' = [rpc EXCEPT ![r] = "seq"]
  /\ attempt' = [attempt EXCEPT ![r] = 0]
  /\ seq' = [seq EXCEPT ![r] = 0]
  /\ observed_time' = [observed_time EXCEPT ![r] = 0]
  /\ observed_pos' = [observed_pos EXCEPT ![r] = 0]
  /\ callStart' = [callStart EXCEPT ![r] = published]
  /\ quiet' = [quiet EXCEPT ![r] = TRUE]
  /\ UNCHANGED <<header, writer, last>>

\* Mutant: a continue that does not count as an attempt.
TryAgainForever(r) == rpc' = [rpc EXCEPT ![r] = "seq"] /\ UNCHANGED attempt

\* The next round of the loop, or its end.
TryAgain(r) ==
  /\ attempt' = [attempt EXCEPT ![r] = @ + 1]
  /\ rpc' = [rpc EXCEPT ![r] = IF attempt[r] + 1 < Attempts THEN "seq" ELSE "fail"]

\* Mutant: the parity test is the wrong way round.
LoadSeqInverted(r) ==
  /\ rpc[r] = "seq"
  /\ seq' = [seq EXCEPT ![r] = clock_seq]
  /\ \/ /\ clock_seq = 0
        /\ rpc' = [rpc EXCEPT ![r] = "fail"]
        /\ UNCHANGED attempt
     \/ /\ clock_seq # 0 /\ clock_seq % 2 = 0
        /\ TryAgain(r)
     \/ /\ clock_seq % 2 = 1
        /\ rpc' = [rpc EXCEPT ![r] = "time"]
        /\ UNCHANGED attempt
  /\ UNCHANGED <<header, writer, observed_time, observed_pos, callStart, quiet, last>>

LoadSeq(r) ==
  /\ rpc[r] = "seq"
  /\ seq' = [seq EXCEPT ![r] = clock_seq]
  /\ \/ /\ clock_seq = 0            \* never published
        /\ rpc' = [rpc EXCEPT ![r] = "fail"]
        /\ UNCHANGED attempt
     \/ /\ clock_seq % 2 = 1        \* mid-update
        /\ TryAgain(r)
     \/ /\ clock_seq # 0 /\ clock_seq % 2 = 0
        /\ rpc' = [rpc EXCEPT ![r] = "time"]
        /\ UNCHANGED attempt
  /\ UNCHANGED <<header, writer, observed_time, observed_pos, callStart, quiet, last>>

LoadTime(r) ==
  /\ rpc[r] = "time"
  /\ observed_time' = [observed_time EXCEPT ![r] = clock_host_time]
  /\ rpc' = [rpc EXCEPT ![r] = "pos"]
  /\ UNCHANGED <<header, writer, attempt, seq, observed_pos, callStart, quiet, last>>

LoadPos(r) ==
  /\ rpc[r] = "pos"
  /\ observed_pos' = [observed_pos EXCEPT ![r] = clock_sample_pos]
  /\ rpc' = [rpc EXCEPT ![r] = "recheck"]
  /\ UNCHANGED <<header, writer, attempt, seq, observed_time, callStart, quiet, last>>

\* Mutant: an update that began since is let pass.
RecheckLenient(r) ==
  /\ rpc[r] = "recheck"
  /\ IF clock_seq <= seq[r] + 1
     THEN rpc' = [rpc EXCEPT ![r] = "ok"] /\ UNCHANGED attempt
     ELSE TryAgain(r)
  /\ UNCHANGED <<header, writer, seq, observed_time, observed_pos, callStart, quiet,
                 last>>

Recheck(r) ==
  /\ rpc[r] = "recheck"
  /\ IF clock_seq = seq[r]
     THEN rpc' = [rpc EXCEPT ![r] = "ok"] /\ UNCHANGED attempt
     ELSE TryAgain(r)
  /\ UNCHANGED <<header, writer, seq, observed_time, observed_pos, callStart, quiet,
                 last>>

\* Mutant: the caller uses its variables without looking at the result.
GetReturnUnchecked(r) ==
  /\ rpc[r] \in {"ok", "fail"}
  /\ last' = [last EXCEPT ![r] = observed_pos[r]]
  /\ rpc' = [rpc EXCEPT ![r] = "idle"]
  /\ UNCHANGED <<header, writer, locals, callStart, quiet>>

\* The caller takes the pair, or learns that there is none.
GetReturn(r) ==
  /\ rpc[r] \in {"ok", "fail"}
  /\ last' = [last EXCEPT ![r] = IF rpc[r] = "ok" THEN observed_pos[r] ELSE @]
  /\ rpc' = [rpc EXCEPT ![r] = "idle"]
  /\ UNCHANGED <<header, writer, locals, callStart, quiet>>

-----------------------------------------------------------------------------
Publish == PublishBegin \/ PublishTime \/ PublishPos \/ PublishEnd

ReaderStep(r) ==
  LoadSeq(r) \/ LoadTime(r) \/ LoadPos(r) \/ Recheck(r) \/ GetReturn(r)

Next ==
  \/ Publish
  \/ WriterCrash
  \/ \E r \in Readers : GetCall(r) \/ ReaderStep(r)

Spec == Init /\ [][Next]_vars

\* A reader that called runs; nothing is asked of the writer, which may die or
\* be descheduled between two stores.
CallFairSpec == Spec /\ \A r \in Readers : WF_vars(ReaderStep(r))

-----------------------------------------------------------------------------
(* Properties. *)

\* Every variable stays in its domain.
TypeOK ==
  /\ clock_seq \in Nat /\ clock_host_time \in Nat /\ clock_sample_pos \in Nat
  /\ wpc \in {"begin", "time", "pos", "end"}
  /\ alive \in BOOLEAN
  /\ published \in Nat
  /\ rpc \in [Readers -> {"idle", "seq", "time", "pos", "recheck", "ok", "fail"}]
  /\ attempt \in [Readers -> 0 .. Attempts]
  /\ seq \in [Readers -> Nat]
  /\ observed_time \in [Readers -> Nat] /\ observed_pos \in [Readers -> Nat]
  /\ callStart \in [Readers -> Nat]
  /\ quiet \in [Readers -> BOOLEAN]
  /\ last \in [Readers -> Nat]

\* A successful shared_audio_get_clock returns the two words of one publication,
\* never the time of one and the position of another, however its loads fall
\* between the stores of any number of publications.
NoTornPair == \A r \in Readers : rpc[r] = "ok" => observed_time[r] = observed_pos[r]

\* "Fetch the latest observation" (shared_audio.h): what a call returns is no
\* older than the last publication completed before the call, and is one that
\* was completed.
Fresh ==
  \A r \in Readers : rpc[r] = "ok" =>
    /\ observed_pos[r] >= callStart[r]
    /\ observed_pos[r] >= 1
    /\ observed_pos[r] <= published

\* A failure tells the truth: the clock was never published, or a publication
\* was under way, or happened, during the call.
FailureHonest ==
  \A r \in Readers : rpc[r] = "fail" /\ quiet[r] /\ wpc = "begin" => callStart[r] = 0

\* One reader never sees the clock go back, so the driver's test
\* observed_pos < gDevice_ClockRefSamplePos means another ring, not a race.
ObservationsMonotone == [][\A r \in Readers : last'[r] >= last[r]]_vars

\* "Never blocks" (shared_audio.h): every call returns, even when the writer died
\* with the sequence number odd.
GetReturns == \A r \in Readers : rpc[r] # "idle" ~> rpc[r] = "idle"

-----------------------------------------------------------------------------
(* The inductive invariant. *)

\* The words of the header at each stage of a publication.
HeaderStages ==
  /\ wpc = "begin" => /\ clock_seq = 2 * published
                      /\ clock_host_time = published
                      /\ clock_sample_pos = published
  /\ wpc # "begin" => clock_seq = 2 * published + 1
  /\ wpc = "time" => clock_host_time = published /\ clock_sample_pos = published
  /\ wpc = "pos" => clock_host_time = published + 1 /\ clock_sample_pos = published
  /\ wpc = "end" => clock_host_time = published + 1 /\ clock_sample_pos = published + 1

\* The observation a reader would return if its second look succeeds now.
ReaderStages ==
  \A r \in Readers :
    /\ rpc[r] # "idle" => callStart[r] <= published
    /\ last[r] <= published
    /\ rpc[r] # "idle" => last[r] <= callStart[r]
    /\ rpc[r] \in {"time", "pos", "recheck"} =>
         /\ seq[r] <= clock_seq
         /\ seq[r] # 0 /\ seq[r] % 2 = 0
         /\ 2 * callStart[r] <= seq[r]
    /\ rpc[r] \in {"pos", "recheck"} /\ clock_seq = seq[r] =>
         2 * observed_time[r] = seq[r]
    /\ rpc[r] = "recheck" /\ clock_seq = seq[r] => 2 * observed_pos[r] = seq[r]
    /\ rpc[r] \in {"seq", "time", "pos", "recheck"} => attempt[r] < Attempts

\* A call the writer has left alone since it began, between publications.
QuietStages ==
  \A r \in Readers : rpc[r] # "idle" /\ quiet[r] /\ wpc = "begin" =>
    /\ callStart[r] = published
    /\ rpc[r] \in {"time", "pos", "recheck"} => seq[r] = clock_seq
    /\ rpc[r] = "fail" => published = 0

\* All of it: types, the stages of a publication, the stages of a call.
ClockInvariant ==
  /\ TypeOK
  /\ HeaderStages
  /\ ReaderStages
  /\ QuietStages
  /\ NoTornPair
  /\ Fresh
=============================================================================
