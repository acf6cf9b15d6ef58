-------------------------- MODULE SharedClockProofs --------------------------
(***************************************************************************)
(* Proofs about SharedClock for any set of readers, any number of attempts *)
(* and any number of publications.                                         *)
(***************************************************************************)
EXTENDS SharedClock, TLAPS

LEMMA InitInvariant == Init => ClockInvariant
BY SharedClockAssumption
   DEF Init, ClockInvariant, TypeOK, HeaderStages, ReaderStages, QuietStages, NoTornPair,
       Fresh

\* A step that changes nothing keeps everything said about the clock.
LEMMA StutterInvariant == ClockInvariant /\ UNCHANGED vars => ClockInvariant'
BY DEF vars, ClockInvariant, TypeOK, HeaderStages, ReaderStages, QuietStages, NoTornPair,
       Fresh

LEMMA PublishBeginInvariant == ClockInvariant /\ PublishBegin => ClockInvariant'
<1> SUFFICES ASSUME ClockInvariant, PublishBegin PROVE ClockInvariant'
  OBVIOUS
<1> USE DEF ClockInvariant, PublishBegin, Stored, header, writer, locals
<1>1. TypeOK'
  BY DEF TypeOK
<1>2. HeaderStages'
  BY DEF TypeOK, HeaderStages
<1>3. ReaderStages'
  BY DEF TypeOK, HeaderStages, ReaderStages
<1>4. QuietStages' /\ NoTornPair' /\ Fresh'
  BY DEF TypeOK, QuietStages, NoTornPair, Fresh
<1> QED BY <1>1, <1>2, <1>3, <1>4

LEMMA PublishTimeInvariant == ClockInvariant /\ PublishTime => ClockInvariant'
<1> SUFFICES ASSUME ClockInvariant, PublishTime PROVE ClockInvariant'
  OBVIOUS
<1> USE DEF ClockInvariant, PublishTime, Stored, header, writer, locals
<1>1. TypeOK'
  BY DEF TypeOK
<1>2. HeaderStages'
  BY DEF TypeOK, HeaderStages
<1>3. ReaderStages'
  BY DEF TypeOK, HeaderStages, ReaderStages
<1>4. QuietStages' /\ NoTornPair' /\ Fresh'
  BY DEF TypeOK, QuietStages, NoTornPair, Fresh
<1> QED BY <1>1, <1>2, <1>3, <1>4

LEMMA PublishPosInvariant == ClockInvariant /\ PublishPos => ClockInvariant'
<1> SUFFICES ASSUME ClockInvariant, PublishPos PROVE ClockInvariant'
  OBVIOUS
<1> USE DEF ClockInvariant, PublishPos, Stored, header, writer, locals
<1>1. TypeOK'
  BY DEF TypeOK
<1>2. HeaderStages'
  BY DEF TypeOK, HeaderStages
<1>3. ReaderStages'
  BY DEF TypeOK, HeaderStages, ReaderStages
<1>4. QuietStages' /\ NoTornPair' /\ Fresh'
  BY DEF TypeOK, QuietStages, NoTornPair, Fresh
<1> QED BY <1>1, <1>2, <1>3, <1>4

LEMMA PublishEndInvariant == ClockInvariant /\ PublishEnd => ClockInvariant'
<1> SUFFICES ASSUME ClockInvariant, PublishEnd PROVE ClockInvariant'
  OBVIOUS
<1> USE DEF ClockInvariant, PublishEnd, Stored, header, writer, locals
<1>1. TypeOK'
  BY DEF TypeOK
<1>2. HeaderStages'
  BY DEF TypeOK, HeaderStages
<1>3. ReaderStages'
  BY DEF TypeOK, HeaderStages, ReaderStages
<1>4. QuietStages' /\ NoTornPair' /\ Fresh'
  BY DEF TypeOK, QuietStages, NoTornPair, Fresh
<1> QED BY <1>1, <1>2, <1>3, <1>4

LEMMA WriterCrashInvariant == ClockInvariant /\ WriterCrash => ClockInvariant'
BY DEF WriterCrash, header, locals, ClockInvariant, TypeOK, HeaderStages, ReaderStages,
       QuietStages, NoTornPair, Fresh

LEMMA GetCallInvariant ==
  ASSUME ClockInvariant, NEW r \in Readers, GetCall(r)
  PROVE  ClockInvariant'
<1> USE DEF ClockInvariant, GetCall, header, writer, locals
<1>1. TypeOK'
  BY SharedClockAssumption DEF TypeOK, ReaderStages
<1>2. HeaderStages'
  BY DEF HeaderStages
<1>3. ReaderStages'
  BY SharedClockAssumption DEF TypeOK, HeaderStages, ReaderStages, Fresh
<1>4. QuietStages'
  BY DEF TypeOK, HeaderStages, QuietStages
<1>5. NoTornPair' /\ Fresh'
  BY DEF TypeOK, HeaderStages, ReaderStages, NoTornPair, Fresh
<1> QED BY <1>1, <1>2, <1>3, <1>4, <1>5

LEMMA LoadSeqInvariant ==
  ASSUME ClockInvariant, NEW r \in Readers, LoadSeq(r)
  PROVE  ClockInvariant'
<1> USE DEF ClockInvariant, LoadSeq, TryAgain, header, writer, locals
<1>1. TypeOK'
  BY SharedClockAssumption DEF TypeOK, ReaderStages
<1>2. HeaderStages'
  BY DEF HeaderStages
<1>3. ReaderStages'
  BY SharedClockAssumption DEF TypeOK, HeaderStages, ReaderStages, Fresh
<1>4. QuietStages'
  BY DEF TypeOK, HeaderStages, QuietStages
<1>5. NoTornPair' /\ Fresh'
  BY DEF TypeOK, HeaderStages, ReaderStages, NoTornPair, Fresh
<1> QED BY <1>1, <1>2, <1>3, <1>4, <1>5

LEMMA LoadTimeInvariant ==
  ASSUME ClockInvariant, NEW r \in Readers, LoadTime(r)
  PROVE  ClockInvariant'
<1> USE DEF ClockInvariant, LoadTime, header, writer, locals
<1>1. TypeOK'
  BY SharedClockAssumption DEF TypeOK, ReaderStages
<1>2. HeaderStages'
  BY DEF HeaderStages
<1>3. ReaderStages'
  BY SharedClockAssumption DEF TypeOK, HeaderStages, ReaderStages, Fresh
<1>4. QuietStages'
  BY DEF TypeOK, HeaderStages, QuietStages
<1>5. NoTornPair' /\ Fresh'
  BY DEF TypeOK, HeaderStages, ReaderStages, NoTornPair, Fresh
<1> QED BY <1>1, <1>2, <1>3, <1>4, <1>5

LEMMA LoadPosInvariant ==
  ASSUME ClockInvariant, NEW r \in Readers, LoadPos(r)
  PROVE  ClockInvariant'
<1> USE DEF ClockInvariant, LoadPos, header, writer, locals
<1>1. TypeOK'
  BY SharedClockAssumption DEF TypeOK, ReaderStages
<1>2. HeaderStages'
  BY DEF HeaderStages
<1>3. ReaderStages'
  BY SharedClockAssumption DEF TypeOK, HeaderStages, ReaderStages, Fresh
<1>4. QuietStages'
  BY DEF TypeOK, HeaderStages, QuietStages
<1>5. NoTornPair' /\ Fresh'
  BY DEF TypeOK, HeaderStages, ReaderStages, NoTornPair, Fresh
<1> QED BY <1>1, <1>2, <1>3, <1>4, <1>5

LEMMA RecheckInvariant ==
  ASSUME ClockInvariant, NEW r \in Readers, Recheck(r)
  PROVE  ClockInvariant'
<1> USE DEF ClockInvariant, Recheck, TryAgain, header, writer, locals
<1>1. TypeOK'
  BY SharedClockAssumption DEF TypeOK, ReaderStages
<1>2. HeaderStages'
  BY DEF HeaderStages
<1>3. ReaderStages'
  BY SharedClockAssumption DEF TypeOK, HeaderStages, ReaderStages, Fresh
<1>4. QuietStages'
  BY DEF TypeOK, HeaderStages, QuietStages
<1>5. NoTornPair' /\ Fresh'
  BY DEF TypeOK, HeaderStages, ReaderStages, NoTornPair, Fresh
<1> QED BY <1>1, <1>2, <1>3, <1>4, <1>5

LEMMA GetReturnInvariant ==
  ASSUME ClockInvariant, NEW r \in Readers, GetReturn(r)
  PROVE  ClockInvariant'
<1> USE DEF ClockInvariant, GetReturn, header, writer, locals
<1>1. TypeOK'
  BY SharedClockAssumption DEF TypeOK, ReaderStages
<1>2. HeaderStages'
  BY DEF HeaderStages
<1>3. ReaderStages'
  BY SharedClockAssumption DEF TypeOK, HeaderStages, ReaderStages, Fresh
<1>4. QuietStages'
  BY DEF TypeOK, HeaderStages, QuietStages
<1>5. NoTornPair' /\ Fresh'
  BY DEF TypeOK, HeaderStages, ReaderStages, NoTornPair, Fresh
<1> QED BY <1>1, <1>2, <1>3, <1>4, <1>5

LEMMA NextInvariant == ClockInvariant /\ [Next]_vars => ClockInvariant'
BY PublishBeginInvariant, PublishTimeInvariant, PublishPosInvariant, PublishEndInvariant,
   WriterCrashInvariant, GetCallInvariant, LoadSeqInvariant, LoadTimeInvariant,
   LoadPosInvariant, RecheckInvariant, GetReturnInvariant, StutterInvariant
   DEF Next, Publish, ReaderStep

\* Every reachable state of the clock satisfies the inductive invariant.
THEOREM ClockSafety == Spec => []ClockInvariant
BY InitInvariant, NextInvariant, PTL DEF Spec

\* A call never returns the time of one publication with the position of another.
THEOREM PairsAreWhole == Spec => []NoTornPair
<1>1. ClockInvariant => NoTornPair
  BY DEF ClockInvariant
<1> QED BY <1>1, ClockSafety, PTL

\* A call returns a completed publication, no older than the last one completed
\* before the call.
THEOREM PairsAreFresh == Spec => []Fresh
<1>1. ClockInvariant => Fresh
  BY DEF ClockInvariant
<1> QED BY <1>1, ClockSafety, PTL

\* A call that no publication overlaps fails only if there never was one.
THEOREM FailuresAreHonest == Spec => []FailureHonest
<1>1. ClockInvariant => FailureHonest
  BY DEF ClockInvariant, QuietStages, FailureHonest
<1> QED BY <1>1, ClockSafety, PTL

\* The observations one reader obtains never go back.
THEOREM NeverBackwards == Spec => ObservationsMonotone
<1>1. ClockInvariant /\ [Next]_vars => [\A r \in Readers : last'[r] >= last[r]]_vars
  <2> SUFFICES ASSUME ClockInvariant, Next, NEW r \in Readers PROVE last'[r] >= last[r]
    BY DEF vars
  <2>1. last \in [Readers -> Nat]
    BY DEF ClockInvariant, TypeOK
  <2>2. CASE \E q \in Readers : GetReturn(q)
    <3>1. PICK q \in Readers : GetReturn(q)
      BY <2>2
    <3>2. rpc[q] = "ok" => observed_pos[q] >= last[q]
      BY <2>1 DEF ClockInvariant, TypeOK, ReaderStages, Fresh
    <3> QED BY <2>1, <3>1, <3>2 DEF GetReturn
  <2>3. CASE ~ \E q \in Readers : GetReturn(q)
    <3>1. last' = last
      BY <2>3 DEF Next, Publish, PublishBegin, PublishTime, PublishPos, PublishEnd,
         WriterCrash, ReaderStep, GetCall, LoadSeq, LoadTime, LoadPos, Recheck
    <3> QED BY <2>1, <3>1
  <2> QED BY <2>2, <2>3
<1> QED BY <1>1, ClockSafety, PTL DEF Spec, ObservationsMonotone
=============================================================================
