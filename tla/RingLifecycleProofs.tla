------------------------- MODULE RingLifecycleProofs -------------------------
(***************************************************************************)
(* Proofs about RingLifecycle for any number of daemon processes, started  *)
(* one after the other or side by side.                                    *)
(***************************************************************************)
EXTENDS RingLifecycle, TLAPS

LEMMA InitInvariant == Init => LifecycleInvariant
BY RingLifecycleAssumption
   DEF Init, LifecycleInvariant, TypeOK, OwnSegment, NameIsOwned, OpenStages,
       AttachedComplete

\* A step of a daemon outside the header stores.
LEMMA DaemonInvariant ==
  ASSUME LifecycleInvariant, NEW d \in Daemons,
         \/ Start(d) \/ CreateUnlink(d) \/ CreateOpen(d) \/ CreateSize(d)
         \/ CreateSizeFails(d) \/ CreateReturn(d) \/ Stop(d) \/ CloseRing(d)
         \/ RemoveRing(d) \/ Kill(d)
  PROVE  LifecycleInvariant'
<1> USE RingLifecycleAssumption
<1> USE DEF LifecycleInvariant, Goto
<1>1. CASE Start(d)
  BY <1>1 DEF Start, TypeOK, OwnSegment, NameIsOwned, OpenStages, AttachedComplete
<1>2. CASE CreateUnlink(d)
  BY <1>2 DEF CreateUnlink, TypeOK, OwnSegment, NameIsOwned, OpenStages, AttachedComplete
<1>3. CASE CreateOpen(d)
  BY <1>3 DEF CreateOpen, TypeOK, OwnSegment, NameIsOwned, OpenStages, AttachedComplete
<1>4. CASE CreateSize(d)
  BY <1>4 DEF CreateSize, TypeOK, OwnSegment, NameIsOwned, OpenStages, AttachedComplete
<1>5. CASE CreateSizeFails(d)
  BY <1>5 DEF CreateSizeFails, TypeOK, OwnSegment, NameIsOwned, OpenStages, AttachedComplete
<1>6. CASE CreateReturn(d)
  BY <1>6 DEF CreateReturn, TypeOK, OwnSegment, NameIsOwned, OpenStages, AttachedComplete
<1>7. CASE Stop(d)
  BY <1>7 DEF Stop, TypeOK, OwnSegment, NameIsOwned, OpenStages, AttachedComplete
<1>8. CASE CloseRing(d)
  BY <1>8 DEF CloseRing, TypeOK, OwnSegment, NameIsOwned, OpenStages, AttachedComplete
<1>9. CASE RemoveRing(d)
  BY <1>9 DEF RemoveRing, TypeOK, OwnSegment, NameIsOwned, OpenStages, AttachedComplete
<1>10. CASE Kill(d)
  BY <1>10 DEF Kill, TypeOK, OwnSegment, NameIsOwned, OpenStages, AttachedComplete
<1> QED BY <1>1, <1>2, <1>3, <1>4, <1>5, <1>6, <1>7, <1>8, <1>9, <1>10

\* The header of a segment only gains fields.
LEMMA StoreFieldInvariant ==
  ASSUME LifecycleInvariant, NEW d \in Daemons, NEW f \in Fields, StoreField(d, f)
  PROVE  LifecycleInvariant'
<1> USE RingLifecycleAssumption
<1> USE DEF LifecycleInvariant, StoreField
<1>0. dseg[d] = d
  BY DEF OwnSegment
<1>1. stored' \in [Daemons -> SUBSET Fields] /\ \A s \in Daemons : stored[s] \subseteq stored'[s]
  BY <1>0 DEF TypeOK
<1>2. TypeOK'
  BY <1>1 DEF TypeOK
<1>3. OwnSegment' /\ NameIsOwned' /\ OpenStages'
  BY DEF OwnSegment, NameIsOwned, OpenStages
<1>4. AttachedComplete'
  BY <1>1 DEF AttachedComplete, TypeOK, OpenStages
<1> QED BY <1>2, <1>3, <1>4

LEMMA DriverInvariant ==
  ASSUME LifecycleInvariant, DriverStep
  PROVE  LifecycleInvariant'
BY RingLifecycleAssumption
   DEF LifecycleInvariant, DriverStep, OpenRing, OpenFstat, OpenCheck, StopIO, Checked,
       TypeOK, OwnSegment, NameIsOwned, OpenStages, AttachedComplete

LEMMA NextInvariant == LifecycleInvariant /\ [Next]_vars => LifecycleInvariant'
<1> SUFFICES ASSUME LifecycleInvariant, [Next]_vars PROVE LifecycleInvariant'
  OBVIOUS
<1>1. CASE UNCHANGED vars
  BY <1>1 DEF vars, LifecycleInvariant, TypeOK, OwnSegment, NameIsOwned, OpenStages,
              AttachedComplete
<1>2. CASE Next
  BY <1>2, DaemonInvariant, StoreFieldInvariant, DriverInvariant DEF Next, DaemonStep
<1> QED BY <1>1, <1>2

\* The inductive invariant holds however many daemons are started, killed and
\* restarted, overlapping or not.
THEOREM LifecycleSafety == Spec => []LifecycleInvariant
BY InitInvariant, NextInvariant, PTL DEF Spec

\* No two daemons ever have the same segment mapped.
THEOREM SingleWriter == Spec => []OneWriterPerRing
<1>1. LifecycleInvariant => OneWriterPerRing
  BY RingLifecycleAssumption DEF LifecycleInvariant, OwnSegment, OneWriterPerRing
<1> QED BY <1>1, LifecycleSafety, PTL

\* A ring the driver has accepted is complete.
THEOREM AcceptedRingComplete == Spec => []AttachedComplete
<1>1. LifecycleInvariant => AttachedComplete
  BY DEF LifecycleInvariant
<1> QED BY <1>1, LifecycleSafety, PTL

\* Without a kill, the name is free once every daemon is gone.
THEOREM ExitCleansUp == Spec => []NoRingLeftBehind
<1>1. LifecycleInvariant => NoRingLeftBehind
  BY DEF LifecycleInvariant, TypeOK, NameIsOwned, NoRingLeftBehind
<1> QED BY <1>1, LifecycleSafety, PTL
=============================================================================
