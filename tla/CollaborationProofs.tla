------------------------- MODULE CollaborationProofs -------------------------
(***************************************************************************)
(* Proofs about module Collaboration, for any number of runs.              *)
(***************************************************************************)
EXTENDS Collaboration, FiniteSetTheorems, TLAPS

\* The lemmas of the single actions expand these throughout.
USE LanesDistinct
    DEF Lanes, Observation, Result, Outcome, Ended, Identified, Kept, WellDone, Released,
        Over, WholeEpisode, DoneLanes,
        barrierVars, resultVars, laneVars, controllerVars

-----------------------------------------------------------------------------
(* Counting lanes *)

LEMMA LaneCount ==
    /\ IsFiniteSet(Lanes) /\ Cardinality(Lanes) = 2
    /\ \A S \in SUBSET Lanes : Cardinality(S) \in 0..2
    /\ \A S, T \in SUBSET Lanes : S \subseteq T => Cardinality(S) <= Cardinality(T)
  <1>1. IsFiniteSet({Initial}) /\ Cardinality({Initial}) = 1
    BY FS_Singleton
  <1>2. IsFiniteSet({Initial} \cup {Dependent})
        /\ Cardinality({Initial} \cup {Dependent}) = 2
    BY <1>1, FS_AddElement
  <1>3. IsFiniteSet(Lanes) /\ Cardinality(Lanes) = 2
    <2>1. Lanes = {Initial} \cup {Dependent}
      OBVIOUS
    <2> QED
      BY <1>2, <2>1
  <1>4. \A S \in SUBSET Lanes : IsFiniteSet(S) /\ Cardinality(S) <= 2 /\ Cardinality(S) \in Nat
    BY <1>3, FS_Subset, FS_CardinalityType
  <1>5. \A S, T \in SUBSET Lanes : S \subseteq T => Cardinality(S) <= Cardinality(T)
    BY <1>4, FS_Subset
  <1> QED
    BY <1>3, <1>4, <1>5

\* A lane that ended well stays so.
LEMMA MoreDone ==
    ASSUME verdict.lanes <= Cardinality(DoneLanes), verdict.lanes \in 0..2,
           verdict' = verdict, \A l \in Lanes : agent[l] = "done" => agent'[l] = "done"
    PROVE  verdict'.lanes <= Cardinality(DoneLanes')
  <1>1. DoneLanes \subseteq DoneLanes' /\ DoneLanes \in SUBSET Lanes /\ DoneLanes' \in SUBSET Lanes
    OBVIOUS
  <1>2. Cardinality(DoneLanes) <= Cardinality(DoneLanes')
    BY <1>1, LaneCount
  <1>3. Cardinality(DoneLanes) \in 0..2 /\ Cardinality(DoneLanes') \in 0..2
    BY <1>1, LaneCount
  <1> QED
    BY <1>2, <1>3

-----------------------------------------------------------------------------
(* The controller *)

LEMMA InitInv == CollaborationInit => CollaborationInv
  <1> SUFFICES ASSUME CollaborationInit PROVE CollaborationInv
    OBVIOUS
  <1> USE DEF CollaborationInit, NoVerdict
  <1>1. CollaborationTypeOK
    <2>1. verdict \in Verdict
      BY DEF Verdict
    <2>2. barrier \in RunId \cup {NoRun} /\ at \in Position
      BY DEF Position
    <2>3. status \in [Lanes -> Status] /\ agent \in [Lanes -> AgentState]
          /\ opened \in [Lanes -> SUBSET RunId]
      BY DEF Status, AgentState
    <2> QED
      BY <2>1, <2>2, <2>3 DEF CollaborationTypeOK
  <1>2. LanesInv /\ BarrierInv /\ StartInv /\ WaitInv /\ EndInv
    BY DEF LanesInv, BarrierInv, StartInv, WaitInv, EndInv
  <1>3. VerdictInv
    <2>1. Cardinality(DoneLanes) \in 0..2
      BY LaneCount
    <2> QED
      BY <2>1 DEF VerdictInv
  <1> QED
    BY <1>1, <1>2, <1>3 DEF CollaborationInv

LEMMA StartEpisodeStep ==
    ASSUME CollaborationInv, StartEpisode
    PROVE  CollaborationInv'
  <1> USE DEF CollaborationInv, StartEpisode
  <1>1. CollaborationTypeOK'
    BY DEF CollaborationTypeOK, Position, AgentState, Status, Artifact
  <1>2. LanesInv'
    BY DEF CollaborationTypeOK, LanesInv, StartInv, WaitInv, EndInv
  <1>3. BarrierInv'
    BY DEF CollaborationTypeOK, LanesInv, BarrierInv, StartInv, WaitInv
  <1>4. StartInv'
    BY DEF CollaborationTypeOK, LanesInv, BarrierInv, StartInv, WaitInv, EndInv
  <1>5. WaitInv'
    BY DEF CollaborationTypeOK, LanesInv, BarrierInv, StartInv, WaitInv, EndInv
  <1>6. EndInv'
    BY DEF CollaborationTypeOK, LanesInv, BarrierInv, StartInv, WaitInv, EndInv
  <1>7. VerdictInv'
    BY DEF CollaborationTypeOK, LanesInv, BarrierInv, StartInv, WaitInv, EndInv,
           VerdictInv
  <1> QED
    BY <1>1, <1>2, <1>3, <1>4, <1>5, <1>6, <1>7

LEMMA ObserveBeforeStep ==
    ASSUME CollaborationInv, ObserveBefore
    PROVE  CollaborationInv'
  <1> USE DEF CollaborationInv, ObserveBefore, GiveUp, GoTo, Write, Before
  <1>1. CollaborationTypeOK'
    BY DEF CollaborationTypeOK, Position, AgentState, Status, Artifact
  <1>2. LanesInv'
    BY DEF CollaborationTypeOK, LanesInv, StartInv, WaitInv, EndInv
  <1>3. BarrierInv'
    BY DEF CollaborationTypeOK, LanesInv, BarrierInv, StartInv, WaitInv
  <1>4. StartInv'
    BY DEF CollaborationTypeOK, LanesInv, BarrierInv, StartInv, WaitInv, EndInv
  <1>5. WaitInv'
    BY DEF CollaborationTypeOK, LanesInv, BarrierInv, StartInv, WaitInv, EndInv
  <1>6. EndInv'
    BY DEF CollaborationTypeOK, LanesInv, BarrierInv, StartInv, WaitInv, EndInv
  <1>7. VerdictInv'
    BY DEF CollaborationTypeOK, LanesInv, BarrierInv, StartInv, WaitInv, EndInv,
           VerdictInv
  <1> QED
    BY <1>1, <1>2, <1>3, <1>4, <1>5, <1>6, <1>7

LEMMA CloneLaneStep ==
    ASSUME CollaborationInv, CloneLane
    PROVE  CollaborationInv'
  <1> USE DEF CollaborationInv, CloneLane, GiveUp, GoTo, Before
  <1>1. CollaborationTypeOK'
    BY DEF CollaborationTypeOK, Position, AgentState, Status, Artifact
  <1>2. LanesInv'
    BY DEF CollaborationTypeOK, LanesInv, StartInv, WaitInv, EndInv
  <1>3. BarrierInv'
    BY DEF CollaborationTypeOK, LanesInv, BarrierInv, StartInv, WaitInv
  <1>4. StartInv'
    BY DEF CollaborationTypeOK, LanesInv, BarrierInv, StartInv, WaitInv, EndInv
  <1>5. WaitInv'
    BY DEF CollaborationTypeOK, LanesInv, BarrierInv, StartInv, WaitInv, EndInv
  <1>6. EndInv'
    BY DEF CollaborationTypeOK, LanesInv, BarrierInv, StartInv, WaitInv, EndInv
  <1>7. VerdictInv'
    <2>1. \A l \in Lanes : agent[l] = "done" => agent'[l] = "done"
      BY DEF CollaborationTypeOK, StartInv
    <2>2. verdict'.lanes <= Cardinality(DoneLanes')
      BY <2>1, MoreDone DEF CollaborationTypeOK, Verdict, VerdictInv
    <2> QED
      BY <2>1, <2>2 DEF CollaborationTypeOK, StartInv, EndInv, VerdictInv
  <1> QED
    BY <1>1, <1>2, <1>3, <1>4, <1>5, <1>6, <1>7

LEMMA LaunchLaneStep ==
    ASSUME CollaborationInv, LaunchLane
    PROVE  CollaborationInv'
  <1> USE DEF CollaborationInv, LaunchLane, GiveUp, Before
  <1>1. CollaborationTypeOK'
    BY DEF CollaborationTypeOK, Position, AgentState, Status, Artifact
  <1>2. LanesInv'
    BY DEF CollaborationTypeOK, LanesInv, StartInv, WaitInv, EndInv
  <1>3. BarrierInv'
    BY DEF CollaborationTypeOK, LanesInv, BarrierInv, StartInv, WaitInv
  <1>4. StartInv'
    BY DEF CollaborationTypeOK, LanesInv, BarrierInv, StartInv, WaitInv, EndInv
  <1>5. WaitInv'
    BY DEF CollaborationTypeOK, LanesInv, BarrierInv, StartInv, WaitInv, EndInv
  <1>6. EndInv'
    BY DEF CollaborationTypeOK, LanesInv, BarrierInv, StartInv, WaitInv, EndInv
  <1>7. VerdictInv'
    <2>1. \A l \in Lanes : agent[l] = "done" => agent'[l] = "done"
      BY DEF CollaborationTypeOK, StartInv
    <2>2. verdict'.lanes <= Cardinality(DoneLanes')
      BY <2>1, MoreDone DEF CollaborationTypeOK, Verdict, VerdictInv
    <2> QED
      BY <2>1, <2>2 DEF CollaborationTypeOK, StartInv, EndInv, VerdictInv
  <1> QED
    BY <1>1, <1>2, <1>3, <1>4, <1>5, <1>6, <1>7

LEMMA ListRunsStep ==
    ASSUME CollaborationInv, ListRuns
    PROVE  CollaborationInv'
  <1> USE DEF CollaborationInv, ListRuns, WaitFails, LastLook, GiveUp, GoTo
  <1>1. CollaborationTypeOK'
    BY DEF CollaborationTypeOK, Position, AgentState, Status, Artifact
  <1>2. LanesInv'
    BY DEF CollaborationTypeOK, LanesInv, StartInv, WaitInv, EndInv
  <1>3. BarrierInv'
    BY DEF CollaborationTypeOK, LanesInv, BarrierInv, StartInv, WaitInv
  <1>4. StartInv'
    BY DEF CollaborationTypeOK, LanesInv, BarrierInv, StartInv, WaitInv, EndInv
  <1>5. WaitInv'
    BY DEF CollaborationTypeOK, LanesInv, BarrierInv, StartInv, WaitInv, EndInv
  <1>6. EndInv'
    BY DEF CollaborationTypeOK, LanesInv, BarrierInv, StartInv, WaitInv, EndInv
  <1>7. VerdictInv'
    BY DEF CollaborationTypeOK, LanesInv, BarrierInv, StartInv, WaitInv, EndInv,
           VerdictInv
  <1> QED
    BY <1>1, <1>2, <1>3, <1>4, <1>5, <1>6, <1>7

LEMMA ExportProjectStep ==
    ASSUME CollaborationInv, ExportProject
    PROVE  CollaborationInv'
  <1> USE DEF CollaborationInv, ExportProject
  <1> DEFINE found ==
               /\ barrier' \in opened[Initial] \cap noted /\ barrier' \in RunId
               /\ evidence' = evidence \cup {"snapshot"}
               /\ at' = (IF LastLook THEN "persist" ELSE "barrier") /\ lane' = Initial
               /\ UNCHANGED resultVars
             none ==
               /\ UNCHANGED <<barrier, evidence>>
               /\ \/ GoTo(IF LastLook THEN "persist" ELSE "select", Initial)
                  \/ WaitFails
  <1>a. found \/ none
    BY DEF CollaborationTypeOK, LanesInv, Checkpointed, GoTo, Write
  <1>b. UNCHANGED <<seen, received, observed, cancelled, laneVars>>
    OBVIOUS
  <1>c. CASE found
    <2> USE <1>b, <1>c DEF LastLook
    <2>1. CollaborationTypeOK'
      BY DEF CollaborationTypeOK, Position, Artifact
    <2>2. barrier' # NoRun
      BY RunsBounded DEF RunId, NoRun
    <2>3. LanesInv'
      BY DEF LanesInv
    <2>4. BarrierInv'
      BY <2>2 DEF BarrierInv
    <2>5. StartInv' /\ WaitInv' /\ EndInv'
      BY <2>2 DEF StartInv, WaitInv, EndInv
    <2>6. VerdictInv'
      BY <2>2 DEF VerdictInv
    <2> QED
      BY <2>1, <2>3, <2>4, <2>5, <2>6
  <1>d. CASE none
    <2> USE <1>b, <1>d DEF LastLook, WaitFails, GiveUp, GoTo
    <2>1. CollaborationTypeOK'
      BY DEF CollaborationTypeOK, Position
    <2>2. LanesInv' /\ BarrierInv' /\ StartInv' /\ WaitInv'
      BY DEF LanesInv, BarrierInv, StartInv, WaitInv
    <2>3. EndInv'
      BY DEF CollaborationTypeOK, LanesInv, WaitInv, EndInv
    <2>4. VerdictInv'
      BY DEF VerdictInv
    <2> QED
      BY <2>1, <2>2, <2>3, <2>4
  <1> QED
    BY <1>a, <1>c, <1>d

LEMMA WaitStep ==
    ASSUME CollaborationInv, Wait
    PROVE  CollaborationInv'
  <1> USE DEF CollaborationInv, Wait, GiveUp, GoTo
  <1>1. CollaborationTypeOK'
    BY DEF CollaborationTypeOK, Position, AgentState, Status, Artifact
  <1>2. LanesInv'
    BY DEF CollaborationTypeOK, LanesInv, StartInv, WaitInv, EndInv
  <1>3. BarrierInv'
    BY DEF CollaborationTypeOK, LanesInv, BarrierInv, StartInv, WaitInv
  <1>4. StartInv'
    BY DEF CollaborationTypeOK, LanesInv, BarrierInv, StartInv, WaitInv, EndInv
  <1>5. WaitInv'
    BY DEF CollaborationTypeOK, LanesInv, BarrierInv, StartInv, WaitInv, EndInv
  <1>6. EndInv'
    BY DEF CollaborationTypeOK, LanesInv, BarrierInv, StartInv, WaitInv, EndInv
  <1>7. VerdictInv'
    BY DEF CollaborationTypeOK, LanesInv, BarrierInv, StartInv, WaitInv, EndInv,
           VerdictInv
  <1> QED
    BY <1>1, <1>2, <1>3, <1>4, <1>5, <1>6, <1>7

LEMMA PublishBarrierStep ==
    ASSUME CollaborationInv, PublishBarrier
    PROVE  CollaborationInv'
  <1> USE DEF CollaborationInv, PublishBarrier, GiveUp, GoTo, Write
  <1>1. CollaborationTypeOK'
    BY DEF CollaborationTypeOK, Position, AgentState, Status, Artifact
  <1>2. LanesInv'
    BY DEF CollaborationTypeOK, LanesInv, StartInv, WaitInv, EndInv
  <1>3. BarrierInv'
    BY DEF CollaborationTypeOK, LanesInv, BarrierInv, StartInv, WaitInv
  <1>4. StartInv'
    BY DEF CollaborationTypeOK, LanesInv, BarrierInv, StartInv, WaitInv, EndInv
  <1>5. WaitInv'
    BY DEF CollaborationTypeOK, LanesInv, BarrierInv, StartInv, WaitInv, EndInv
  <1>6. EndInv'
    BY DEF CollaborationTypeOK, LanesInv, BarrierInv, StartInv, WaitInv, EndInv
  <1>7. VerdictInv'
    BY DEF CollaborationTypeOK, LanesInv, BarrierInv, StartInv, WaitInv, EndInv,
           VerdictInv
  <1> QED
    BY <1>1, <1>2, <1>3, <1>4, <1>5, <1>6, <1>7

LEMMA ReceiveStep ==
    ASSUME CollaborationInv, Receive
    PROVE  CollaborationInv'
  <1> USE DEF CollaborationInv, Receive, GiveUp, GoTo
  <1>1. CollaborationTypeOK'
    BY DEF CollaborationTypeOK, Position, AgentState, Status, Artifact
  <1>2. LanesInv'
    BY DEF CollaborationTypeOK, LanesInv, StartInv, WaitInv, EndInv
  <1>3. BarrierInv'
    BY DEF CollaborationTypeOK, LanesInv, BarrierInv, StartInv, WaitInv
  <1>4. StartInv'
    BY DEF CollaborationTypeOK, LanesInv, BarrierInv, StartInv, WaitInv, EndInv
  <1>5. WaitInv'
    BY DEF CollaborationTypeOK, LanesInv, BarrierInv, StartInv, WaitInv, EndInv
  <1>6. EndInv'
    BY DEF CollaborationTypeOK, LanesInv, BarrierInv, StartInv, WaitInv, EndInv
  <1>7. VerdictInv'
    BY DEF CollaborationTypeOK, LanesInv, BarrierInv, StartInv, WaitInv, EndInv,
           VerdictInv
  <1> QED
    BY <1>1, <1>2, <1>3, <1>4, <1>5, <1>6, <1>7

LEMMA TimeOutStep ==
    ASSUME CollaborationInv, TimeOut
    PROVE  CollaborationInv'
  <1> USE DEF CollaborationInv, TimeOut, GiveUp
  <1>1. CollaborationTypeOK'
    BY DEF CollaborationTypeOK, Position, AgentState, Status, Artifact
  <1>2. LanesInv'
    BY DEF CollaborationTypeOK, LanesInv, StartInv, WaitInv, EndInv
  <1>3. BarrierInv'
    BY DEF CollaborationTypeOK, LanesInv, BarrierInv, StartInv, WaitInv
  <1>4. StartInv'
    BY DEF CollaborationTypeOK, LanesInv, BarrierInv, StartInv, WaitInv, EndInv
  <1>5. WaitInv'
    BY DEF CollaborationTypeOK, LanesInv, BarrierInv, StartInv, WaitInv, EndInv
  <1>6. EndInv'
    BY DEF CollaborationTypeOK, LanesInv, BarrierInv, StartInv, WaitInv, EndInv
  <1>7. VerdictInv'
    BY DEF CollaborationTypeOK, LanesInv, BarrierInv, StartInv, WaitInv, EndInv,
           VerdictInv
  <1> QED
    BY <1>1, <1>2, <1>3, <1>4, <1>5, <1>6, <1>7

LEMMA PersistLaneStep ==
    ASSUME CollaborationInv, PersistLane
    PROVE  CollaborationInv'
  <1> USE DEF CollaborationInv, PersistLane, Retained, Launched
  <1>1. CollaborationTypeOK'
    <2>1. status' \in [Lanes -> Status]
      BY DEF CollaborationTypeOK, Status
    <2>2. at' \in Position /\ lane' \in Lanes
      BY DEF CollaborationTypeOK, Position
    <2>3. listed' \in SUBSET Lanes /\ failed' \in BOOLEAN
      BY DEF CollaborationTypeOK
    <2>4. evidence' \in SUBSET Artifact
      BY DEF CollaborationTypeOK
    <2> QED
      BY <2>1, <2>2, <2>3, <2>4 DEF CollaborationTypeOK
  <1>2. LanesInv'
    BY DEF CollaborationTypeOK, LanesInv, StartInv, WaitInv, EndInv
  <1>3. BarrierInv'
    BY DEF CollaborationTypeOK, LanesInv, BarrierInv, StartInv, WaitInv
  <1>4. StartInv'
    BY DEF CollaborationTypeOK, LanesInv, BarrierInv, StartInv, WaitInv, EndInv
  <1>5. WaitInv'
    BY DEF CollaborationTypeOK, LanesInv, BarrierInv, StartInv, WaitInv, EndInv
  <1>6. EndInv'
    BY DEF CollaborationTypeOK, LanesInv, BarrierInv, StartInv, WaitInv, EndInv
  <1>7. VerdictInv'
    BY DEF CollaborationTypeOK, LanesInv, BarrierInv, StartInv, WaitInv, EndInv,
           VerdictInv
  <1> QED
    BY <1>1, <1>2, <1>3, <1>4, <1>5, <1>6, <1>7

LEMMA CheckLaneStep ==
    ASSUME CollaborationInv, CheckLane
    PROVE  CollaborationInv'
  <1> USE DEF CollaborationInv, CheckLane, Proceed, Write, LaneFailed,
             Launched
  <1>1. CollaborationTypeOK'
    <2>1. status' \in [Lanes -> Status]
      BY DEF CollaborationTypeOK, Status
    <2>2. at' \in Position /\ lane' \in Lanes
      BY DEF CollaborationTypeOK, Position
    <2>3. listed' \in SUBSET Lanes /\ failed' \in BOOLEAN
      BY DEF CollaborationTypeOK
    <2>4. evidence' \in SUBSET Artifact
      BY DEF CollaborationTypeOK, Artifact
    <2> QED
      BY <2>1, <2>2, <2>3, <2>4 DEF CollaborationTypeOK
  <1>2. LanesInv'
    BY DEF CollaborationTypeOK, LanesInv, StartInv, WaitInv, EndInv
  <1>3. BarrierInv'
    BY DEF CollaborationTypeOK, LanesInv, BarrierInv, StartInv, WaitInv
  <1>4. StartInv'
    BY DEF CollaborationTypeOK, LanesInv, BarrierInv, StartInv, WaitInv, EndInv
  <1>5. WaitInv'
    BY DEF CollaborationTypeOK, LanesInv, BarrierInv, StartInv, WaitInv, EndInv
  <1>6. EndInv'
    BY DEF CollaborationTypeOK, LanesInv, BarrierInv, StartInv, WaitInv, EndInv
  <1>7. VerdictInv'
    BY DEF CollaborationTypeOK, LanesInv, BarrierInv, StartInv, WaitInv, EndInv,
           VerdictInv
  <1> QED
    BY <1>1, <1>2, <1>3, <1>4, <1>5, <1>6, <1>7

LEMMA FinishStep ==
    ASSUME CollaborationInv, Finish
    PROVE  CollaborationInv'
  <1> USE DEF CollaborationInv, Finish
  <1> DEFINE done == Completed
             score == [observed |-> observed, dependent |-> Dependent \in listed,
                       lanes |-> Cardinality(done)]
  <1>a. /\ done \subseteq DoneLanes /\ done \in SUBSET Lanes
        /\ ~failed => done = Lanes
    BY DEF CollaborationTypeOK, LanesInv, EndInv, Completed
  <1>b. /\ Cardinality(done) \in 0..2 /\ Cardinality(done) <= Cardinality(DoneLanes)
        /\ ~failed => Cardinality(done) = 2
    BY <1>a, LaneCount
  <1>c. /\ Score.observed = observed /\ Score.dependent = (Dependent \in listed)
        /\ Score.lanes = Cardinality(done)
    BY DEF Score
  <1>d. ~failed => Valid
    BY <1>b, <1>c DEF EndInv, Valid
  <1>e. Rated = IF failed THEN "incomplete" ELSE "completed"
    BY <1>d DEF Rated
  <1>f. /\ verdict'.status = (IF failed THEN "incomplete" ELSE "completed")
        /\ verdict'.observed <=> observed
        /\ verdict'.dependent <=> Dependent \in listed
        /\ verdict'.lanes = Cardinality(done)
        /\ verdict'.incomplete <=> failed
        /\ verdict' \in Verdict
    <2>1. verdict' = [status |-> Rated, observed |-> observed,
                      dependent |-> (Dependent \in listed),
                      lanes |-> Cardinality(done), incomplete |-> failed]
      BY <1>c, <1>d DEF CollaborationTypeOK
    <2>2. Rated \in {"running", "completed", "incomplete", "failed"}
      BY <1>e
    <2>3. /\ observed \in BOOLEAN /\ failed \in BOOLEAN
          /\ (Dependent \in listed) \in BOOLEAN
      BY DEF CollaborationTypeOK
    <2> HIDE DEF done
    <2>4. /\ verdict' \in Verdict
          /\ verdict'.status = Rated /\ verdict'.lanes = Cardinality(done)
          /\ verdict'.observed = observed /\ verdict'.incomplete = failed
          /\ verdict'.dependent = (Dependent \in listed)
      <3>1. PICK d \in BOOLEAN : d = (Dependent \in listed)
        BY <2>3, Zenon
      <3>2. verdict' = [status |-> Rated, observed |-> observed, dependent |-> d,
                        lanes |-> Cardinality(done), incomplete |-> failed]
        BY <2>1, <3>1, Zenon
      <3>3. Cardinality(done) \in 0..2
        BY <1>b
      <3>4. /\ verdict' \in Verdict
            /\ verdict'.status = Rated /\ verdict'.lanes = Cardinality(done)
            /\ verdict'.observed = observed /\ verdict'.incomplete = failed
            /\ verdict'.dependent = d
        <4> DEFINE v == verdict'
                   n == Cardinality(done)
                   s == Rated
        <4>1. v = [status |-> s, observed |-> observed, dependent |-> d,
                   lanes |-> n, incomplete |-> failed]
          BY <3>2
        <4>2. n \in 0..2 /\ s \in {"running", "completed", "incomplete", "failed"}
          BY <2>2, <3>3
        <4> HIDE DEF v, n, s
        <4>3. /\ v \in Verdict /\ v.status = s /\ v.lanes = n
              /\ v.observed = observed /\ v.incomplete = failed /\ v.dependent = d
          <5>1. v \in Verdict
            BY <2>3, <4>1, <4>2 DEF Verdict
          <5>2. /\ v.status = s /\ v.lanes = n
                /\ v.observed = observed /\ v.incomplete = failed /\ v.dependent = d
            BY <4>1
          <5> QED
            BY <5>1, <5>2
        <4> QED
          BY <4>3 DEF v, n, s
      <3> QED
        BY <3>1, <3>4, Zenon
    <2> QED
      BY <1>e, <2>4
  <1>g. PICK written \in SUBSET {"score", "episode"} :
           /\ evidence' = evidence \cup written
           /\ \/ failed' = (failed \/ Rated = "failed" \/ written # {"score", "episode"})
              \/ failed' = TRUE
    OBVIOUS
  <1> HIDE DEF done
  <1>1. CollaborationTypeOK'
    BY <1>e, <1>f, <1>g DEF CollaborationTypeOK, Position, Artifact
  <1>2. LanesInv'
    BY DEF CollaborationTypeOK, LanesInv, StartInv, WaitInv, EndInv
  <1>3. BarrierInv'
    BY DEF CollaborationTypeOK, LanesInv, BarrierInv, StartInv, WaitInv
  <1>4. StartInv'
    BY DEF CollaborationTypeOK, LanesInv, BarrierInv, StartInv, WaitInv, EndInv
  <1>5. WaitInv'
    BY DEF CollaborationTypeOK, LanesInv, BarrierInv, StartInv, WaitInv, EndInv
  <1>6. EndInv'
    BY DEF CollaborationTypeOK, LanesInv, BarrierInv, StartInv, WaitInv, EndInv
  <1>7. VerdictInv'
    <2>1. Cardinality(DoneLanes') = Cardinality(DoneLanes)
      OBVIOUS
    <2>2. verdict'.lanes <= Cardinality(DoneLanes')
      BY <1>b, <1>f, <2>1
    <2>3. failed' \/ (~failed /\ {"score", "episode"} \subseteq evidence')
      BY <1>e, <1>g
    <2>4. ~failed => WholeEpisode' /\ raw' = {}
      <3> SUFFICES ASSUME ~failed PROVE WholeEpisode' /\ raw' = {}
        OBVIOUS
      <3>1. WellDone /\ raw \subseteq Lanes
        BY DEF CollaborationTypeOK, EndInv
      <3>2. barrier # NoRun /\ barrier \in opened[Initial] \cap noted
        BY <3>1 DEF BarrierInv
      <3>3. \E run \in RunId : opened[Initial] = {run}
        BY <3>1 DEF Unique
      <3>4. \A l \in Lanes : agent[l] = "done" /\ {Observation(l), Result(l)} \subseteq evidence
        BY <3>1 DEF LanesInv
      <3>5. {"snapshot", "barrier"} \subseteq evidence
        BY <3>1, <3>4 DEF BarrierInv
      <3>6. evidence \subseteq evidence'
        BY <1>g
      <3>7. raw = {}
        BY <3>1
      <3> QED
        BY <3>1, <3>2, <3>3, <3>4, <3>5, <3>6, <3>7
    <2>5. at' = "sums" /\ (verdict'.dependent <=> Released')
      BY <1>f DEF EndInv
    <2>6. verdict'.observed => barrier' # NoRun
      BY <1>f DEF BarrierInv
    <2> HIDE DEF DoneLanes, Released, WholeEpisode
    <2> QED
      BY <1>f, <2>2, <2>3, <2>4, <2>5, <2>6 DEF VerdictInv
  <1> QED
    BY <1>1, <1>2, <1>3, <1>4, <1>5, <1>6, <1>7

LEMMA WriteSumsStep ==
    ASSUME CollaborationInv, WriteSums
    PROVE  CollaborationInv'
  <1> USE DEF CollaborationInv, WriteSums, Write
  <1>1. CollaborationTypeOK'
    BY DEF CollaborationTypeOK, Position, AgentState, Status, Artifact
  <1>2. LanesInv'
    BY DEF CollaborationTypeOK, LanesInv, StartInv, WaitInv, EndInv
  <1>3. BarrierInv'
    BY DEF CollaborationTypeOK, LanesInv, BarrierInv, StartInv, WaitInv
  <1>4. StartInv'
    BY DEF CollaborationTypeOK, LanesInv, BarrierInv, StartInv, WaitInv, EndInv
  <1>5. WaitInv'
    BY DEF CollaborationTypeOK, LanesInv, BarrierInv, StartInv, WaitInv, EndInv
  <1>6. EndInv'
    BY DEF CollaborationTypeOK, LanesInv, BarrierInv, StartInv, WaitInv, EndInv
  <1>7. VerdictInv'
    BY DEF CollaborationTypeOK, LanesInv, BarrierInv, StartInv, WaitInv, EndInv,
           VerdictInv
  <1> QED
    BY <1>1, <1>2, <1>3, <1>4, <1>5, <1>6, <1>7

LEMMA CancelStep ==
    ASSUME CollaborationInv, Cancel
    PROVE  CollaborationInv'
  <1> USE DEF CollaborationInv, Cancel
  <1>1. CollaborationTypeOK'
    BY DEF CollaborationTypeOK, Position, AgentState, Status, Artifact
  <1>2. LanesInv'
    BY DEF CollaborationTypeOK, LanesInv, StartInv, WaitInv, EndInv
  <1>3. BarrierInv'
    BY DEF CollaborationTypeOK, LanesInv, BarrierInv, StartInv, WaitInv
  <1>4. StartInv'
    BY DEF CollaborationTypeOK, LanesInv, BarrierInv, StartInv, WaitInv, EndInv
  <1>5. WaitInv'
    BY DEF CollaborationTypeOK, LanesInv, BarrierInv, StartInv, WaitInv, EndInv
  <1>6. EndInv'
    BY DEF CollaborationTypeOK, LanesInv, BarrierInv, StartInv, WaitInv, EndInv
  <1>7. VerdictInv'
    BY DEF CollaborationTypeOK, LanesInv, BarrierInv, StartInv, WaitInv, EndInv,
           VerdictInv
  <1> QED
    BY <1>1, <1>2, <1>3, <1>4, <1>5, <1>6, <1>7

LEMMA KillControllerStep ==
    ASSUME CollaborationInv, KillController
    PROVE  CollaborationInv'
  <1> USE DEF CollaborationInv, KillController
  <1>1. CollaborationTypeOK'
    BY DEF CollaborationTypeOK, Position, AgentState, Status, Artifact
  <1>2. LanesInv'
    BY DEF CollaborationTypeOK, LanesInv, StartInv, WaitInv, EndInv
  <1>3. BarrierInv'
    BY DEF CollaborationTypeOK, LanesInv, BarrierInv, StartInv, WaitInv
  <1>4. StartInv'
    BY DEF CollaborationTypeOK, LanesInv, BarrierInv, StartInv, WaitInv, EndInv
  <1>5. WaitInv'
    BY DEF CollaborationTypeOK, LanesInv, BarrierInv, StartInv, WaitInv, EndInv
  <1>6. EndInv'
    BY DEF CollaborationTypeOK, LanesInv, BarrierInv, StartInv, WaitInv, EndInv
  <1>7. VerdictInv'
    BY DEF CollaborationTypeOK, LanesInv, BarrierInv, StartInv, WaitInv, EndInv,
           VerdictInv
  <1> QED
    BY <1>1, <1>2, <1>3, <1>4, <1>5, <1>6, <1>7

-----------------------------------------------------------------------------
(* The agents *)

LEMMA OpenRunStep ==
    ASSUME CollaborationInv, NEW l \in Lanes, OpenRun(l)
    PROVE  CollaborationInv'
  <1> USE DEF CollaborationInv, OpenRun
  <1>1. CollaborationTypeOK'
    <2>1. opened[Initial] \cup opened[Dependent] \subseteq 1..MaxRuns
      BY DEF CollaborationTypeOK, RunId
    <2>2. Cardinality(opened[Initial] \cup opened[Dependent]) \in Nat
      <3>1. 1 \in Int /\ MaxRuns \in Int
        BY RunsBounded
      <3>2. IsFiniteSet(1..MaxRuns)
        BY <3>1, FS_Interval
      <3> QED
        BY <2>1, <3>2, FS_Subset, FS_CardinalityType
    <2>3. opened' \in [Lanes -> SUBSET RunId]
      BY <2>2, RunsBounded DEF CollaborationTypeOK, RunId
    <2> QED
      BY <2>3 DEF CollaborationTypeOK
  <1>2. LanesInv'
    BY DEF CollaborationTypeOK, LanesInv, StartInv, WaitInv, EndInv
  <1>3. BarrierInv'
    BY DEF CollaborationTypeOK, LanesInv, BarrierInv, StartInv, WaitInv
  <1>4. StartInv'
    BY DEF CollaborationTypeOK, LanesInv, BarrierInv, StartInv, WaitInv, EndInv
  <1>5. WaitInv'
    BY DEF CollaborationTypeOK, LanesInv, BarrierInv, StartInv, WaitInv, EndInv
  <1>6. EndInv'
    BY DEF CollaborationTypeOK, LanesInv, BarrierInv, StartInv, WaitInv, EndInv
  <1>7. VerdictInv'
    <2>1. \A k \in Lanes : agent[k] = "done" => agent'[k] = "done"
      BY DEF CollaborationTypeOK
    <2>2. verdict'.lanes <= Cardinality(DoneLanes')
      BY <2>1, MoreDone DEF CollaborationTypeOK, Verdict, VerdictInv
    <2> QED
      BY <2>1, <2>2 DEF CollaborationTypeOK, LanesInv, VerdictInv
  <1> QED
    BY <1>1, <1>2, <1>3, <1>4, <1>5, <1>6, <1>7

LEMMA RecordCheckpointStep ==
    ASSUME CollaborationInv, NEW l \in Lanes, NEW run \in RunId, RecordCheckpoint(l, run)
    PROVE  CollaborationInv'
  <1> USE DEF CollaborationInv, RecordCheckpoint
  <1>1. CollaborationTypeOK'
    BY DEF CollaborationTypeOK, Position, AgentState, Status, Artifact
  <1>2. LanesInv'
    BY DEF CollaborationTypeOK, LanesInv, StartInv, WaitInv, EndInv
  <1>3. BarrierInv'
    BY DEF CollaborationTypeOK, LanesInv, BarrierInv, StartInv, WaitInv
  <1>4. StartInv'
    BY DEF CollaborationTypeOK, LanesInv, BarrierInv, StartInv, WaitInv, EndInv
  <1>5. WaitInv'
    BY DEF CollaborationTypeOK, LanesInv, BarrierInv, StartInv, WaitInv, EndInv
  <1>6. EndInv'
    BY DEF CollaborationTypeOK, LanesInv, BarrierInv, StartInv, WaitInv, EndInv
  <1>7. VerdictInv'
    <2>1. \A k \in Lanes : agent[k] = "done" => agent'[k] = "done"
      BY DEF CollaborationTypeOK
    <2>2. verdict'.lanes <= Cardinality(DoneLanes')
      BY <2>1, MoreDone DEF CollaborationTypeOK, Verdict, VerdictInv
    <2> QED
      BY <2>1, <2>2 DEF CollaborationTypeOK, LanesInv, VerdictInv
  <1> QED
    BY <1>1, <1>2, <1>3, <1>4, <1>5, <1>6, <1>7

LEMMA RespondStep ==
    ASSUME CollaborationInv, NEW l \in Lanes, Respond(l)
    PROVE  CollaborationInv'
  <1> USE DEF CollaborationInv, Respond
  <1>1. CollaborationTypeOK'
    BY DEF CollaborationTypeOK, Position, AgentState, Status, Artifact
  <1>2. LanesInv'
    BY DEF CollaborationTypeOK, LanesInv, StartInv, WaitInv, EndInv
  <1>3. BarrierInv'
    BY DEF CollaborationTypeOK, LanesInv, BarrierInv, StartInv, WaitInv
  <1>4. StartInv'
    BY DEF CollaborationTypeOK, LanesInv, BarrierInv, StartInv, WaitInv, EndInv
  <1>5. WaitInv'
    BY DEF CollaborationTypeOK, LanesInv, BarrierInv, StartInv, WaitInv, EndInv
  <1>6. EndInv'
    BY DEF CollaborationTypeOK, LanesInv, BarrierInv, StartInv, WaitInv, EndInv
  <1>7. VerdictInv'
    <2>1. \A k \in Lanes : agent[k] = "done" => agent'[k] = "done"
      BY DEF CollaborationTypeOK
    <2>2. verdict'.lanes <= Cardinality(DoneLanes')
      BY <2>1, MoreDone DEF CollaborationTypeOK, Verdict, VerdictInv
    <2> QED
      BY <2>1, <2>2 DEF CollaborationTypeOK, LanesInv, VerdictInv
  <1> QED
    BY <1>1, <1>2, <1>3, <1>4, <1>5, <1>6, <1>7

LEMMA CollectStep ==
    ASSUME CollaborationInv, NEW l \in Lanes, Collect(l)
    PROVE  CollaborationInv'
  <1> USE DEF CollaborationInv, Collect
  <1>1. CollaborationTypeOK'
    BY DEF CollaborationTypeOK, Position, AgentState, Status, Artifact
  <1>2. LanesInv'
    BY DEF CollaborationTypeOK, LanesInv, StartInv, WaitInv, EndInv
  <1>3. BarrierInv'
    BY DEF CollaborationTypeOK, LanesInv, BarrierInv, StartInv, WaitInv
  <1>4. StartInv'
    BY DEF CollaborationTypeOK, LanesInv, BarrierInv, StartInv, WaitInv, EndInv
  <1>5. WaitInv'
    BY DEF CollaborationTypeOK, LanesInv, BarrierInv, StartInv, WaitInv, EndInv
  <1>6. EndInv'
    BY DEF CollaborationTypeOK, LanesInv, BarrierInv, StartInv, WaitInv, EndInv
  <1>7. VerdictInv'
    <2>1. \A k \in Lanes : agent[k] = "done" => agent'[k] = "done"
      BY DEF CollaborationTypeOK
    <2>2. verdict'.lanes <= Cardinality(DoneLanes')
      BY <2>1, MoreDone DEF CollaborationTypeOK, Verdict, VerdictInv
    <2> QED
      BY <2>1, <2>2 DEF CollaborationTypeOK, LanesInv, VerdictInv
  <1> QED
    BY <1>1, <1>2, <1>3, <1>4, <1>5, <1>6, <1>7

LEMMA EndLaneStep ==
    ASSUME CollaborationInv, NEW l \in Lanes, EndLane(l)
    PROVE  CollaborationInv'
  <1> USE DEF CollaborationInv, EndLane
  <1>1. CollaborationTypeOK'
    BY DEF CollaborationTypeOK, Position, AgentState, Status, Artifact
  <1>2. LanesInv'
    BY DEF CollaborationTypeOK, LanesInv, StartInv, WaitInv, EndInv
  <1>3. BarrierInv'
    BY DEF CollaborationTypeOK, LanesInv, BarrierInv, StartInv, WaitInv
  <1>4. StartInv'
    BY DEF CollaborationTypeOK, LanesInv, BarrierInv, StartInv, WaitInv, EndInv
  <1>5. WaitInv'
    BY DEF CollaborationTypeOK, LanesInv, BarrierInv, StartInv, WaitInv, EndInv
  <1>6. EndInv'
    BY DEF CollaborationTypeOK, LanesInv, BarrierInv, StartInv, WaitInv, EndInv
  <1>7. VerdictInv'
    <2>1. \A k \in Lanes : agent[k] = "done" => agent'[k] = "done"
      BY DEF CollaborationTypeOK
    <2>2. verdict'.lanes <= Cardinality(DoneLanes')
      BY <2>1, MoreDone DEF CollaborationTypeOK, Verdict, VerdictInv
    <2> QED
      BY <2>1, <2>2 DEF CollaborationTypeOK, LanesInv, VerdictInv
  <1> QED
    BY <1>1, <1>2, <1>3, <1>4, <1>5, <1>6, <1>7

-----------------------------------------------------------------------------
(* The specification *)

LEMMA StutterStep ==
    ASSUME CollaborationInv, UNCHANGED collaborationVars
    PROVE  CollaborationInv'
  BY DEF CollaborationInv, CollaborationTypeOK, LanesInv, BarrierInv, StartInv, WaitInv,
         EndInv, VerdictInv, collaborationVars

LEMMA StepInv ==
    ASSUME CollaborationInv, [CollaborationNext]_collaborationVars
    PROVE  CollaborationInv'
  <1>1. CASE StartStep
    BY <1>1, StartEpisodeStep, ObserveBeforeStep, CloneLaneStep, LaunchLaneStep DEF StartStep
  <1>2. CASE BarrierStep
    BY <1>2, ListRunsStep, ExportProjectStep, WaitStep, PublishBarrierStep DEF BarrierStep
  <1>3. CASE EndStep
    BY <1>3, ReceiveStep, PersistLaneStep, CheckLaneStep, FinishStep, WriteSumsStep DEF EndStep
  <1>4. CASE TimeOut \/ Cancel \/ KillController
    BY <1>4, TimeOutStep, CancelStep, KillControllerStep
  <1>5. CASE AgentStep
    BY <1>5, OpenRunStep, RecordCheckpointStep, RespondStep, CollectStep, EndLaneStep
       DEF AgentStep
  <1> QED
    BY <1>1, <1>2, <1>3, <1>4, <1>5, StutterStep DEF CollaborationNext, ControllerStep

\* What the controller believes of lanes, barrier and results is so at each of
\* its steps, on every error path (collaboration_rollout.go:404-520).
THEOREM CollaborationInvariance == CollaborationSpec => []CollaborationInv
  BY InitInv, StepInv, PTL DEF CollaborationSpec

\* No clone and no agent of the dependent lane without a barrier that was
\* observed and written (collaboration_rollout.go:447-474).
THEOREM BarrierComesFirst == CollaborationSpec => []DependentWaitsForBarrier
  <1>1. CollaborationInv => DependentWaitsForBarrier
    BY DEF CollaborationInv, BarrierInv, DependentWaitsForBarrier
  <1> QED
    BY <1>1, CollaborationInvariance, PTL

\* An episode that is rated completed is complete
\* (finishCollaboration, CollaborationEpisode.Validate).
THEOREM CompletedEpisodes == CollaborationSpec => []CompletedIsComplete
  <1>1. CollaborationInv => CompletedIsComplete
    BY DEF CollaborationInv, VerdictInv, CompletedIsComplete
  <1> QED
    BY <1>1, CollaborationInvariance, PTL

\* The score of any episode claims no more than happened
\* (finishCollaboration's score).
THEOREM TruthfulScores == CollaborationSpec => []ScoreTruthful
  <1>1. CollaborationInv => ScoreTruthful
    BY DEF CollaborationInv, CollaborationTypeOK, LanesInv, BarrierInv, VerdictInv,
           ScoreTruthful, AgentState
  <1> QED
    BY <1>1, CollaborationInvariance, PTL
=============================================================================
