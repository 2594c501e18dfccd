------------------------- MODULE JobLifecycleProofs -------------------------
(***************************************************************************)
(* Proofs that the safety invariants of JobLifecycle hold for any number   *)
(* of jobs, GPUs and nodes, any compatibility and any generation bound.    *)
(*                                                                         *)
(* The eight invariants are proved together: none of them is inductive by  *)
(* itself, but their conjunction IInv is. OwnershipAgrees needs NoJobLost  *)
(* (a queued job holds nothing when it starts), NoJobLost needs            *)
(* OwnershipAgrees (a job on a failed node is active), ReservationsSound   *)
(* and VictimsReturn need NoJobLost, EventsFenced needs TypeOK.            *)
(***************************************************************************)
EXTENDS JobLifecycle, FiniteSetTheorems, TLAPS

\* The inductive invariant.

IInv ==
  /\ TypeOK
  /\ OwnershipAgrees
  /\ NoJobLost
  /\ VictimsReturn
  /\ ReservationsSound
  /\ NoLostCapacityInUse
  /\ ActiveJobHasEvent
  /\ EventsFenced

\* A placement is never empty: Replicas allows no gang of size zero.
LEMMA GangNonEmpty ==
  ASSUME NEW j \in Jobs, NEW P, Cardinality(P) \in Replicas[j]
  PROVE  P # {}
  BY ConstantsAssumption, FS_EmptySet

\* The invariant holds when the simulation starts.
LEMMA InitIInv == Init => IInv
  BY ConstantsAssumption
     DEF Init, IInv, TypeOK, OwnershipAgrees, NoJobLost, VictimsReturn, ReservationsSound,
         NoLostCapacityInUse, ActiveJobHasEvent, EventsFenced, Statuses, Active

\* An arrival only makes its job pending or rejected.
LEMMA ArrivePreserves ==
  ASSUME NEW j \in Jobs, IInv, Arrive(j)
  PROVE  IInv'
<1> USE ConstantsAssumption DEF IInv, Arrive, jobVars, queueVars, eventVars, nodeVars,
        Usable, Active, Statuses
<1>1. TypeOK'
  BY DEF TypeOK
<1>2. OwnershipAgrees'
  BY DEF TypeOK, OwnershipAgrees
<1>3. NoJobLost'
  BY DEF TypeOK, NoJobLost
<1>4. VictimsReturn'
  BY DEF TypeOK, VictimsReturn
<1>5. ReservationsSound'
  BY DEF TypeOK, ReservationsSound
<1>6. NoLostCapacityInUse'
  BY DEF NoLostCapacityInUse
<1>7. ActiveJobHasEvent'
  BY DEF TypeOK, ActiveJobHasEvent
<1>8. EventsFenced'
  BY DEF TypeOK, EventsFenced
<1>9. QED
  BY <1>1, <1>2, <1>3, <1>4, <1>5, <1>6, <1>7, <1>8

\* A start moves free, unreserved GPUs to a queued job, ends the job's own
\* reservation and fences off its old events with a new generation.
LEMMA StartPreserves ==
  ASSUME NEW j \in pending, NEW P \in SUBSET PlaceableAfter(j, {}), IInv, Start(j, P)
  PROVE  IInv'
<1> USE ConstantsAssumption DEF IInv, Start, NextGeneration, PlaceableAfter,
        ReservedElsewhere, IsGang, Holders, ReturnedVictims, TargetsWithout,
        DropReservations, jobVars, queueVars, eventVars, nodeVars, Usable, Active,
        Statuses
<1> DEFINE k == NextGeneration(j)
<1>0. j \in Jobs /\ k \in Nat /\ k = gen[j] + 1
  BY DEF TypeOK
<1>1. TypeOK'
  <2> HIDE DEF Start, NextGeneration, PlaceableAfter, ReservedElsewhere, IsGang,
              Holders, ReturnedVictims, TargetsWithout, DropReservations, jobVars,
              queueVars, eventVars, nodeVars, Usable, Active, Statuses
  <2>1. P \subseteq GPUs
    BY <1>0 DEF PlaceableAfter
  <2>2. /\ status' \in [Jobs -> Statuses]
        /\ completeEvents' \in [Jobs -> SUBSET Nat]
        /\ restartEvents' \in [Jobs -> SUBSET Nat]
    <3>1. CASE gen[j] > 0 /\ j \in RestartJobs
      BY <3>1, <1>0 DEF Start, TypeOK, Statuses
    <3>2. CASE ~(gen[j] > 0 /\ j \in RestartJobs)
      BY <3>2, <1>0 DEF Start, TypeOK, Statuses
    <3>3. QED
      BY <3>1, <3>2
  <2>3. QED
    BY <1>0, <2>1, <2>2
    DEF TypeOK, Start, DropReservations, TargetsWithout, ReturnedVictims, nodeVars
<1>2. OwnershipAgrees'
  BY GangNonEmpty DEF TypeOK, OwnershipAgrees, NoJobLost
<1>3. NoJobLost'
  BY DEF TypeOK, NoJobLost
<1>4. VictimsReturn'
  BY DEF TypeOK, NoJobLost, VictimsReturn
<1>5. ReservationsSound'
  BY DEF TypeOK, NoJobLost, ReservationsSound
<1>6. NoLostCapacityInUse'
  BY DEF NoLostCapacityInUse
<1>7. ActiveJobHasEvent'
  BY DEF TypeOK, ActiveJobHasEvent
<1>8. EventsFenced'
  <2> HIDE DEF Start, NextGeneration, PlaceableAfter, ReservedElsewhere, IsGang,
              Holders, ReturnedVictims, TargetsWithout, DropReservations, jobVars,
              queueVars, eventVars, nodeVars, Usable, Active, Statuses
  <2>1. \A i \in Jobs \ {j} : /\ status'[i] = status[i] /\ gen'[i] = gen[i]
                              /\ completeEvents'[i] = completeEvents[i]
                              /\ restartEvents'[i] = restartEvents[i]
    BY DEF Start, TypeOK
  <2>2. /\ gen'[j] = k /\ checkpointEvents' = checkpointEvents
        /\ status'[j] = "running" =>
             /\ completeEvents'[j] \subseteq completeEvents[j] \cup {k}
             /\ restartEvents'[j] = restartEvents[j]
        /\ status'[j] # "running" =>
             /\ restartEvents'[j] \subseteq restartEvents[j] \cup {k}
             /\ completeEvents'[j] = completeEvents[j]
    BY <1>0 DEF Start, TypeOK
  <2>3. \A e \in completeEvents[j] \cup checkpointEvents[j] \cup restartEvents[j] :
          e \in Nat /\ e < k
    BY <1>0 DEF EventsFenced, TypeOK
  <2>4. \A i \in Jobs \ {j} :
    /\ \A e \in completeEvents'[i] \cup checkpointEvents'[i] \cup restartEvents'[i] :
         e <= gen'[i]
    /\ status'[i] = "running" => gen'[i] \notin checkpointEvents'[i]
    /\ status'[i] = "restarting" =>
         gen'[i] \notin completeEvents'[i] \cup checkpointEvents'[i]
    BY <2>1, <2>2 DEF EventsFenced
  <2>5.
    /\ \A e \in completeEvents'[j] \cup checkpointEvents'[j] \cup restartEvents'[j] :
         e <= gen'[j]
    /\ status'[j] = "running" => gen'[j] \notin checkpointEvents'[j]
    /\ status'[j] = "restarting" =>
         gen'[j] \notin completeEvents'[j] \cup checkpointEvents'[j]
    BY <1>0, <2>2, <2>3
  <2>6. QED
    BY <2>4, <2>5 DEF EventsFenced
<1>9. QED
  BY <1>1, <1>2, <1>3, <1>4, <1>5, <1>6, <1>7, <1>8

\* The end of a restart trades the restart event for a completion event.
LEMMA CompleteRestartPreserves ==
  ASSUME NEW j \in Jobs, IInv, CompleteRestart(j)
  PROVE  IInv'
<1> USE ConstantsAssumption DEF IInv, CompleteRestart, jobVars, queueVars, eventVars,
        nodeVars, Usable, Active, Statuses
<1>1. TypeOK'
  BY DEF TypeOK
<1>2. OwnershipAgrees'
  BY DEF OwnershipAgrees
<1>3. NoJobLost'
  BY DEF NoJobLost
<1>4. VictimsReturn'
  BY DEF VictimsReturn
<1>5. ReservationsSound'
  BY DEF ReservationsSound
<1>6. NoLostCapacityInUse'
  BY DEF NoLostCapacityInUse
<1>7. ActiveJobHasEvent'
  BY DEF TypeOK, ActiveJobHasEvent
<1>8. EventsFenced'
  BY DEF TypeOK, EventsFenced
<1>9. QED
  BY <1>1, <1>2, <1>3, <1>4, <1>5, <1>6, <1>7, <1>8

\* A completion releases the GPUs of one running job.
LEMMA CompletePreserves ==
  ASSUME NEW j \in Jobs, IInv, Complete(j)
  PROVE  IInv'
<1> USE ConstantsAssumption DEF IInv, Complete, Release, jobVars, queueVars,
        eventVars, nodeVars, Usable, Active, Statuses
<1>1. TypeOK'
  BY DEF TypeOK
<1>2. OwnershipAgrees'
  BY DEF TypeOK, OwnershipAgrees
<1>3. NoJobLost'
  BY DEF NoJobLost
<1>4. VictimsReturn'
  BY DEF VictimsReturn
<1>5. ReservationsSound'
  BY DEF TypeOK, ReservationsSound
<1>6. NoLostCapacityInUse'
  BY DEF NoLostCapacityInUse
<1>7. ActiveJobHasEvent'
  BY DEF TypeOK, ActiveJobHasEvent
<1>8. EventsFenced'
  BY DEF EventsFenced
<1>9. QED
  BY <1>1, <1>2, <1>3, <1>4, <1>5, <1>6, <1>7, <1>8

\* A checkpointed victim releases its GPUs and is queued, or parked for its target.
LEMMA CompleteCheckpointPreserves ==
  ASSUME NEW j \in Jobs, IInv, CompleteCheckpoint(j)
  PROVE  IInv'
<1> USE ConstantsAssumption DEF IInv, CompleteCheckpoint, Release, jobVars, queueVars,
        eventVars, nodeVars, Usable, Active, Statuses
<1>1. TypeOK'
  BY DEF TypeOK
<1>2. OwnershipAgrees'
  BY DEF TypeOK, OwnershipAgrees
<1>3. NoJobLost'
  BY DEF TypeOK, NoJobLost
<1>4. VictimsReturn'
  BY DEF VictimsReturn
<1>5. ReservationsSound'
  BY DEF TypeOK, ReservationsSound
<1>6. NoLostCapacityInUse'
  BY DEF NoLostCapacityInUse
<1>7. ActiveJobHasEvent'
  BY DEF TypeOK, ActiveJobHasEvent
<1>8. EventsFenced'
  BY DEF EventsFenced
<1>9. QED
  BY <1>1, <1>2, <1>3, <1>4, <1>5, <1>6, <1>7, <1>8

\* Dropping a stale event leaves every live one in place.
LEMMA DropStalePreserves ==
  ASSUME NEW j \in Jobs, IInv, DropStale(j)
  PROVE  IInv'
<1> USE ConstantsAssumption DEF IInv, DropStale, jobVars, queueVars, eventVars,
        nodeVars, Usable, Active, Statuses
<1>1. TypeOK'
  BY DEF TypeOK
<1>2. OwnershipAgrees'
  BY DEF OwnershipAgrees
<1>3. NoJobLost'
  BY DEF NoJobLost
<1>4. VictimsReturn'
  BY DEF VictimsReturn
<1>5. ReservationsSound'
  BY DEF ReservationsSound
<1>6. NoLostCapacityInUse'
  BY DEF NoLostCapacityInUse
<1>7. ActiveJobHasEvent'
  BY DEF TypeOK, ActiveJobHasEvent
<1>8. EventsFenced'
  BY DEF TypeOK, EventsFenced
<1>9. QED
  BY <1>1, <1>2, <1>3, <1>4, <1>5, <1>6, <1>7, <1>8

\* A preemption reserves only GPUs that are free or that its victims hold, and ties
\* the victims to the incoming job if one of them has to checkpoint.
LEMMA PreemptPreserves ==
  ASSUME NEW h \in pending, NEW V \in SUBSET {v \in Jobs : status[v] = "running"},
         NEW P \in SUBSET PlaceableAfter(h, V), IInv, Preempt(h, V, P)
  PROVE  IInv'
<1> USE ConstantsAssumption DEF IInv, Preempt, Release, PlaceableAfter,
        ReservedElsewhere, IsGang, jobVars, queueVars, eventVars, nodeVars, Usable,
        Active, Statuses
<1>1. TypeOK'
  BY DEF TypeOK
<1>2. OwnershipAgrees'
  BY DEF OwnershipAgrees
<1>3. NoJobLost'
  BY DEF NoJobLost
<1>4. VictimsReturn'
  BY GangNonEmpty DEF TypeOK, NoJobLost, VictimsReturn
<1>5. ReservationsSound'
  BY DEF TypeOK, ReservationsSound
<1>6. NoLostCapacityInUse'
  BY DEF NoLostCapacityInUse
<1>7. ActiveJobHasEvent'
  BY DEF ActiveJobHasEvent
<1>8. EventsFenced'
  BY DEF TypeOK, EventsFenced
<1>9. QED
  BY <1>1, <1>2, <1>3, <1>4, <1>5, <1>6, <1>7, <1>8

\* Giving a reservation up queues the victims that were parked for it.
LEMMA GiveUpReservationPreserves ==
  ASSUME NEW h \in Jobs, IInv, GiveUpReservation(h)
  PROVE  IInv'
<1> USE ConstantsAssumption DEF IInv, GiveUpReservation, Holders, ReturnedVictims,
        TargetsWithout, DropReservations, jobVars, queueVars, eventVars, nodeVars,
        Usable, Active, Statuses
<1>1. TypeOK'
  BY DEF TypeOK
<1>2. OwnershipAgrees'
  BY DEF OwnershipAgrees
<1>3. NoJobLost'
  BY DEF NoJobLost
<1>4. VictimsReturn'
  BY DEF TypeOK, VictimsReturn
<1>5. ReservationsSound'
  BY DEF ReservationsSound
<1>6. NoLostCapacityInUse'
  BY DEF NoLostCapacityInUse
<1>7. ActiveJobHasEvent'
  BY DEF ActiveJobHasEvent
<1>8. EventsFenced'
  BY DEF EventsFenced
<1>9. QED
  BY <1>1, <1>2, <1>3, <1>4, <1>5, <1>6, <1>7, <1>8

\* An elastic resize keeps the job's GPUs or takes free ones, under a new generation.
LEMMA ResizePreserves ==
  ASSUME NEW j \in Jobs, NEW P \in SUBSET Compatible[j], IInv, Resize(j, P)
  PROVE  IInv'
<1> USE ConstantsAssumption DEF IInv, Resize, NextGeneration, PlaceableAfter,
        ReservedElsewhere, IsGang, jobVars, queueVars, eventVars, nodeVars, Usable,
        Active, Statuses
<1>1. TypeOK'
  <2> HIDE DEF Resize, NextGeneration, PlaceableAfter, ReservedElsewhere, IsGang,
              jobVars, queueVars, eventVars, nodeVars, Usable, Active, Statuses
  <2>1. NextGeneration(j) \in Nat /\ P \subseteq GPUs
    BY DEF TypeOK, NextGeneration
  <2>2. QED
    BY <2>1 DEF TypeOK, Resize, queueVars, nodeVars, Statuses
<1>2. OwnershipAgrees'
  BY GangNonEmpty DEF TypeOK, OwnershipAgrees
<1>3. NoJobLost'
  BY DEF NoJobLost
<1>4. VictimsReturn'
  BY DEF VictimsReturn
<1>5. ReservationsSound'
  BY DEF TypeOK, OwnershipAgrees, NoJobLost, ReservationsSound
<1>6. NoLostCapacityInUse'
  BY DEF OwnershipAgrees, NoLostCapacityInUse
<1>7. ActiveJobHasEvent'
  BY DEF TypeOK, ActiveJobHasEvent
<1>8. EventsFenced'
  BY DEF TypeOK, EventsFenced
<1>9. QED
  BY <1>1, <1>2, <1>3, <1>4, <1>5, <1>6, <1>7, <1>8

\* A node that comes back disturbs no job.
LEMMA RestorePreserves ==
  ASSUME NEW n \in Nodes, IInv, Restore(n)
  PROVE  IInv'
<1> USE ConstantsAssumption DEF IInv, Restore, jobVars, queueVars, eventVars,
        nodeVars, Usable, Active, Statuses
<1>1. TypeOK'
  BY DEF TypeOK
<1>2. OwnershipAgrees'
  BY DEF OwnershipAgrees
<1>3. NoJobLost'
  BY DEF NoJobLost
<1>4. VictimsReturn'
  BY DEF VictimsReturn
<1>5. ReservationsSound'
  BY DEF ReservationsSound
<1>6. NoLostCapacityInUse'
  BY DEF NoLostCapacityInUse
<1>7. ActiveJobHasEvent'
  BY DEF ActiveJobHasEvent
<1>8. EventsFenced'
  BY DEF EventsFenced
<1>9. QED
  BY <1>1, <1>2, <1>3, <1>4, <1>5, <1>6, <1>7, <1>8

\* A drain drops the reservations on the node before it is unschedulable.
LEMMA DrainPreserves ==
  ASSUME NEW n \in Nodes, IInv, Drain(n)
  PROVE  IInv'
<1> USE ConstantsAssumption DEF IInv, Drain, Affected, OnNode, Holders,
        ReturnedVictims, TargetsWithout, DropReservations, jobVars, queueVars,
        eventVars, nodeVars, Usable, Active, Statuses
<1>1. TypeOK'
  BY DEF TypeOK
<1>2. OwnershipAgrees'
  BY DEF OwnershipAgrees
<1>3. NoJobLost'
  BY DEF NoJobLost
<1>4. VictimsReturn'
  BY DEF TypeOK, VictimsReturn
<1>5. ReservationsSound'
  BY DEF TypeOK, ReservationsSound
<1>6. NoLostCapacityInUse'
  BY DEF NoLostCapacityInUse
<1>7. ActiveJobHasEvent'
  BY DEF ActiveJobHasEvent
<1>8. EventsFenced'
  BY DEF EventsFenced
<1>9. QED
  BY <1>1, <1>2, <1>3, <1>4, <1>5, <1>6, <1>7, <1>8

\* A failure drops the reservations on the node, then shrinks or interrupts every job
\* on it, under a new generation.
LEMMA FailPreserves ==
  ASSUME NEW n \in Nodes, IInv, Fail(n)
  PROVE  IInv'
<1> USE ConstantsAssumption DEF IInv, Fail, NextGeneration, Affected, OnNode, Holders,
        ReturnedVictims, TargetsWithout, DropReservations, jobVars, queueVars,
        eventVars, nodeVars, Usable, Active, Statuses
<1> DEFINE impacted == {j \in Jobs : \E g \in OnNode(n) : owner[g] = j}
           shrunk == {j \in impacted : /\ status[j] = "running"
                                       /\ Cardinality(alloc[j] \ OnNode(n)) \in Replicas[j]}
           lost == impacted \ shrunk
<1>0. /\ owner' = [g \in GPUs |-> IF g \in OnNode(n) \/ owner[g] \in lost
                                THEN None ELSE owner[g]]
      /\ alloc' = [j \in Jobs |-> IF j \in lost THEN {}
                                  ELSE IF j \in shrunk THEN alloc[j] \ OnNode(n)
                                  ELSE alloc[j]]
      /\ status' = [j \in Jobs |-> IF j \in lost THEN "pending" ELSE status[j]]
  BY DEF Fail
<1>1. TypeOK'
  BY DEF TypeOK
<1>2. OwnershipAgrees'
  <2> HIDE DEF Fail, NextGeneration, Affected, OnNode, Holders, ReturnedVictims,
              TargetsWithout, DropReservations, jobVars, queueVars, eventVars,
              nodeVars, Usable, Active, Statuses
  <2>1. ASSUME NEW j \in Jobs
        PROVE  /\ \A g \in GPUs : owner'[g] = j <=> g \in alloc'[j]
               /\ alloc'[j] # {} <=> status'[j] \in Active
    <3>1. CASE j \in lost
      <4>1. alloc'[j] = {} /\ status'[j] = "pending" /\ \A g \in GPUs : owner'[g] # j
        BY <3>1, <1>0 DEF TypeOK
      <4>2. QED
        BY <4>1 DEF Active
    <3>2. CASE j \in shrunk
      <4>1. alloc[j] \ OnNode(n) # {}
        BY <3>2, FS_EmptySet
      <4>2. alloc'[j] = alloc[j] \ OnNode(n) /\ status'[j] = "running"
        BY <3>2, <1>0
      <4>3. \A g \in GPUs : owner'[g] = j <=> g \in alloc[j] \ OnNode(n)
        BY <3>2, <1>0 DEF OwnershipAgrees, TypeOK
      <4>4. QED
        BY <4>1, <4>2, <4>3 DEF Active
    <3>3. CASE j \notin impacted
      <4>1. alloc'[j] = alloc[j] /\ status'[j] = status[j]
        BY <3>3, <1>0
      <4>2. \A g \in GPUs : owner'[g] = j <=> owner[g] = j
        BY <3>3, <1>0 DEF TypeOK
      <4>3. QED
        BY <4>1, <4>2 DEF OwnershipAgrees
    <3>4. QED
      BY <3>1, <3>2, <3>3
  <2>2. QED
    BY <2>1 DEF OwnershipAgrees
<1>3. NoJobLost'
  BY DEF OwnershipAgrees, NoJobLost
<1>4. VictimsReturn'
  BY DEF TypeOK, VictimsReturn
<1>5. ReservationsSound'
  <2> HIDE DEF Fail, NextGeneration, Affected, OnNode, Holders, ReturnedVictims,
              TargetsWithout, DropReservations, jobVars, queueVars, eventVars,
              nodeVars, Usable, Active, Statuses
  <2>1. ASSUME NEW h \in Jobs, reserved'[h] # {}
        PROVE  /\ reserved'[h] = reserved[h] /\ h \notin Affected(n) /\ h \in pending'
               /\ \A g \in reserved[h] : g \notin OnNode(n)
    BY <2>1 DEF Fail, DropReservations, ReservationsSound, Affected, TypeOK
  <2>2. ASSUME NEW h \in Jobs, reserved'[h] # {}, NEW g \in reserved'[h]
        PROVE  /\ Usable(NodeOf[g])'
               /\ owner'[g] # None => status'[owner'[g]] = "checkpointing"
               /\ \A i \in Jobs \ {h} : g \notin reserved'[i]
    <3>1. /\ g \in GPUs /\ g \in reserved[h] /\ g \notin OnNode(n)
          /\ NodeOf[g] # n /\ NodeOf[g] \in Nodes
      BY <2>2, <2>1 DEF OnNode, TypeOK
    <3>2. Usable(NodeOf[g])'
      BY <3>1 DEF Fail, Usable, ReservationsSound, TypeOK
    <3>3. owner'[g] # None => status'[owner'[g]] = "checkpointing"
      <4>1. ASSUME owner'[g] # None
            PROVE  owner'[g] = owner[g] /\ owner[g] \in Jobs \ lost
        BY <3>1, <4>1, <1>0 DEF TypeOK
      <4>2. ASSUME owner'[g] # None
            PROVE  status'[owner'[g]] = "checkpointing"
        <5>1. status[owner[g]] = "checkpointing"
          BY <3>1, <4>1, <4>2 DEF ReservationsSound
        <5>2. QED
          BY <4>1, <4>2, <5>1, <1>0
      <4>3. QED
        BY <4>2
    <3>4. \A i \in Jobs \ {h} : g \notin reserved'[i]
      BY <3>1 DEF Fail, DropReservations, ReservationsSound, TypeOK
    <3>5. QED
      BY <3>2, <3>3, <3>4
  <2>3. QED
    BY <2>1, <2>2 DEF ReservationsSound
<1>6. NoLostCapacityInUse'
  BY DEF NoLostCapacityInUse
<1>7. ActiveJobHasEvent'
  BY DEF ActiveJobHasEvent
<1>8. EventsFenced'
  BY DEF TypeOK, EventsFenced
<1>9. QED
  BY <1>1, <1>2, <1>3, <1>4, <1>5, <1>6, <1>7, <1>8

\* Every step keeps the invariant.
LEMMA NextIInv == IInv /\ [Next]_vars => IInv'
<1> SUFFICES ASSUME IInv, [Next]_vars
             PROVE  IInv'
  OBVIOUS
<1>1. CASE UNCHANGED vars
  BY <1>1 DEF vars, jobVars, queueVars, eventVars, nodeVars, IInv, TypeOK, OwnershipAgrees,
     NoJobLost, VictimsReturn, ReservationsSound, Usable, NoLostCapacityInUse,
     ActiveJobHasEvent, EventsFenced
<1>2. CASE \E j \in Jobs : Arrive(j)
  BY <1>2, ArrivePreserves
<1>3. CASE \E j \in pending : \E P \in SUBSET PlaceableAfter(j, {}) : Start(j, P)
  BY <1>3, StartPreserves
<1>4. CASE \E j \in Jobs : CompleteRestart(j)
  BY <1>4, CompleteRestartPreserves
<1>5. CASE \E j \in Jobs : Complete(j)
  BY <1>5, CompletePreserves
<1>6. CASE \E j \in Jobs : CompleteCheckpoint(j)
  BY <1>6, CompleteCheckpointPreserves
<1>7. CASE \E j \in Jobs : DropStale(j)
  BY <1>7, DropStalePreserves
<1>8. CASE \E h \in pending : \E V \in SUBSET {v \in Jobs : status[v] = "running"} :
             \E P \in SUBSET PlaceableAfter(h, V) : Preempt(h, V, P)
  BY <1>8, PreemptPreserves
<1>9. CASE \E h \in Jobs : GiveUpReservation(h)
  BY <1>9, GiveUpReservationPreserves
<1>10. CASE \E j \in Jobs : \E P \in SUBSET Compatible[j] : Resize(j, P)
  BY <1>10, ResizePreserves
<1>11. CASE \E n \in Nodes : Restore(n)
  BY <1>11, RestorePreserves
<1>12. CASE \E n \in Nodes : Drain(n)
  BY <1>12, DrainPreserves
<1>13. CASE \E n \in Nodes : Fail(n)
  BY <1>13, FailPreserves
<1>14. QED
  BY <1>1, <1>2, <1>3, <1>4, <1>5, <1>6, <1>7, <1>8, <1>9, <1>10, <1>11, <1>12, <1>13 DEF Next

\* The invariant holds in every reachable state.
LEMMA Invariance == Spec => []IInv
  BY InitIInv, NextIInv, PTL DEF Spec

\* Every variable of the simulator's state keeps its type.
THEOREM TypeCorrect == Spec => []TypeOK
  BY Invariance, PTL DEF IInv

\* GPU.owner_job_id and Job.allocated_gpu_ids never disagree, whatever starts, resizes,
\* preemptions and node failures come in whatever order: Cluster.release and
\* Cluster.resize never find a GPU that belongs to somebody else.
THEOREM OwnershipTheorem == Spec => []OwnershipAgrees
  BY Invariance, PTL DEF IInv

\* An admitted job that holds no GPU is in exactly one of Simulator.pending and
\* _suspended_victims.
THEOREM NoJobLostTheorem == Spec => []NoJobLost
  BY Invariance, PTL DEF IInv

\* A suspended victim always has a queued target whose reservation will release it.
THEOREM VictimsReturnTheorem == Spec => []VictimsReturn
  BY Invariance, PTL DEF IInv

\* Temporary reservations are disjoint, belong to queued jobs and cover only usable
\* GPUs that are free or being vacated by a checkpoint.
THEOREM ReservationTheorem == Spec => []ReservationsSound
  BY Invariance, PTL DEF IInv

\* No job holds a GPU of a node that failed or was revoked.
THEOREM CapacityTheorem == Spec => []NoLostCapacityInUse
  BY Invariance, PTL DEF IInv

\* The event that ends the present phase of an active job is always queued.
THEOREM LiveEventTheorem == Spec => []ActiveJobHasEvent
  BY Invariance, PTL DEF IInv

\* run_generation fences off the events of earlier phases.
THEOREM FencingTheorem == Spec => []EventsFenced
  BY Invariance, PTL DEF IInv
=============================================================================
