----------------------------- MODULE QuotaLedger -----------------------------
(***************************************************************************)
(* What the queue hierarchy promises, whatever the scheduler, the jobs and *)
(* the fleet do: usage grows only by grants that can_allocate accepts, one *)
(* at a time, and shrinks in any way. FairShareEngine implements it with   *)
(* the usage of the GPUs that jobs really hold.                            *)
(***************************************************************************)
EXTENDS QueueHierarchy

VARIABLE usage  \* aggregate usage of each queue, its descendants included

Init == usage = [q \in Queues |-> Zero]

\* A job of queue q is placed, or an elastic one grows: every ancestor is charged with
\* what it takes (hierarchy.py, aggregate_usage).
Grant(q) ==
  LET demand == [d \in Dims |-> usage'[q][d] - usage[q][d]] IN
  /\ demand \in Vectors
  /\ CanAllocate(q, demand, usage, TRUE)
  /\ usage' = [a \in Queues |-> IF a \in Ancestors(q) THEN Plus(usage[a], demand) ELSE usage[a]]

\* Completions, evictions, shrinks and lost nodes give capacity back.
Return ==
  /\ usage' \in [Queues -> Vectors]
  /\ \A q \in Queues : \A d \in Dims : usage'[q][d] <= usage[q][d]

Next ==
  \/ Return
  \/ \E q \in Queues : Grant(q)

Spec == Init /\ [][Next]_usage

-----------------------------------------------------------------------------
\* Usage is a vector for every queue.
TypeOK == usage \in [Queues -> Vectors]

\* No queue exceeds its limit, however its descendants share it, and a queue that may
\* not borrow stays within its guarantee, if it has one (hierarchy.py:81-106).
QuotasRespected ==
  \A q \in Queues :
    /\ FitsLimit(q, usage[q])
    /\ q \in NoBorrowing /\ HasGuarantee(q) => WithinGuarantee(q, usage[q])
=============================================================================
