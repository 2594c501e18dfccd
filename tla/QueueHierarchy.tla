---------------------------- MODULE QueueHierarchy ----------------------------
(***************************************************************************)
(* The tree of queues with their guarantees and limits (queues/hierarchy.py*)
(* queues/model.py): which ancestors a queue charges, and when a demand may*)
(* be allocated. A resource vector is a function of the two dimensions.    *)
(* Fractions of GPU units are counted in a unit small enough to be whole.  *)
(***************************************************************************)
EXTENDS Integers, Sequences, FiniteSets

CONSTANTS
  Queues,       \* queue ids, integers in the order of the id strings
  Root,         \* "root"
  Parent,       \* [Queues -> Queues], QueueSpec.parent; the root is its own parent here
  Path,         \* [Queues -> Seq(Queues)], ancestors(q): from q up to the root
  Guarantee,    \* [Queues -> guarantee of each dimension in guaranteed_dimensions]
  Limit,        \* [Queues -> limit of each dimension that has one]
  NoBorrowing   \* queues with borrowing_enabled = false

Dims == {"gpu_units", "gpu_memory_gb"}
Vectors == [Dims -> Nat]
Zero == [d \in Dims |-> 0]
Plus(u, v) == [d \in Dims |-> u[d] + v[d]]

Ancestors(q) == {Path[q][i] : i \in DOMAIN Path[q]}
Children(q) == {c \in Queues \ {Root} : Parent[c] = q}

\* A guarantee or limit gives a number for some of the dimensions.
IsQuota(v) == DOMAIN v \subseteq Dims /\ \A d \in DOMAIN v : v[d] \in Nat

\* _validate_acyclic: the parents lead from every queue to the root.
IsTree ==
  /\ Parent[Root] = Root /\ Path[Root] = <<Root>>
  /\ \A q \in Queues \ {Root} : Path[q] = <<q>> \o Path[Parent[q]]

\* What the loader accepts: a tree; a guarantee within the limit.
ASSUME HierarchyAssumption ==
  /\ IsFiniteSet(Queues) /\ Root \in Queues
  /\ Parent \in [Queues -> Queues] /\ Path \in [Queues -> Seq(Queues)]
  /\ IsTree
  /\ \A q \in Queues : IsQuota(Guarantee[q]) /\ IsQuota(Limit[q])
  /\ \A q \in Queues : \A d \in DOMAIN Guarantee[q] \cap DOMAIN Limit[q] :
       Guarantee[q][d] <= Limit[q][d]
  /\ NoBorrowing \subseteq Queues

-----------------------------------------------------------------------------
(* can_allocate, for the aggregate usage of every queue.                   *)

FitsLimit(q, usage) == \A d \in DOMAIN Limit[q] : usage[d] <= Limit[q][d]

HasGuarantee(q) == DOMAIN Guarantee[q] # {}
WithinGuarantee(q, usage) == \A d \in DOMAIN Guarantee[q] : usage[d] <= Guarantee[q][d]

MayBorrow(q) == Ancestors(q) \cap NoBorrowing = {}

\* Within every limit, and either within every guarantee on the way to the root or
\* borrowed, if the caller and every queue on the way allow it.
CanAllocate(q, demand, usage, borrowing) ==
  /\ \A a \in Ancestors(q) : FitsLimit(a, Plus(usage[a], demand))
  /\ \/ /\ \E a \in Ancestors(q) : HasGuarantee(a)
        /\ \A a \in Ancestors(q) : HasGuarantee(a) => WithinGuarantee(a, Plus(usage[a], demand))
     \/ borrowing /\ MayBorrow(q)
=============================================================================
