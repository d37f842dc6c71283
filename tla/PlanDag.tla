------------------------------- MODULE PlanDag -------------------------------
(***************************************************************************)
(* The validation of an investigation plan (agent/dag_validator.py), which *)
(* the planner runs before it returns one: checks of size, references and  *)
(* fan-out, then Kahn's algorithm with the longest path to every task.     *)
(*                                                                         *)
(* A plan is a function from its tasks to their prerequisites.  The        *)
(* counter in_degree of a task is kept as the set of prerequisites that    *)
(* are not yet visited, and the queue as a set: whatever order its tasks   *)
(* are taken in, first in first out is one of them.  Equal task ids and    *)
(* the bound on concurrency are properties of the list that the function   *)
(* does not show; they come with the plan.  The set of error codes is      *)
(* reduced to whether the plan is refused.                                 *)
(***************************************************************************)
EXTENDS Integers, FiniteSets

CONSTANTS DgPlans,      \* plans that are validated
          DgMaxTasks,   \* 20
          DgMaxWidth,   \* 8, for the roots and for the dependents of a task
          DgMaxDepth    \* 4

ASSUME DgPlansAssumption == \A plan \in DgPlans : /\ plan = [t \in DOMAIN plan |-> plan[t]]
                                                  /\ IsFiniteSet(DOMAIN plan)
ASSUME DgBoundsAssumption == DgMaxDepth \in Nat /\ DgMaxWidth \in Nat /\ DgMaxTasks \in Nat

VARIABLES dgPlan,       \* the plan under validation
          dgVerdict,    \* "none", "running", "valid" or "refused"
          dgQueue,      \* queue
          dgVisited,    \* the tasks that visited_count counts
          dgPending,    \* in_degree
          dgDepth       \* depth, 1 for a task that has none yet

dgVars == <<dgPlan, dgVerdict, dgQueue, dgVisited, dgPending, dgDepth>>

DgNoPlan == [t \in {} |-> {}]

DgInit == /\ dgPlan = DgNoPlan
          /\ dgVerdict = "none"
          /\ dgQueue = {}
          /\ dgVisited = {}
          /\ dgPending = DgNoPlan
          /\ dgDepth = DgNoPlan

DgDependents(plan, t) == {u \in DOMAIN plan : t \in plan[u]}
DgRoots(plan) == {t \in DOMAIN plan : plan[t] = {}}

\* The checks before the sort: size, references to itself or to nothing, and fan-out.
DgWellFormed(plan) ==
    /\ DOMAIN plan # {}
    /\ Cardinality(DOMAIN plan) <= DgMaxTasks
    /\ \A t \in DOMAIN plan : plan[t] \subseteq DOMAIN plan \ {t}
    /\ \A t \in DOMAIN plan : Cardinality(DgDependents(plan, t)) <= DgMaxWidth
    /\ Cardinality(DgRoots(plan)) <= DgMaxWidth

\* A plan is submitted to a validation that has not begun; listed says whether its ids and its
\* concurrency are in order.
DgSubmit(plan, listed) ==
    /\ dgPlan' = plan
    /\ dgVisited' = {}
    /\ dgPending' = plan
    /\ dgDepth' = [t \in DOMAIN plan |-> 1]
    /\ IF listed /\ DgWellFormed(plan)
       THEN dgVerdict' = "running" /\ dgQueue' = DgRoots(plan)
       ELSE dgVerdict' = "refused" /\ dgQueue' = {}

DgDeeper(t, u) == IF dgDepth[u] < dgDepth[t] + 1 THEN dgDepth[t] + 1 ELSE dgDepth[u]

\* A task is taken from the queue: its dependents get deeper and lose a prerequisite, those
\* that lose their last are queued; a depth beyond the limit refuses the plan at once.
DgVisit(t) ==
    LET dependents == DgDependents(dgPlan, t)
    IN /\ dgVerdict = "running"
       /\ t \in dgQueue
       /\ dgVisited' = dgVisited \cup {t}
       /\ dgDepth' = [u \in DOMAIN dgPlan |-> IF u \in dependents THEN DgDeeper(t, u) ELSE dgDepth[u]]
       /\ dgPending' = [u \in DOMAIN dgPlan |-> dgPending[u] \ {t}]
       /\ dgQueue' = (dgQueue \ {t}) \cup {u \in dependents : dgPending[u] = {t}}
       /\ dgVerdict' = IF dgDepth[t] > DgMaxDepth \/ \E u \in dependents : DgDeeper(t, u) > DgMaxDepth
                       THEN "refused" ELSE "running"
       /\ UNCHANGED dgPlan

\* Mutant: an empty queue is taken for a complete order.
DgNoCycle == dgQueue = {}

\* Every task has been visited.
DgComplete == dgVisited = DOMAIN dgPlan

\* The queue is empty: tasks that were never queued are on, or behind, a cycle.
DgDecide ==
    /\ dgVerdict = "running"
    /\ dgQueue = {}
    /\ dgVerdict' = IF DgComplete THEN "valid" ELSE "refused"
    /\ UNCHANGED <<dgPlan, dgQueue, dgVisited, dgPending, dgDepth>>

DgNext == \/ dgVerdict = "none" /\ \E plan \in DgPlans, listed \in BOOLEAN : DgSubmit(plan, listed)
          \/ \E t \in dgQueue : DgVisit(t)
          \/ DgDecide

DgSpec == DgInit /\ [][DgNext]_dgVars

-----------------------------------------------------------------------------
DgTypeOK == /\ IsFiniteSet(DOMAIN dgPlan)
            /\ dgVerdict \in {"none", "running", "valid", "refused"}
            /\ dgQueue \subseteq DOMAIN dgPlan
            /\ dgVisited \subseteq DOMAIN dgPlan
            /\ dgPending \in [DOMAIN dgPlan -> SUBSET UNION {dgPlan[t] : t \in DOMAIN dgPlan}]
            /\ dgDepth \in [DOMAIN dgPlan -> 1..(DgMaxDepth + 2)]

\* No set of tasks keeps itself waiting.
DgAcyclic(plan) == \A S \in SUBSET DOMAIN plan : S # {} => \E t \in S : plan[t] \cap S = {}

\* The tasks can be put in levels 1..DgMaxDepth, each after its prerequisites.
DgLayers(plan) == {level \in [DOMAIN plan -> 1..DgMaxDepth] :
                      \A t \in DOMAIN plan : \A u \in plan[t] : level[u] < level[t]}
DgShallow(plan) == DgLayers(plan) # {}

\* An accepted plan has no cycle and no chain of prerequisites longer than the limit.
DgAcceptedIsSound ==
    dgVerdict = "valid" => DgWellFormed(dgPlan) /\ DgAcyclic(dgPlan) /\ DgShallow(dgPlan)

\* The verdict is the one the definitions of cycle and depth give, in whatever order the queue
\* is served and whether or not part of the plan was visited, or found too deep, before: what
\* is accepted is sound, and a well-formed plan is refused only if it has a cycle or is too
\* deep (dag_validator.py:34-194).
DgVerdictIsRight ==
    /\ DgAcceptedIsSound
    /\ dgVerdict = "refused" /\ dgVisited # {} => ~(DgAcyclic(dgPlan) /\ DgShallow(dgPlan))
=============================================================================
