-------------------------- MODULE ActionSagaProofs --------------------------
(***************************************************************************)
(* Proofs about ActionSaga for every number of steps, inquiries and runs.  *)
(***************************************************************************)
EXTENDS ActionSaga, TLAPS

-----------------------------------------------------------------------------
(* The inductive invariant: which steps this execution has in effect at    *)
(* each place of the coroutine, and when it has returned.                  *)

\* This execution has put exactly its first d steps into effect.
Applied(d) == \A k \in Steps : applied[k] = before[k] + (IF k <= d THEN 1 ELSE 0)

\* The steps that the compensation has not undone.
Remaining == IF Halted THEN Cursor + 1 ELSE Cursor

Returned ==
    /\ result /= "none"
    /\ result = "SUCCESS" => Applied(StepCount)
    /\ result = "RECONCILED" /\ inquiry = "step" => Applied(Current) /\ completed < StepCount
    /\ result \in {"FAILED_NO_DISPATCH", "ERR_IRREVERSIBLE_MANUAL_REQUIRED"} => Applied(completed)
    /\ result = "ERR_STEP_FAILED_COMPENSATED" => Applied(Remaining) /\ (Halted \/ Cursor = 0)

Inductive ==
    /\ TypeOK
    /\ pc /= "over" => result = "none"
    /\ pc = "forward" => Applied(completed) /\ executed = <<>>  /\ attempts = 0
    /\ pc = "compensating" => Applied(Remaining) /\ classification /= "IRREVERSIBLE"
    /\ pc = "inquiring" => /\ completed < StepCount
                           /\ Applied(completed) \/ Applied(Current)
                           /\ attempts < MaxAttempts
    /\ pc = "over" => Returned
    /\ escalated = IF result = "ERR_RECONCILIATION_REQUIRED" THEN 1 ELSE 0

-----------------------------------------------------------------------------
(* Lemmas.                                                                 *)

\* What has been applied once more than before is what this execution has in effect.
LEMMA Prefix ==
    ASSUME NEW a \in [Steps -> Nat], NEW b \in [Steps -> Nat], NEW d \in 0..StepCount,
           \A k \in Steps : a[k] = b[k] + (IF k <= d THEN 1 ELSE 0)
    PROVE  {k \in Steps : a[k] > b[k]} = 1..d
<1>1. \A k \in Steps : a[k] > b[k] <=> k <= d
  OBVIOUS
<1>2. 1..d \subseteq Steps
  BY BoundsAssumption DEF Steps
<1> QED
  BY <1>1, <1>2, BoundsAssumption DEF Steps

\* A compensation record is appended to those there are.
LEMMA Recorded ==
    ASSUME NEW e \in {"COMPLETED", "FAILED_MANUAL_REQUIRED"},
           executed \in Seq({"COMPLETED", "FAILED_MANUAL_REQUIRED"}),
           executed' = Append(executed, e)
    PROVE  /\ executed' \in Seq({"COMPLETED", "FAILED_MANUAL_REQUIRED"})
           /\ Len(executed') = Len(executed) + 1
           /\ Halted' <=> Halted \/ e = "FAILED_MANUAL_REQUIRED"
<1>1. Len(executed) \in Nat /\ DOMAIN executed = 1..Len(executed)
  OBVIOUS
<1>2. Len(executed') = Len(executed) + 1 /\ DOMAIN executed' = 1..(Len(executed) + 1)
  BY <1>1
<1>3. executed'[Len(executed) + 1] = e
  BY <1>1
<1>4. \A i \in 1..Len(executed) : executed'[i] = executed[i]
  BY <1>1
<1> QED
  BY <1>1, <1>2, <1>3, <1>4 DEF Halted

\* Without records nothing is halted.
LEMMA Unrecorded == executed = <<>> => ~Halted /\ Len(executed) = 0
  BY DEF Halted

\* As long as nothing is undone or done, the same steps are in effect.
LEMMA Unchanged ==
    ASSUME NEW d, Applied(d), UNCHANGED <<applied, before>>
    PROVE  Applied(d)'
  BY DEF Applied

-----------------------------------------------------------------------------
(* The invariant is inductive.                                             *)

LEMMA Initially == Init => Inductive
<1> SUFFICES ASSUME Init PROVE Inductive
  OBVIOUS
<1>1. TypeOK
  <2>1. executed \in Seq({"COMPLETED", "FAILED_MANUAL_REQUIRED"}) /\ Len(executed) = 0
    BY DEF Init
  <2>2. applied \in [Steps -> Nat] /\ before \in [Steps -> Nat]
    BY DEF Init
  <2> QED
    BY <2>1, <2>2, BoundsAssumption DEF Init, TypeOK, Results
<1>2. Applied(completed)
  BY DEF Init, Applied, Steps
<1> QED
  BY <1>1, <1>2 DEF Init, Inductive

LEMMA Step ==
    ASSUME Inductive, [Next]_vars
    PROVE  Inductive'
<1> USE BoundsAssumption
<1>0. TypeOK
  BY DEF Inductive
<1>1. CASE StepCompletes
  <2>1. TypeOK'
    <3>1. completed' \in 0..StepCount /\ Current \in Steps
      BY <1>0, <1>1 DEF StepCompletes, TypeOK, Current, Steps
    <3>2. applied' \in [Steps -> Nat]
      BY <1>0, <1>1, <3>1 DEF StepCompletes, TypeOK
    <3>3. Len(executed) \in Nat /\ executed' = executed /\ completed' = completed + 1
      BY <1>0, <1>1 DEF StepCompletes, TypeOK
    <3>4. Len(executed') <= completed'
      BY <1>0, <3>3 DEF TypeOK
    <3> QED
      BY <1>0, <1>1, <3>1, <3>2, <3>4 DEF StepCompletes, TypeOK, setting
  <2>2. Applied(completed)'
    BY <1>0, <1>1 DEF Inductive, StepCompletes, TypeOK, Applied, Current, Steps, setting
  <2> QED
    BY <1>1, <2>1, <2>2 DEF Inductive, StepCompletes, setting
<1>2. CASE StepTimesOut
  <2>1. TypeOK'
    <3>1. Current \in Steps
      BY <1>0, <1>2 DEF StepTimesOut, TypeOK, Current, Steps
    <3>2. applied \in [Steps -> Nat] /\ [applied EXCEPT ![Current] = @ + 1] \in [Steps -> Nat]
      BY <1>0, <3>1 DEF TypeOK
    <3>3. applied' \in [Steps -> Nat]
      BY <1>2, <3>2 DEF StepTimesOut
    <3> QED
      BY <1>0, <1>2, <3>3 DEF StepTimesOut, TypeOK, setting
  <2>2. Applied(completed)' \/ Applied(Current)'
    <3>1. CASE applied' = applied
      BY <1>2, <3>1 DEF Inductive, StepTimesOut, Applied, setting
    <3>2. CASE applied' = [applied EXCEPT ![Current] = @ + 1]
      BY <1>0, <1>2, <3>2 DEF Inductive, StepTimesOut, TypeOK, Applied, Current, Steps, setting
    <3> QED
      BY <1>2, <3>1, <3>2 DEF StepTimesOut
  <2> QED
    BY <1>2, <2>1, <2>2 DEF Inductive, StepTimesOut, setting
<1>3. CASE StepFails
  <2>1. TypeOK'
    BY <1>0, <1>3 DEF StepFails, TypeOK, Return, Results, setting
  <2>2. Applied(completed)' /\ executed' = <<>>
    BY <1>3 DEF Inductive, StepFails, Applied, setting
  <2>3. ~Halted' /\ Remaining' = completed'
    BY <1>0, <1>3, <2>2, Unrecorded DEF StepFails, TypeOK, Remaining, Cursor, Halted
  <2> QED
    BY <1>3, <2>1, <2>2, <2>3 DEF Inductive, StepFails, Return, Returned, setting
<1>4. CASE AllStepsSucceed
  <2>1. TypeOK'
    BY <1>0, <1>4 DEF AllStepsSucceed, TypeOK, Return, Results, setting
  <2>2. Applied(StepCount)'
    BY <1>4 DEF Inductive, AllStepsSucceed, Applied, setting
  <2> QED
    BY <1>4, <2>1, <2>2 DEF Inductive, AllStepsSucceed, Return, Returned, setting
<1>5. CASE StepCompensated
  <2>1. /\ executed' \in Seq({"COMPLETED", "FAILED_MANUAL_REQUIRED"})
        /\ Len(executed') = Len(executed) + 1
        /\ ~Halted'
    BY <1>0, <1>5, Recorded DEF StepCompensated, TypeOK
  <2>2. Cursor \in Steps /\ Cursor' = Cursor - 1
    BY <1>0, <1>5, <2>1 DEF StepCompensated, TypeOK, Cursor, Steps, setting
  <2>3. Applied(Cursor)
    BY <1>5 DEF Inductive, StepCompensated, Remaining
  <2>4. applied[Cursor] > 0
    BY <1>0, <2>2, <2>3 DEF Applied, TypeOK, Steps
  <2>5. TypeOK'
    <3>1. applied' \in [Steps -> Nat]
      BY <1>0, <1>5, <2>2, <2>4 DEF StepCompensated, TypeOK
    <3>2. Len(executed') <= completed'
      BY <1>0, <1>5, <2>1 DEF StepCompensated, TypeOK, Cursor
    <3> QED
      BY <1>0, <1>5, <2>1, <3>1, <3>2 DEF StepCompensated, TypeOK, setting
  <2>6. Applied(Remaining)'
    <3>1. Remaining' = Cursor - 1
      BY <2>1, <2>2 DEF Remaining
    <3>2. ASSUME NEW k \in Steps
          PROVE applied'[k] = before'[k] + (IF k <= Cursor - 1 THEN 1 ELSE 0)
      BY <1>0, <1>5, <2>2, <2>3 DEF StepCompensated, TypeOK, Applied, Steps, setting
    <3> QED
      BY <3>1, <3>2 DEF Applied
  <2> QED
    BY <1>5, <2>5, <2>6 DEF Inductive, StepCompensated, setting
<1>6. CASE CompensationFails
  <2>1. /\ executed' \in Seq({"COMPLETED", "FAILED_MANUAL_REQUIRED"})
        /\ Len(executed') = Len(executed) + 1
        /\ Halted'
    BY <1>0, <1>6, Recorded DEF CompensationFails, TypeOK
  <2>2. Cursor' = Cursor - 1 /\ Remaining' = Cursor
    BY <1>0, <1>6, <2>1 DEF CompensationFails, TypeOK, Cursor, Remaining, setting
  <2>3. Applied(Cursor)
    BY <1>6 DEF Inductive, CompensationFails, Remaining
  <2>4. TypeOK'
    BY <1>0, <1>6, <2>1 DEF CompensationFails, TypeOK, Cursor, setting
  <2>5. Applied(Remaining)'
    BY <1>6, <2>2, <2>3 DEF CompensationFails, Applied, setting
  <2> QED
    BY <1>6, <2>4, <2>5 DEF Inductive, CompensationFails, setting
<1>7. CASE CompensationReturns
  <2>1. TypeOK'
    BY <1>0, <1>7 DEF CompensationReturns, TypeOK, Return, Results, setting
  <2>2. UNCHANGED <<executed, completed, applied, before>>
    BY <1>7 DEF CompensationReturns, setting
  <2>3. Applied(Remaining)' /\ (Halted \/ Cursor = 0)'
    BY <1>7, <2>2 DEF Inductive, CompensationReturns, Applied, Remaining, Halted, Cursor
  <2> QED
    BY <1>7, <2>1, <2>3 DEF Inductive, CompensationReturns, Return, Returned, setting
<1>8. CASE Confirmed
  <2>1. TypeOK'
    BY <1>0, <1>8 DEF Inductive, Confirmed, TypeOK, Return, Results, setting
  <2>2. inquiry = "step" => Applied(Current)
    BY <1>0, <1>8 DEF Inductive, Confirmed, Known, TypeOK, Applied, Current, Steps
  <2>3. inquiry' = "step" => Applied(Current)' /\ completed' < StepCount
    BY <1>8, <2>2 DEF Inductive, Confirmed, Applied, Current, setting
  <2> QED
    BY <1>8, <2>1, <2>3 DEF Inductive, Confirmed, Return, Returned, setting
<1>9. CASE NoRecord
  <2>1. TypeOK'
    BY <1>0, <1>9 DEF Inductive, NoRecord, TypeOK, Return, Results, setting
  <2>2. Applied(completed)
    <3>1. /\ Applied(completed) \/ Applied(Current)
          /\ completed \in Nat /\ Current \in Steps /\ Current = completed + 1
      BY <1>0, <1>9 DEF Inductive, NoRecord, TypeOK, Current, Steps
    <3>2. applied[Current] \in Nat /\ before[Current] \in Nat
      BY <1>0, <3>1 DEF TypeOK
    <3>3. applied[Current] = 0 \/ applied[Current] <= before[Current]
      BY <1>0, <1>9, <3>1, <3>2 DEF NoRecord, Known, TypeOK
    <3>4. ~Applied(Current)
      BY <3>1, <3>2, <3>3 DEF Applied
    <3> QED
      BY <3>1, <3>4
  <2>3. Applied(completed)'
    BY <1>9, <2>2 DEF NoRecord, Applied, setting
  <2> QED
    BY <1>9, <2>1, <2>3 DEF Inductive, NoRecord, Return, Returned, setting
<1>10. CASE Inconclusive
  <2>1. TypeOK'
    BY <1>0, <1>10 DEF Inductive, Inconclusive, TypeOK, Return, Results, setting
  <2>2. Applied(completed)' \/ Applied(Current)'
    BY <1>10 DEF Inductive, Inconclusive, Applied, Current, setting
  <2> QED
    BY <1>0, <1>10, <2>1, <2>2 DEF Inductive, Inconclusive, TypeOK, Return, Returned, setting
<1>11. CASE Retry
  <2>1. TypeOK'
    BY <1>0, <1>11 DEF Retry, TypeOK, Results
  <2>2. Applied(completed)'
    BY <1>0, <1>11 DEF Retry, TypeOK, Applied, Steps
  <2> QED
    BY <1>11, <2>1, <2>2 DEF Inductive, Retry
<1>12. CASE UNCHANGED vars
  BY <1>12 DEF Inductive, vars, setting, TypeOK, Returned, Applied, Remaining, Halted, Cursor, Current
<1> QED
  BY <1>1, <1>2, <1>3, <1>4, <1>5, <1>6, <1>7, <1>8, <1>9, <1>10, <1>11, <1>12 DEF Next, Run

LEMMA Invariance == Spec => []Inductive
  BY Initially, Step, PTL DEF Spec

-----------------------------------------------------------------------------
(* What follows from it.                                                   *)

\* Types are kept: at most MaxAttempts inquiries, at most one compensation for each
\* completed step (reconciliation.py:80, workflow.py:128).
THEOREM TypeCorrect == Spec => []TypeOK
<1>1. Inductive => TypeOK
  BY DEF Inductive
<1> QED
  BY <1>1, Invariance, PTL

\* The returned record tells what stands at the provider (workflow.py:207-266,
\* reconciliation.py:98-170).
THEOREM ReportsTrue == Spec => []ReportsAreTrue
<1>1. ASSUME Inductive PROVE ReportsAreTrue
  <2> USE BoundsAssumption
  <2>1. TypeOK
    BY <1>1 DEF Inductive
  <2>2. ASSUME NEW d \in 0..StepCount, Applied(d) PROVE Effects = 1..d
    <3>1. applied \in [Steps -> Nat] /\ before \in [Steps -> Nat]
      BY <2>1 DEF TypeOK
    <3>2. \A k \in Steps : applied[k] = before[k] + (IF k <= d THEN 1 ELSE 0)
      BY <2>2 DEF Applied
    <3> HIDE BoundsAssumption
    <3> QED
      BY <3>1, <3>2, Prefix DEF Effects
  <2>3. CASE result = "none"
    BY <1>1, <2>3 DEF Inductive, ReportsAreTrue
  <2>4. CASE result /= "none"
    <3>1. Returned
      BY <1>1, <2>4 DEF Inductive
    <3>2. result = "SUCCESS" => Effects = Steps
      BY <2>2, <3>1 DEF Returned, Steps
    <3>3. result = "RECONCILED" /\ inquiry = "step" => Effects = 1..Current
      BY <2>1, <2>2, <3>1 DEF Returned, Current, TypeOK
    <3>4. result \in {"FAILED_NO_DISPATCH", "ERR_IRREVERSIBLE_MANUAL_REQUIRED"} => Effects = 1..completed
      BY <2>1, <2>2, <3>1 DEF Returned, TypeOK
    <3>5. CASE result = "ERR_STEP_FAILED_COMPENSATED"
      <4>1. Halted => Len(executed) > 0
        BY <2>1 DEF Halted, TypeOK
      <4>2. Remaining \in 0..StepCount
        BY <2>1, <4>1 DEF Remaining, Cursor, TypeOK
      <4>3. Effects = 1..Remaining
        BY <2>2, <3>1, <3>5, <4>2 DEF Returned
      <4>4. Effects = IF Halted THEN 1..(Cursor + 1) ELSE {}
        BY <3>1, <3>5, <4>3 DEF Returned, Remaining
      <4> QED
        BY <1>1, <3>5, <4>4 DEF Inductive, ReportsAreTrue
    <3> QED
      BY <1>1, <3>2, <3>3, <3>4, <3>5 DEF Inductive, ReportsAreTrue
  <2> QED
    BY <2>3, <2>4
<1> QED
  BY <1>1, Invariance, PTL

\* An irreversible action is never undone (workflow.py:103-123): no compensation
\* is under way.
THEOREM IrreversibleKept == Spec => IrreversibleStands
<1>1. ASSUME Inductive, [Next]_vars, classification = "IRREVERSIBLE", NEW k \in Steps
      PROVE  applied'[k] >= applied[k]
  <2>1. applied \in [Steps -> Nat] /\ Current \in Nat /\ pc /= "compensating"
    BY <1>1 DEF Inductive, TypeOK, Current
  <2>2. \/ applied' = applied
        \/ applied' = [applied EXCEPT ![Current] = @ + 1]
    BY <1>1, <2>1 DEF Next, Run, vars, StepCompletes, StepTimesOut, StepFails, AllStepsSucceed,
       StepCompensated, CompensationFails, CompensationReturns, Confirmed, NoRecord, Inconclusive, Retry
  <2> QED
    BY <2>1, <2>2
<1>2. Inductive /\ [Next]_vars
      => [classification = "IRREVERSIBLE" => \A k \in Steps : applied'[k] >= applied[k]]_vars
  BY <1>1
<1> QED
  BY <1>2, Invariance, PTL DEF Spec, IrreversibleStands

\* Every step of the saga is a step of SagaContract, or none at all: forward in
\* order, backwards in reverse order, nothing after a doubt or a return.
LEMMA StepHonours ==
    ASSUME Inductive, Inductive', [Next]_vars
    PROVE  [Abstract!Act]_(Abstract!contractVars)
<1> USE BoundsAssumption
<1>0. TypeOK /\ TypeOK'
  BY DEF Inductive
<1>1. ASSUME NEW d \in 0..StepCount, Applied(d) PROVE Effects = 1..d
  <2>1. applied \in [Steps -> Nat] /\ before \in [Steps -> Nat]
    BY <1>0 DEF TypeOK
  <2>2. \A k \in Steps : applied[k] = before[k] + (IF k <= d THEN 1 ELSE 0)
    BY <1>1 DEF Applied
  <2> HIDE BoundsAssumption
  <2> QED
    BY <2>1, <2>2, Prefix DEF Effects
<1>2. ASSUME NEW d \in 0..StepCount, Applied(d)' PROVE Effects' = 1..d
  <2>1. applied' \in [Steps -> Nat] /\ before' \in [Steps -> Nat]
    BY <1>0 DEF TypeOK
  <2>2. \A k \in Steps : applied'[k] = before'[k] + (IF k <= d THEN 1 ELSE 0)
    BY <1>2 DEF Applied
  <2> HIDE BoundsAssumption
  <2> QED
    BY <2>1, <2>2, Prefix DEF Effects
<1>3. UNCHANGED <<applied, before>> => Effects' = Effects
  BY DEF Effects
<1>4. CASE StepCompletes
  <2>1. Current \in 1..StepCount /\ completed \in 0..StepCount /\ completed' = Current /\ completed = Current - 1
    BY <1>0, <1>4 DEF StepCompletes, TypeOK, Current
  <2>2. Effects = 1..(Current - 1) /\ Effects' = 1..Current
    BY <1>1, <1>2, <1>4, <2>1 DEF Inductive, StepCompletes
  <2>3. Abstract!Advance(Current)
    BY <1>4, <2>2 DEF StepCompletes, Abstract!Advance
  <2> QED
    BY <2>1, <2>3 DEF Abstract!Act
<1>5. CASE StepTimesOut
  <2>1. Current \in 1..StepCount /\ completed \in 0..StepCount /\ completed = Current - 1 /\ completed' = completed /\ Current' = Current
    BY <1>0, <1>5 DEF StepTimesOut, TypeOK, Current
  <2>2. Effects = 1..(Current - 1)
    BY <1>1, <1>5, <2>1 DEF Inductive, StepTimesOut
  <2>3. pc' = "inquiring"
    BY <1>5 DEF StepTimesOut
  <2>4. Applied(completed)' \/ Applied(Current)'
    BY <2>3 DEF Inductive
  <2>5. Effects' \in {1..(Current - 1), 1..Current}
    <3>1. ASSUME Applied(completed)' PROVE Effects' = 1..(Current - 1)
      <4>1. \A k \in Steps : applied'[k] = before'[k] + (IF k <= completed THEN 1 ELSE 0)
        BY <2>1, <3>1 DEF Applied
      <4>2. applied' \in [Steps -> Nat] /\ before' \in [Steps -> Nat] /\ completed \in 0..StepCount
        BY <1>0, <2>1 DEF TypeOK
      <4>3. Effects' = 1..completed
        BY <4>1, <4>2, Prefix DEF Effects
      <4> QED
        BY <2>1, <4>3
    <3>2. ASSUME Applied(Current)' PROVE Effects' = 1..Current
      <4>1. \A k \in Steps : applied'[k] = before'[k] + (IF k <= Current THEN 1 ELSE 0)
        BY <2>1, <3>2 DEF Applied
      <4>2. applied' \in [Steps -> Nat] /\ before' \in [Steps -> Nat] /\ Current \in 0..StepCount
        BY <1>0, <2>1 DEF TypeOK
      <4>3. Effects' = 1..Current
        BY <4>1, <4>2, Prefix DEF Effects
      <4> QED
        BY <2>1, <4>3
    <3> QED
      BY <2>4, <3>1, <3>2
  <2>6. Abstract!Doubt(Current)
    BY <1>5, <2>2, <2>3, <2>5 DEF StepTimesOut, Abstract!Doubt
  <2> QED
    BY <2>1, <2>6 DEF Abstract!Act
<1>6. CASE StepFails
  <2>1. Effects' = Effects
    BY <1>3, <1>6 DEF StepFails, setting
  <2>2. Abstract!TurnBack \/ Abstract!Finish
    BY <1>6, <2>1 DEF StepFails, Return, Abstract!TurnBack, Abstract!Finish
  <2> QED
    BY <2>2 DEF Abstract!Act
<1>7. CASE StepCompensated
  <2>1. Cursor \in 1..StepCount /\ Remaining = Cursor
    BY <1>0, <1>7 DEF StepCompensated, TypeOK, Cursor, Remaining
  <2>2. Effects = 1..Cursor
    BY <1>1, <1>7, <2>1 DEF Inductive, StepCompensated
  <2>3. applied \in [Steps -> Nat] /\ before \in [Steps -> Nat]
    BY <1>0 DEF TypeOK
  <2>4. applied' = [applied EXCEPT ![Cursor] = @ - 1] /\ before' = before /\ pc' = "compensating" /\ pc = "compensating"
    BY <1>7 DEF StepCompensated, setting
  <2>5. Applied(Cursor)
    BY <1>7, <2>1 DEF Inductive, StepCompensated
  <2>6. Effects' = 1..(Cursor - 1)
    <3>1. \A k \in Steps : applied'[k] = before'[k] + (IF k <= Cursor - 1 THEN 1 ELSE 0)
      BY <2>1, <2>3, <2>4, <2>5 DEF Applied, Steps
    <3>2. Cursor - 1 \in 0..StepCount /\ applied' \in [Steps -> Nat] /\ before' \in [Steps -> Nat]
      BY <1>0, <2>1 DEF TypeOK
    <3> QED
      BY <3>1, <3>2, Prefix DEF Effects
  <2>7. Abstract!Undo(Cursor)
    BY <2>2, <2>4, <2>6 DEF Abstract!Undo
  <2> QED
    BY <2>1, <2>7 DEF Abstract!Act
<1>8. CASE CompensationFails
  <2>1. Effects' = Effects /\ pc' = pc
    BY <1>3, <1>8 DEF CompensationFails, setting
  <2> QED
    BY <2>1 DEF Abstract!contractVars
<1>9. CASE \/ AllStepsSucceed \/ CompensationReturns \/ Confirmed \/ NoRecord
  <2>1. Effects' = Effects
    BY <1>3, <1>9 DEF AllStepsSucceed, CompensationReturns, Confirmed, NoRecord, setting
  <2>2. Abstract!Finish
    BY <1>9, <2>1 DEF AllStepsSucceed, CompensationReturns, Confirmed, NoRecord, Return, Abstract!Finish
  <2> QED
    BY <2>2 DEF Abstract!Act
<1>10. CASE Inconclusive
  <2>1. Effects' = Effects
    BY <1>3, <1>10 DEF Inconclusive, setting
  <2>2. pc = "inquiring" /\ (pc' = pc \/ pc' = "over")
    BY <1>10 DEF Inconclusive, Return
  <2>3. CASE pc' = pc
    BY <2>1, <2>3 DEF Abstract!contractVars
  <2>4. CASE pc' = "over"
    <3>1. Abstract!Finish
      BY <2>1, <2>2, <2>4 DEF Abstract!Finish
    <3> QED
      BY <3>1 DEF Abstract!Act
  <2> QED
    BY <2>2, <2>3, <2>4
<1>11. CASE Retry
  <2>1. Effects' = {}
    BY <1>0, <1>11 DEF Retry, Effects, TypeOK
  <2>2. Abstract!Again
    BY <1>11, <2>1 DEF Retry, Abstract!Again
  <2> QED
    BY <2>2 DEF Abstract!Act
<1>12. CASE UNCHANGED vars
  BY <1>3, <1>12 DEF vars, Abstract!contractVars
<1> QED
  BY <1>4, <1>5, <1>6, <1>7, <1>8, <1>9, <1>10, <1>11, <1>12 DEF Next, Run

\* The saga implements the contract of SagaContract (workflow.py:127-150, :200-249).
THEOREM Honoured == Spec => ContractHonoured
<1>1. Init => Abstract!Begin
  BY DEF Init, Abstract!Begin, Effects
<1>2. Inductive /\ Inductive' /\ [Next]_vars => [Abstract!Act]_(Abstract!contractVars)
  BY StepHonours
<1> QED
  BY <1>1, <1>2, Invariance, PTL DEF Spec, ContractHonoured, Abstract!Contract

\* What the contract is for: at any time the steps this execution has in effect are its first
\* ones, without a gap (workflow.py:127-150, :200-249).
ContractPrefix == \E d \in 0..StepCount : Effects = 1..d

THEOREM EffectsHaveNoGaps == Spec => []ContractPrefix
<1> USE BoundsAssumption
<1>1. Abstract!Begin => ContractPrefix
  <2>1. 0 \in 0..StepCount /\ 1..0 = {}
    OBVIOUS
  <2> QED
    BY <2>1 DEF Abstract!Begin, ContractPrefix
<1>2. ContractPrefix /\ [Abstract!Act]_(Abstract!contractVars) => ContractPrefix'
  <2> SUFFICES ASSUME ContractPrefix, [Abstract!Act]_(Abstract!contractVars) PROVE ContractPrefix'
    OBVIOUS
  <2>1. ASSUME NEW k \in 1..StepCount, Abstract!Advance(k) \/ Abstract!Doubt(k) \/ Abstract!Undo(k)
        PROVE  ContractPrefix'
    <3>1. Effects' = 1..k \/ Effects' = 1..(k - 1)
      BY <2>1 DEF Abstract!Advance, Abstract!Doubt, Abstract!Undo
    <3>2. k \in 0..StepCount /\ k - 1 \in 0..StepCount
      OBVIOUS
    <3> QED
      BY <3>1, <3>2 DEF ContractPrefix
  <2>2. CASE Abstract!TurnBack \/ Abstract!Finish \/ UNCHANGED Abstract!contractVars
    BY <2>2 DEF Abstract!TurnBack, Abstract!Finish, Abstract!contractVars, ContractPrefix
  <2>3. CASE Abstract!Again
    <3>1. 0 \in 0..StepCount /\ Effects' = 1..0
      BY <2>3 DEF Abstract!Again
    <3> QED
      BY <3>1 DEF ContractPrefix
  <2> QED
    BY <2>1, <2>2, <2>3 DEF Abstract!Act
<1> QED
  BY <1>1, <1>2, Honoured, PTL DEF ContractHonoured, Abstract!Contract

-----------------------------------------------------------------------------
(* What a permitted retry can repeat.                                      *)

\* A retry executes each step once more at most.  Only an inquiry about the step in doubt lets
\* a retry repeat one: of an inquiry about the intent NO_RECORD says that nothing is in effect,
\* and the default inquiry never says it.
RetriesCounted ==
    /\ \A k \in Steps : /\ before[k] <= applied[k]
                        /\ applied[k] <= before[k] + 1
                        /\ before[k] < runs
    /\ inquiry /= "step" =>
          \A k \in Steps : /\ before[k] = 0
                           /\ result = "FAILED_NO_DISPATCH" => applied[k] = 0

LEMMA RetriesCountedStep ==
    ASSUME Inductive, RetriesCounted, [Next]_vars
    PROVE  RetriesCounted'
<1> USE BoundsAssumption
<1>0. TypeOK /\ applied \in [Steps -> Nat] /\ before \in [Steps -> Nat] /\ runs \in Nat
  BY DEF Inductive, TypeOK
<1>1. CASE StepCompletes \/ StepTimesOut
  <2>1. pc = "forward" /\ result = "none" /\ result' = result /\ UNCHANGED setting
    BY <1>1 DEF StepCompletes, StepTimesOut, Inductive
  <2>2. Current \in Steps /\ applied[Current] = before[Current]
    <3>1. completed < StepCount /\ completed \in 0..StepCount /\ Applied(completed)
      BY <1>0, <1>1, <2>1 DEF StepCompletes, StepTimesOut, Inductive, TypeOK
    <3> QED
      BY <1>0, <3>1 DEF Applied, Current, Steps
  <2>3. applied' = applied \/ applied' = [applied EXCEPT ![Current] = @ + 1]
    BY <1>1 DEF StepCompletes, StepTimesOut
  <2>4. \A k \in Steps : applied'[k] = applied[k] \/ (applied'[k] = applied[k] + 1 /\ applied[k] = before[k])
    BY <1>0, <2>2, <2>3
  <2> QED
    BY <1>0, <2>1, <2>4 DEF RetriesCounted, setting
<1>2. CASE StepCompensated
  <2>1. UNCHANGED <<setting, result>> /\ applied' = [applied EXCEPT ![Cursor] = @ - 1] /\ result = "none"
    BY <1>2 DEF StepCompensated, Inductive
  <2>2. Cursor \in Steps /\ applied[Cursor] = before[Cursor] + 1
    <3>1. Cursor \in Steps /\ Applied(Cursor)
      BY <1>0, <1>2 DEF StepCompensated, Inductive, Remaining, TypeOK, Cursor, Steps
    <3> QED
      BY <1>0, <3>1 DEF Applied, Steps
  <2>3. \A k \in Steps : applied'[k] = applied[k] \/ (applied'[k] = before[k])
    BY <1>0, <2>1, <2>2
  <2> QED
    BY <1>0, <2>1, <2>3 DEF RetriesCounted, setting
<1>3. CASE NoRecord
  <2>1. UNCHANGED <<setting, applied>> /\ ~Known
    BY <1>3 DEF NoRecord
  <2>2. inquiry /= "step" => \A k \in Steps : applied[k] = 0
    BY <1>0, <2>1 DEF Known, TypeOK
  <2> QED
    BY <2>1, <2>2 DEF RetriesCounted, setting
<1>4. CASE \/ StepFails \/ AllStepsSucceed \/ CompensationFails \/ CompensationReturns
           \/ Confirmed \/ Inconclusive
  <2>1. UNCHANGED <<setting, applied>> /\ (result' = result \/ result' /= "FAILED_NO_DISPATCH")
    BY <1>4 DEF StepFails, AllStepsSucceed, CompensationFails, CompensationReturns, Confirmed,
       Inconclusive, Return
  <2> QED
    BY <2>1 DEF RetriesCounted, setting
<1>5. CASE Retry
  <2>1. /\ UNCHANGED <<inquiry, applied>> /\ before' = applied /\ runs' = runs + 1
        /\ result = "FAILED_NO_DISPATCH" /\ result' = "none"
    BY <1>5 DEF Retry
  <2> QED
    BY <1>0, <2>1 DEF RetriesCounted
<1>6. CASE UNCHANGED vars
  BY <1>6 DEF vars, RetriesCounted
<1> QED
  BY <1>1, <1>2, <1>3, <1>4, <1>5, <1>6 DEF Next, Run

\* However often it is permitted to retry, a step is in effect once for each execution at most,
\* and once in all unless inquiries are about single steps (reconciliation.py:70, :98-170).
THEOREM RetriesAreLimited ==
    Spec => [](/\ \A k \in Steps : applied[k] <= runs
               /\ inquiry /= "step" => RetriesAreSafe)
<1>1. Init => RetriesCounted
  BY DEF Init, RetriesCounted
<1>2. Inductive /\ RetriesCounted /\ [Next]_vars => RetriesCounted'
  BY RetriesCountedStep
<1>3. ASSUME Inductive, RetriesCounted
      PROVE  /\ \A k \in Steps : applied[k] <= runs
             /\ inquiry /= "step" => RetriesAreSafe
  <2>1. applied \in [Steps -> Nat] /\ before \in [Steps -> Nat] /\ runs \in Nat
    BY <1>3, BoundsAssumption DEF Inductive, TypeOK
  <2> QED
    BY <1>3, <2>1 DEF RetriesCounted, RetriesAreSafe
<1> QED
  BY <1>1, <1>2, <1>3, Invariance, PTL DEF Spec

-----------------------------------------------------------------------------
(* An execution comes to its end: the measure behind SagaEnds.             *)

\* How many steps, compensations, inquiries and returns an execution may still make.
Rank == CASE pc = "forward" -> 2 * StepCount - completed + MaxAttempts + 2
          [] pc = "compensating" -> Cursor + 1
          [] pc = "inquiring" -> MaxAttempts - attempts
          [] OTHER -> 0

\* Every action of the coroutine brings the execution nearer to its record (workflow.py,
\* reconciliation.py:80): the loops over steps and inquiries go one way only.
RunDescends == [][Run => Rank' < Rank]_vars

THEOREM ExecutionsAreBounded ==
    Spec => [](Rank \in 0..(2 * StepCount + MaxAttempts + 2)) /\ RunDescends
<1> USE BoundsAssumption
<1>1. ASSUME Inductive PROVE Rank \in 0..(2 * StepCount + MaxAttempts + 2)
  <2>1. /\ completed \in 0..StepCount /\ Len(executed) \in Nat /\ Len(executed) <= completed
        /\ attempts \in 0..MaxAttempts
    BY <1>1 DEF Inductive, TypeOK
  <2> QED
    BY <2>1 DEF Rank, Cursor
<1>2. ASSUME Inductive, Inductive', [Next]_vars, Run PROVE Rank' < Rank
  <2>1. /\ completed \in 0..StepCount /\ Len(executed) \in Nat /\ Len(executed) <= completed
        /\ attempts \in 0..MaxAttempts /\ (pc = "inquiring" => attempts < MaxAttempts)
        /\ executed \in Seq({"COMPLETED", "FAILED_MANUAL_REQUIRED"})
        /\ (pc = "forward" => executed = <<>> /\ attempts = 0)
    BY <1>2 DEF Inductive, TypeOK
  <2>2. pc' = "over" => Rank' = 0
    BY DEF Rank
  <2>3. CASE StepCompletes
    BY <2>1, <2>3 DEF StepCompletes, Rank
  <2>4. CASE StepTimesOut
    BY <2>1, <2>4 DEF StepTimesOut, Rank
  <2>5. CASE StepFails
    <3>1. Cursor' = completed /\ Rank = 2 * StepCount - completed + MaxAttempts + 2
      BY <2>1, <2>5 DEF StepFails, Cursor, Rank
    <3>2. pc' = "over" \/ pc' = "compensating"
      BY <2>5 DEF StepFails, Return
    <3> QED
      BY <2>1, <2>2, <3>1, <3>2 DEF Rank
  <2>6. CASE AllStepsSucceed
    BY <2>1, <2>2, <2>6 DEF AllStepsSucceed, Return, Rank
  <2>7. CASE StepCompensated \/ CompensationFails
    <3>1. pc = "compensating" /\ UNCHANGED <<pc, completed>> /\ Len(executed') = Len(executed) + 1
      BY <2>1, <2>7 DEF StepCompensated, CompensationFails, setting
    <3> QED
      BY <2>1, <3>1 DEF Rank, Cursor
  <2>8. CASE CompensationReturns
    BY <2>1, <2>2, <2>8 DEF CompensationReturns, Return, Rank, Cursor
  <2>9. CASE Confirmed \/ NoRecord
    BY <2>1, <2>2, <2>9 DEF Confirmed, NoRecord, Return, Rank
  <2>10. CASE Inconclusive
    BY <2>1, <2>2, <2>10 DEF Inconclusive, Return, Rank
  <2> QED
    BY <1>2, <2>3, <2>4, <2>5, <2>6, <2>7, <2>8, <2>9, <2>10 DEF Run
<1>3. Inductive /\ Inductive' /\ [Next]_vars => [Run => Rank' < Rank]_vars
  BY <1>2
<1> QED
  BY <1>1, <1>3, Invariance, PTL DEF Spec, RunDescends

=============================================================================
