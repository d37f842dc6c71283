----------------------------- MODULE ActionSaga -----------------------------
(***************************************************************************)
(* The saga of a compound action and the reconciliation of a step whose    *)
(* outcome is unknown: action/saga/workflow.py, reconciliation.py and      *)
(* activities.py.                                                          *)
(*                                                                         *)
(* execute_action_saga is one coroutine; each of its steps, compensations  *)
(* and inquiries is an action here.  What the steps do outside is the      *)
(* provider's: "applied" counts how often a step is in effect there.  The  *)
(* code reads the outcome of a step from its payload, as it has no         *)
(* provider yet; here every outcome is possible.  A provider's definite    *)
(* answers (a refusal, CONFIRMED, NO_RECORD) are taken to be true.  But an *)
(* inquiry names the intent's key only, so that they may be about the step *)
(* in doubt or about any step of the intent.                               *)
(***************************************************************************)
EXTENDS Naturals, Sequences

CONSTANTS
    StepCount,    \* how many steps the compound action has
    MaxAttempts,  \* max_attempts of reconcile_unknown
    MaxRuns       \* bound: how often the caller executes the saga

ASSUME BoundsAssumption ==
    /\ StepCount \in Nat
    /\ MaxAttempts \in Nat \ {0}
    /\ MaxRuns \in Nat \ {0}

Steps == 1..StepCount

Classifications == {"REVERSIBLE", "COMPENSATABLE", "PARTIALLY_COMPENSATABLE",
                    "IRREVERSIBLE", "MANUAL_RECONCILIATION"}

VARIABLES
    classification, \* intent.classification
    inquiry,        \* what custom_query_fn asks about, "step" or "intent"; "default" if there is none
    pc,             \* "forward", "compensating", "inquiring" or "over"
    completed,      \* the length of completed_step_tuples
    executed,       \* the statuses of executed_records, the last step's first
    attempts,       \* inquiries made
    result,         \* "none", or the error code of the returned record, else its status
    escalated,      \* the length of emitted_outbox_events
    applied,        \* how often each step is in effect at the provider
    before,         \* applied, when this execution began (history)
    runs            \* executions so far

vars == <<classification, inquiry, pc, completed, executed, attempts, result,
          escalated, applied, before, runs>>

setting == <<classification, inquiry, before, runs>>

Results == {"none", "SUCCESS", "RECONCILED", "FAILED_NO_DISPATCH", "ERR_RECONCILIATION_REQUIRED",
            "ERR_STEP_FAILED_COMPENSATED", "ERR_IRREVERSIBLE_MANUAL_REQUIRED"}

\* Types; in particular there are at most max_attempts inquiries, and no more
\* compensations than completed steps (reconciliation.py:80, workflow.py:128).
TypeOK ==
    /\ classification \in Classifications
    /\ inquiry \in {"step", "intent", "default"}
    /\ pc \in {"forward", "compensating", "inquiring", "over"}
    /\ completed \in 0..StepCount
    /\ executed \in Seq({"COMPLETED", "FAILED_MANUAL_REQUIRED"})
    /\ Len(executed) <= completed
    /\ attempts \in 0..MaxAttempts
    /\ result \in Results
    /\ escalated \in Nat
    /\ applied \in [Steps -> Nat]
    /\ before \in [Steps -> Nat]
    /\ runs \in 1..MaxRuns

Init ==
    /\ classification \in Classifications
    /\ inquiry \in {"step", "intent", "default"}
    /\ pc = "forward"
    /\ completed = 0
    /\ executed = <<>>
    /\ attempts = 0
    /\ result = "none"
    /\ escalated = 0
    /\ applied = [k \in Steps |-> 0]
    /\ before = applied
    /\ runs = 1

-----------------------------------------------------------------------------
(* The forward steps.                                                      *)

Return(record) ==
    /\ pc' = "over"
    /\ result' = record

\* The step that is next.
Current == completed + 1

StepCompletes ==
    /\ pc = "forward"
    /\ completed < StepCount
    /\ completed' = completed + 1
    /\ applied' = [applied EXCEPT ![Current] = @ + 1]
    /\ UNCHANGED <<setting, pc, executed, attempts, result, escalated>>

StepTimesOut ==
    /\ pc = "forward"
    /\ completed < StepCount
    /\ applied' \in {applied, [applied EXCEPT ![Current] = @ + 1]}
    /\ pc' = "inquiring"
    /\ UNCHANGED <<setting, completed, executed, attempts, result, escalated>>

\* Faulty variant: the guard of compensate_steps is missing.
StepFailsAnyway ==
    /\ pc = "forward"
    /\ completed < StepCount
    /\ pc' = "compensating"
    /\ UNCHANGED <<setting, completed, executed, attempts, result, escalated, applied>>

\* compensate_steps refuses to undo an IRREVERSIBLE action.
StepFails ==
    /\ pc = "forward"
    /\ completed < StepCount
    /\ IF classification = "IRREVERSIBLE"
       THEN Return("ERR_IRREVERSIBLE_MANUAL_REQUIRED")
       ELSE pc' = "compensating" /\ UNCHANGED result
    /\ UNCHANGED <<setting, completed, executed, attempts, escalated, applied>>

AllStepsSucceed ==
    /\ pc = "forward"
    /\ completed = StepCount
    /\ Return("SUCCESS")
    /\ UNCHANGED <<setting, completed, executed, attempts, escalated, applied>>

-----------------------------------------------------------------------------
(* Compensation, from the last completed step backwards.                   *)

\* Faulty variant: a failed compensation does not leave the loop.
NeverHalted == FALSE

Halted == \E i \in DOMAIN executed : executed[i] = "FAILED_MANUAL_REQUIRED"

\* Faulty variant: the loop goes from the first step to the last.
CursorForwards == IF Len(executed) < completed THEN Len(executed) + 1 ELSE 0

\* The step that is compensated next; 0 if there is none.
Cursor == completed - Len(executed)

StepCompensated ==
    /\ pc = "compensating"
    /\ ~Halted
    /\ Cursor > 0
    /\ executed' = Append(executed, "COMPLETED")
    /\ applied' = [applied EXCEPT ![Cursor] = @ - 1]
    /\ UNCHANGED <<setting, pc, completed, attempts, result, escalated>>

\* The activity pages the operator, and the loop is left.
CompensationFails ==
    /\ pc = "compensating"
    /\ ~Halted
    /\ Cursor > 0
    /\ executed' = Append(executed, "FAILED_MANUAL_REQUIRED")
    /\ UNCHANGED <<setting, pc, completed, attempts, result, escalated, applied>>

\* Faulty variant: the saga waits until the operator has done the rest.
CompensationWaits ==
    /\ pc = "compensating"
    /\ Cursor = 0
    /\ ~Halted
    /\ Return("ERR_STEP_FAILED_COMPENSATED")
    /\ UNCHANGED <<setting, completed, executed, attempts, escalated, applied>>

\* The caller of compensate_steps ignores what it returns.
CompensationReturns ==
    /\ pc = "compensating"
    /\ Halted \/ Cursor = 0
    /\ Return("ERR_STEP_FAILED_COMPENSATED")
    /\ UNCHANGED <<setting, completed, executed, attempts, escalated, applied>>

-----------------------------------------------------------------------------
(* Inquiries after a timeout.  Without custom_query_fn a default one is    *)
(* used that always answers CONFIRMED; an exception counts as INCONCLUSIVE.*)

Known ==
    \/ inquiry = "step" /\ applied[Current] > before[Current]
    \/ inquiry = "intent" /\ \E k \in Steps : applied[k] > 0
    \/ inquiry = "default"

Confirmed ==
    /\ pc = "inquiring"
    /\ Known
    /\ attempts' = attempts + 1
    /\ Return("RECONCILED")
    /\ UNCHANGED <<setting, completed, executed, escalated, applied>>

NoRecord ==
    /\ pc = "inquiring"
    /\ ~Known
    /\ attempts' = attempts + 1
    /\ Return("FAILED_NO_DISPATCH")
    /\ UNCHANGED <<setting, completed, executed, escalated, applied>>

\* Faulty variant: one inquiry too many.
InconclusiveOnceMore ==
    /\ pc = "inquiring"
    /\ inquiry /= "default"
    /\ attempts' = attempts + 1
    /\ IF attempts' <= MaxAttempts
       THEN UNCHANGED <<pc, result, escalated>>
       ELSE Return("ERR_RECONCILIATION_REQUIRED") /\ escalated' = escalated + 1
    /\ UNCHANGED <<setting, completed, executed, applied>>

Inconclusive ==
    /\ pc = "inquiring"
    /\ inquiry /= "default"
    /\ attempts' = attempts + 1
    /\ IF attempts' < MaxAttempts
       THEN UNCHANGED <<pc, result, escalated>>
       ELSE Return("ERR_RECONCILIATION_REQUIRED") /\ escalated' = escalated + 1
    /\ UNCHANGED <<setting, completed, executed, applied>>

-----------------------------------------------------------------------------
\* The caller executes the saga again, when its record says that this is safe:
\* "NO_RECORD: ... FAILED_NO_DISPATCH (safe retry permitted)" (reconciliation.py:70).
Retry ==
    /\ pc = "over"
    /\ result = "FAILED_NO_DISPATCH"
    /\ runs < MaxRuns
    /\ runs' = runs + 1
    /\ before' = applied
    /\ pc' = "forward"
    /\ completed' = 0
    /\ executed' = <<>>
    /\ attempts' = 0
    /\ result' = "none"
    /\ UNCHANGED <<classification, inquiry, escalated, applied>>

Run ==
    \/ StepCompletes \/ StepTimesOut \/ StepFails \/ AllStepsSucceed
    \/ StepCompensated \/ CompensationFails \/ CompensationReturns
    \/ Confirmed \/ NoRecord \/ Inconclusive

Next == Run \/ Retry

Spec == Init /\ [][Next]_vars /\ WF_vars(Run)

-----------------------------------------------------------------------------
(* Properties.                                                             *)

\* What this execution has put into effect.
Effects == {k \in Steps : applied[k] > before[k]}

\* The returned record tells what stands at the provider: SUCCESS that every step
\* does; a step that was asked about and confirmed, that it does on top of the
\* completed ones; NO_RECORD, that only those do; a refused rollback of an irreversible action, that all completed
\* steps do; and after a compensation there is nothing left unless one was halted,
\* and then exactly the steps up to the one the operator is paged about; an outcome
\* that stays in doubt is escalated once (workflow.py:207-266, reconciliation.py:98-170).
ReportsAreTrue ==
    /\ result = "SUCCESS" => Effects = Steps
    /\ result = "RECONCILED" /\ inquiry = "step" => Effects = 1..Current
    /\ result \in {"FAILED_NO_DISPATCH", "ERR_IRREVERSIBLE_MANUAL_REQUIRED"} => Effects = 1..completed
    /\ result = "ERR_STEP_FAILED_COMPENSATED" =>
          Effects = IF Halted THEN 1..(Cursor + 1) ELSE {}
    /\ escalated = IF result = "ERR_RECONCILIATION_REQUIRED" THEN 1 ELSE 0

\* An execution honours the contract of SagaContract: steps take effect in order
\* and are undone in the reverse order only (workflow.py:127-150), nothing is undone
\* after a timeout (:202-205), and nothing happens after the record is returned.
Abstract == INSTANCE SagaContract WITH
    inEffect <- Effects,
    direction <- CASE pc = "forward" -> "forward"
                   [] pc = "compensating" -> "backward"
                   [] pc = "inquiring" -> "doubt"
                   [] OTHER -> "over"
ContractHonoured == Abstract!Contract

\* An irreversible action is never undone, whichever of its steps fails
\* (workflow.py:103-123).
IrreversibleStands ==
    [][classification = "IRREVERSIBLE" => \A k \in Steps : applied'[k] >= applied[k]]_vars

\* Every execution returns a record: neither the inquiries nor the compensation go
\* on for ever.
SagaEnds == pc /= "over" ~> pc = "over"

\* Documented (reconciliation.py:70 "safe retry permitted"): an execution that may
\* be retried has put nothing into effect that the retry would do once more.
RetriesAreSafe == \A k \in Steps : applied[k] <= 1
=============================================================================
