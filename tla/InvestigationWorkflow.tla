----------------------- MODULE InvestigationWorkflow -----------------------
(***************************************************************************)
(* One run of the durable investigation workflow:                          *)
(* investigation/workflows/investigation_workflow.py over the transition   *)
(* table of investigation/domain/state_machine.py.                         *)
(*                                                                         *)
(* Temporal runs the workflow as one coroutine.  It suspends while an      *)
(* activity is outstanding and while the pause gate waits; every other     *)
(* stretch of code is one step.  A signal handler runs to its end between  *)
(* two such steps, in any number and order.  A worker that dies replays    *)
(* the recorded history and comes back to the same state, so a crash is    *)
(* not a step of this model; an activity attempt that is lost or times out *)
(* is retried by the service until the activity completes or fails.        *)
(***************************************************************************)
EXTENDS Naturals

CONSTANTS
    Budgets,     \* the budgets an investigation may be started with, in cents
    HardStop,    \* hard_stop_usd, in cents
    Cost         \* what each activity adds to the spend, in cents

Activities == {"scope", "plan", "sql", "retrieval", "tickets", "synthesize", "verify", "package"}

ASSUME ConstantsAssumption ==
    /\ Budgets \subseteq Nat
    /\ HardStop \in Nat
    /\ Cost \in [Activities -> Nat]

VARIABLES
    status,       \* _status
    prior,        \* _prior_active_state
    isPaused,     \* _is_paused
    isCancelled,  \* _is_cancelled
    pc,           \* the activity that is outstanding, or where else the coroutine is
    next,         \* the activity that follows the gate the coroutine waits in
    loopCount,    \* loop_count
    verified,     \* verified
    manifest,     \* _manifest is set
    spent,        \* _budget.spent_usd, in cents
    allocated,    \* _budget.allocated_usd, in cents
    outcome       \* how the run ended: "sealed" or the type of the error

vars == <<status, prior, isPaused, isCancelled, pc, next, loopCount, verified,
          manifest, spent, allocated, outcome>>

ActiveStates == {"INITIALIZING", "PLANNING", "GATHERING_EVIDENCE", "VERIFYING"}

Statuses == ActiveStates \cup {"COMPLETED", "NEED_MORE_EVIDENCE", "PAUSED", "CANCELLED", "FAILED"}

Outcomes == {"running", "sealed", "ERR_INVALID_INPUT", "ERR_INVALID_STATE_TRANSITION",
             "ERR_WORKFLOW_CANCELLED", "ERR_VERIFICATION_REFUTED", "ERR_WORKFLOW_EXECUTION_FAILURE"}

TypeOK ==
    /\ status \in Statuses
    /\ prior \in Statuses \cup {"none"}
    /\ isPaused \in BOOLEAN
    /\ isCancelled \in BOOLEAN
    /\ pc \in Activities \cup {"start", "waiting", "ended"}
    /\ next \in Activities
    /\ loopCount \in 0..2
    /\ verified \in BOOLEAN
    /\ manifest \in BOOLEAN
    /\ spent \in Nat
    /\ allocated \in Budgets
    /\ outcome \in Outcomes

Init ==
    /\ status = "INITIALIZING"
    /\ prior = "none"
    /\ isPaused = FALSE
    /\ isCancelled = FALSE
    /\ pc = "start"
    /\ next = "scope"
    /\ loopCount = 0
    /\ verified = FALSE
    /\ manifest = FALSE
    /\ spent = 0
    /\ allocated \in Budgets
    /\ outcome = "running"

signals == <<isPaused, isCancelled>>
progress == <<loopCount, verified, manifest, spent, allocated>>

-----------------------------------------------------------------------------
(* The transition table, and what the coroutine does with it.              *)

Permitted(current) ==
    CASE current = "INITIALIZING" -> {"PLANNING", "FAILED", "PAUSED", "CANCELLED"}
      [] current = "PLANNING" -> {"GATHERING_EVIDENCE", "FAILED", "CANCELLED", "PAUSED"}
      [] current = "GATHERING_EVIDENCE" -> {"VERIFYING", "PAUSED", "CANCELLED", "FAILED"}
      [] current = "VERIFYING" -> {"COMPLETED", "NEED_MORE_EVIDENCE", "GATHERING_EVIDENCE",
                                   "PAUSED", "CANCELLED", "FAILED"}
      [] current = "PAUSED" ->
            {"CANCELLED", "FAILED"} \cup
            (IF prior = "none" THEN ActiveStates ELSE {prior} \cap ActiveStates)
      [] OTHER -> {}

End(result) ==
    /\ pc' = "ended"
    /\ outcome' = result
    /\ UNCHANGED next

Schedule(activity) ==
    /\ pc' = activity
    /\ UNCHANGED <<next, outcome>>

Wait(activity) ==
    /\ pc' = "waiting"
    /\ next' = activity
    /\ UNCHANGED outcome

\* _transition: the run goes on in the target status, or dies where it is.
Transition(current, target, GoOn) ==
    IF target \in Permitted(current)
    THEN status' = target /\ GoOn
    ELSE status' = current /\ End("ERR_INVALID_STATE_TRANSITION")

\* The status some activities move to before they are scheduled.
StatusFor == [scope |-> "PLANNING", sql |-> "GATHERING_EVIDENCE", verify |-> "VERIFYING"]

\* The code between a gate and the next await.  The second gate of a loop,
\* after the transition to GATHERING_EVIDENCE, would find what this one found:
\* the transition is forbidden to a paused or cancelled run.
Enter(current, activity) ==
    /\ loopCount' = IF activity = "sql" THEN loopCount + 1 ELSE loopCount
    /\ IF activity \in DOMAIN StatusFor
       THEN Transition(current, StatusFor[activity], Schedule(activity))
       ELSE status' = current /\ Schedule(activity)

\* Faulty variant: the gate looks at the pause flag only.
GateWithoutCancel(activity) ==
    IF isPaused
    THEN Wait(activity) /\ UNCHANGED <<status, prior, loopCount>>
    ELSE Enter(status, activity) /\ UNCHANGED prior

\* _check_pause_and_cancellation, then the way to the next activity.
Gate(activity) ==
    IF isCancelled
    THEN /\ IF status = "CANCELLED"
            THEN UNCHANGED status /\ End("ERR_WORKFLOW_CANCELLED")
            ELSE Transition(status, "CANCELLED", End("ERR_WORKFLOW_CANCELLED"))
         /\ UNCHANGED <<prior, loopCount>>
    ELSE IF isPaused
    THEN /\ IF status = "PAUSED"
            THEN UNCHANGED <<status, prior>> /\ Wait(activity)
            ELSE prior' = status /\ Transition(status, "PAUSED", Wait(activity))
         /\ UNCHANGED loopCount
    ELSE Enter(status, activity) /\ UNCHANGED prior

-----------------------------------------------------------------------------
(* The coroutine.                                                          *)

\* Faulty variant: the handler does not look at the status it overwrites.
CrashFailed ==
    /\ status' = "FAILED"
    /\ End("ERR_WORKFLOW_EXECUTION_FAILURE")
    /\ UNCHANGED <<prior, loopCount>>

\* An exception other than an ApplicationError reaches the last handler of run.
Crash ==
    /\ status' = IF status \in {"COMPLETED", "CANCELLED", "FAILED"} THEN status ELSE "FAILED"
    /\ End("ERR_WORKFLOW_EXECUTION_FAILURE")
    /\ UNCHANGED <<prior, loopCount>>

Start ==
    /\ pc = "start"
    /\ \/ Gate("scope")
       \/ /\ Transition(status, "FAILED", End("ERR_INVALID_INPUT"))
          /\ UNCHANGED <<prior, loopCount>>
    /\ UNCHANGED <<signals, verified, manifest, spent, allocated>>

\* The activity that runs after each activity that only gathers.
Successor == [scope |-> "plan", plan |-> "sql", sql |-> "retrieval", retrieval |-> "tickets",
              tickets |-> "synthesize", synthesize |-> "verify"]

\* record_spend raises when the candidate exceeds the hard stop, and only then.
ActivityCompletes ==
    /\ pc \in DOMAIN Successor
    /\ IF spent + Cost[pc] > HardStop
       THEN Crash /\ UNCHANGED spent
       ELSE spent' = spent + Cost[pc] /\ Gate(Successor[pc])
    /\ UNCHANGED <<signals, verified, manifest, allocated>>

VerifierConfirms ==
    /\ pc = "verify"
    /\ verified' = TRUE
    /\ Gate("package")
    /\ UNCHANGED <<signals, manifest, spent, allocated>>

\* Faulty variant: off by one in the number of rounds.
VerifierNeedsEvenMore ==
    /\ pc = "verify"
    /\ UNCHANGED prior
    /\ IF loopCount <= 2
       THEN Enter(status, "sql")
       ELSE /\ Transition(status, "NEED_MORE_EVIDENCE", Schedule("package"))
            /\ UNCHANGED loopCount
    /\ UNCHANGED <<signals, verified, manifest, spent, allocated>>

\* The first time round the evidence is gathered again without a gate; the
\* second time the gap is reported and packaged.
VerifierNeedsMore ==
    /\ pc = "verify"
    /\ UNCHANGED prior
    /\ IF loopCount < 2
       THEN Enter(status, "sql")
       ELSE /\ Transition(status, "NEED_MORE_EVIDENCE", Schedule("package"))
            /\ UNCHANGED loopCount
    /\ UNCHANGED <<signals, verified, manifest, spent, allocated>>

VerifierRefutes ==
    /\ pc = "verify"
    /\ Transition(status, "FAILED", End("ERR_VERIFICATION_REFUTED"))
    /\ UNCHANGED <<signals, prior, progress>>

\* Faulty variant: the manifest is sealed whatever happened meanwhile.
SealWhatever ==
    /\ pc = "package"
    /\ manifest' = TRUE
    /\ status' = IF status = "NEED_MORE_EVIDENCE" THEN status ELSE "COMPLETED"
    /\ End("sealed")
    /\ UNCHANGED <<signals, prior, loopCount, verified, spent, allocated>>

PackageCompletes ==
    /\ pc = "package"
    /\ manifest' = TRUE
    /\ IF status = "NEED_MORE_EVIDENCE"
       THEN UNCHANGED status /\ End("sealed")
       ELSE Transition(status, "COMPLETED", End("sealed"))
    /\ UNCHANGED <<signals, prior, loopCount, verified, spent, allocated>>

\* The retries of the activity are used up, or it raised an error it does not retry.
ActivityFails ==
    /\ pc \in Activities
    /\ Crash
    /\ UNCHANGED <<signals, verified, manifest, spent, allocated>>

\* Restores the status the run had when it was paused.  The resume handler has
\* restored it already, and no status may move to itself.
Restore ==
    CASE prior = "none" -> Enter(status, next)
      [] prior \in Permitted(status) -> Enter(prior, next)
      [] OTHER -> /\ End("ERR_INVALID_STATE_TRANSITION")
                  /\ UNCHANGED <<status, loopCount>>

\* Faulty variants: the condition forgets the cancellation, or the resumption.
WakeWhenResumed ==
    /\ pc = "waiting"
    /\ ~isPaused
    /\ Restore
    /\ UNCHANGED <<signals, prior, verified, manifest, spent, allocated>>

WakeWhenCancelled ==
    /\ pc = "waiting"
    /\ isCancelled
    /\ Transition(status, "CANCELLED", End("ERR_WORKFLOW_CANCELLED"))
    /\ UNCHANGED <<signals, prior, progress>>

\* wait_condition: the gate goes on once the run is resumed or cancelled.
Wake ==
    /\ pc = "waiting"
    /\ ~isPaused \/ isCancelled
    /\ IF isCancelled
       THEN Transition(status, "CANCELLED", End("ERR_WORKFLOW_CANCELLED")) /\ UNCHANGED loopCount
       ELSE Restore
    /\ UNCHANGED <<signals, prior, verified, manifest, spent, allocated>>

Run ==
    \/ Start \/ ActivityCompletes \/ ActivityFails \/ PackageCompletes \/ Wake
    \/ VerifierConfirms \/ VerifierNeedsMore \/ VerifierRefutes

-----------------------------------------------------------------------------
(* The signal handlers.  A run that has ended receives no signal.          *)

Over == {"COMPLETED", "FAILED", "CANCELLED"}

PauseSignal ==
    /\ pc # "ended"
    /\ status \notin Over
    /\ isPaused' = TRUE
    /\ IF status = "PAUSED"
       THEN UNCHANGED <<status, prior>>
       ELSE prior' = status /\ status' = "PAUSED"
    /\ UNCHANGED <<isCancelled, pc, next, progress, outcome>>

ResumeSignal ==
    /\ pc # "ended"
    /\ status = "PAUSED"
    /\ isPaused' = FALSE
    /\ status' = IF prior = "none" THEN "PLANNING" ELSE prior
    /\ UNCHANGED <<prior, isCancelled, pc, next, progress, outcome>>

CancelSignal ==
    /\ pc # "ended"
    /\ status \notin Over
    /\ isCancelled' = TRUE
    /\ status' = "CANCELLED"
    /\ UNCHANGED <<prior, isPaused, pc, next, progress, outcome>>

Next == Run \/ PauseSignal \/ ResumeSignal \/ CancelSignal

\* The service dispatches a coroutine that can go on, and schedule_to_close
\* bounds every activity.  Nobody has to send a signal.
Fairness == WF_vars(Run)

Spec == Init /\ [][Next]_vars /\ Fairness

-----------------------------------------------------------------------------
(* What the workflow promises.                                             *)

\* Once a pause or a cancellation has been signalled, the run schedules no
\* further activity until it is resumed, wherever the signal found it: in a
\* gate, in an activity, or in the verifier, whose answers do not all meet a
\* gate (_check_pause_and_cancellation and the transitions that stand in for it).
SignalsStopScheduling ==
    [][(isPaused \/ isCancelled) => (pc' \in {pc, "waiting", "ended"})]_vars

\* A run that has been reported COMPLETED, CANCELLED or FAILED stays so: no
\* signal, transition or exception handler overwrites it.
FinalStatusStays == [][(status \in Over) => (status' = status)]_vars

\* A manifest is returned only by a run that nobody paused or cancelled since,
\* and its status says whether the verifier confirmed a hypothesis.
SealedRunsAreUndisturbed ==
    outcome = "sealed" =>
        /\ manifest /\ ~isPaused /\ ~isCancelled
        /\ status = IF verified THEN "COMPLETED" ELSE "NEED_MORE_EVIDENCE"

\* A cancelled run ends, in whatever activity or gate the signal found it.
CancelEnds == isCancelled ~> pc = "ended"

\* A run ends unless it is paused again and again: no activity result, signal
\* or resumption leaves it waiting for something that will not come.
RunEnds == []<>isPaused \/ <>(pc = "ended")

-----------------------------------------------------------------------------
(* What the documents say, and the code does not do.                       *)

\* "[PAUSED] --(ResumeSignal)--> [Prior State]", "Resumes DAG scheduling": a run
\* that is neither paused nor cancelled does not die of a forbidden transition.
ResumedRunsContinue ==
    outcome = "ERR_INVALID_STATE_TRANSITION" => isPaused \/ isCancelled

\* INV-COST-001: budgets "are enforced before further spend".
SpendWithinBudget == spent <= allocated

=============================================================================
