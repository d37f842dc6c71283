--------------------- MODULE InvestigationWorkflowProofs ---------------------
(***************************************************************************)
(* Proofs about InvestigationWorkflow for every budget, hard stop and cost.*)
(***************************************************************************)
EXTENDS InvestigationWorkflow, TLAPS

-----------------------------------------------------------------------------
(* The strengthened invariant.                                             *)

\* The status a run has while nobody has paused or cancelled it: while an
\* activity is outstanding, and in the gate before it.
During == [scope |-> "PLANNING", plan |-> "PLANNING", sql |-> "GATHERING_EVIDENCE",
           retrieval |-> "GATHERING_EVIDENCE", tickets |-> "GATHERING_EVIDENCE",
           synthesize |-> "GATHERING_EVIDENCE", verify |-> "VERIFYING"]

Before == [scope |-> "INITIALIZING", plan |-> "PLANNING", sql |-> "PLANNING",
           retrieval |-> "GATHERING_EVIDENCE", tickets |-> "GATHERING_EVIDENCE",
           synthesize |-> "GATHERING_EVIDENCE", verify |-> "GATHERING_EVIDENCE",
           package |-> "VERIFYING"]

Course ==
    CASE pc = "start" -> "INITIALIZING"
      [] pc \in DOMAIN During -> During[pc]
      [] pc = "package" -> IF verified THEN "VERIFYING" ELSE "NEED_MORE_EVIDENCE"
      [] OTHER -> Before[next]

\* While a run goes on, its flags and its status say the same, and a pause
\* remembers the status the run has to go back to.
OnCourse ==
    /\ outcome = "running"
    /\ isCancelled <=> status = "CANCELLED"
    /\ pc = "waiting" => prior = Course
    /\ status = "PAUSED" => isPaused /\ prior = Course
    /\ status \notin {"PAUSED", "CANCELLED"} => ~isPaused /\ status = Course

\* The first round begins with a gate, and nothing precedes it.
FirstRound == pc \in {"start", "scope", "plan"} \/ (pc = "waiting" /\ next \in {"scope", "plan", "sql"})

\* The verifier has confirmed a hypothesis only when packaging is what is left.
Packaging == pc = "package" \/ (pc = "waiting" /\ next = "package")

Inductive ==
    /\ TypeOK
    /\ pc # "ended" => OnCourse
    /\ FirstRound => loopCount = 0
    /\ pc # "ended" /\ verified => Packaging
    /\ pc = "waiting" /\ next = "package" => verified
    /\ SealedRunsAreUndisturbed

-----------------------------------------------------------------------------
(* What the parts of a step establish.                                     *)

\* What every step of the coroutine leaves in the variables it does not schedule with.
Steady ==
    /\ UNCHANGED <<signals, allocated>>
    /\ prior' \in Statuses \cup {"none"}
    /\ verified' \in BOOLEAN
    /\ manifest' \in BOOLEAN
    /\ spent' \in Nat

\* A run that ends with an error keeps the invariant whatever its status.
LEMMA EndsStep ==
    ASSUME TypeOK, Steady, NEW result \in Outcomes \ {"sealed"}, End(result),
           status' \in Statuses, loopCount' \in 0..2
    PROVE  Inductive'
BY DEF TypeOK, Steady, End, Inductive, FirstRound, Packaging, SealedRunsAreUndisturbed, signals

\* An undisturbed run that leaves a gate has the next activity outstanding.
LEMMA EnterStep ==
    ASSUME TypeOK, Steady, NEW current, NEW activity \in Activities, Enter(current, activity),
           outcome = "running", ~isPaused, ~isCancelled,
           \/ current = Before[activity]
           \/ activity = "sql" /\ current = "VERIFYING",
           activity \in {"scope", "plan"} => loopCount = 0,
           activity = "sql" => loopCount < 2,
           verified' <=> activity = "package"
    PROVE  Inductive'
<1> USE DEF TypeOK, Steady, Inductive, OnCourse, Course, During, FirstRound, Packaging,
        SealedRunsAreUndisturbed, Enter, Transition, Schedule, StatusFor, Permitted, Before,
        Statuses, ActiveStates, Activities, Outcomes, signals
<1>1. CASE activity = "scope"
  BY <1>1
<1>2. CASE activity = "plan"
  BY <1>2
<1>3. CASE activity = "sql"
  BY <1>3
<1>4. CASE activity = "verify"
  BY <1>4
<1>5. CASE activity = "package"
  BY <1>5
<1>6. CASE activity \in {"retrieval", "tickets", "synthesize"}
  BY <1>6
<1> QED
  BY <1>1, <1>2, <1>3, <1>4, <1>5, <1>6

\* The status of a run that reaches the gate before an activity.
Reaches(activity) ==
    /\ outcome = "running"
    /\ isCancelled <=> status = "CANCELLED"
    /\ status = "PAUSED" => isPaused /\ prior = Before[activity]
    /\ status \notin {"PAUSED", "CANCELLED"} => ~isPaused /\ status = Before[activity]
    /\ activity \in {"scope", "plan", "sql"} => loopCount = 0
    /\ verified' <=> activity = "package"

\* A gate ends a cancelled run, holds a paused one and lets any other go on.
LEMMA GateStep ==
    ASSUME TypeOK, NEW activity \in Activities, Gate(activity), Reaches(activity),
           UNCHANGED <<signals, allocated>>, verified' \in BOOLEAN, manifest' \in BOOLEAN,
           spent' \in Nat
    PROVE  Inductive'
<1>1. CASE isCancelled
  <2>1. /\ End("ERR_WORKFLOW_CANCELLED")
        /\ UNCHANGED <<status, prior, loopCount>>
    BY <1>1 DEF Gate, Reaches
  <2> QED
    BY <2>1, EndsStep DEF Steady, TypeOK, Outcomes
<1>2. CASE ~isCancelled /\ isPaused
  <2>1. status = "PAUSED" /\ prior = Before[activity]
    BY <1>2 DEF Reaches
  <2>2. Wait(activity) /\ UNCHANGED <<status, prior, loopCount>>
    BY <1>2, <2>1 DEF Gate
  <2> QED
    BY <1>2, <2>1, <2>2
    DEF Wait, Reaches, Inductive, TypeOK, OnCourse, Course, During, FirstRound, Packaging,
        SealedRunsAreUndisturbed, Activities, signals
<1>3. CASE ~isCancelled /\ ~isPaused
  <2>1. Enter(status, activity) /\ UNCHANGED prior
    BY <1>3 DEF Gate
  <2>2. status = Before[activity] /\ Steady
    BY <1>3, <2>1 DEF Reaches, Steady, TypeOK
  <2> QED
    BY <1>3, <2>1, <2>2, EnterStep DEF Reaches
<1> QED
  BY <1>1, <1>2, <1>3

-----------------------------------------------------------------------------
(* The invariant is kept.                                                  *)

\* No activity result, failure or signal takes a run off its course.
LEMMA InductiveStep == ASSUME Inductive, [Next]_vars PROVE Inductive'
<1> USE ConstantsAssumption DEF Inductive
<1>1. CASE Start
  <2>1. UNCHANGED <<signals, verified, manifest, spent, allocated>> /\ pc = "start"
    BY <1>1 DEF Start
  <2>2. CASE Gate("scope")
    <3>1. Reaches("scope")
      BY <2>1 DEF Reaches, OnCourse, Course, During, Before, FirstRound, Packaging
    <3> QED
      BY <2>1, <2>2, <3>1, GateStep DEF TypeOK, Activities
  <2>3. CASE /\ Transition(status, "FAILED", End("ERR_INVALID_INPUT"))
             /\ UNCHANGED <<prior, loopCount>>
    <3>1. \/ status' = "FAILED" /\ End("ERR_INVALID_INPUT")
          \/ status' = status /\ End("ERR_INVALID_STATE_TRANSITION")
      BY <2>3 DEF Transition
    <3> QED
      BY <2>1, <2>3, <3>1, EndsStep DEF Steady, TypeOK, Outcomes, Statuses
  <2> QED
    BY <1>1, <2>2, <2>3 DEF Start
<1>2. CASE ActivityCompletes
  <2>1. UNCHANGED <<signals, verified, manifest, allocated>> /\ pc \in DOMAIN Successor
    BY <1>2 DEF ActivityCompletes
  <2>2. CASE spent + Cost[pc] > HardStop
    BY <1>2, <2>1, <2>2, EndsStep DEF ActivityCompletes, Crash, Steady, TypeOK, Outcomes, Statuses, ActiveStates
  <2>3. CASE ~(spent + Cost[pc] > HardStop)
    <3>1. pc \in Activities /\ Successor[pc] \in Activities
      BY <2>1 DEF Successor, Activities
    <3>2. Cost[pc] \in Nat /\ spent' \in Nat /\ Gate(Successor[pc])
      BY <1>2, <2>3, <3>1 DEF ActivityCompletes, TypeOK
    <3>3. Course = Before[Successor[pc]] /\ ~verified /\ Successor[pc] # "package"
      BY <2>1 DEF Course, During, Before, Successor, Packaging
    <3>4. Successor[pc] \in {"scope", "plan", "sql"} => loopCount = 0
      BY <2>1 DEF Successor, FirstRound
    <3>5. pc # "ended"
      BY <2>1 DEF Successor
    <3>6. Reaches(Successor[pc])
      BY <2>1, <3>3, <3>4, <3>5 DEF Reaches, OnCourse
    <3> QED
      BY <2>1, <3>1, <3>2, <3>6, GateStep DEF TypeOK
  <2> QED
    BY <2>2, <2>3
<1>3. CASE VerifierConfirms
  <2>1. /\ UNCHANGED <<signals, manifest, spent, allocated>> /\ verified' = TRUE
        /\ pc = "verify" /\ Gate("package")
    BY <1>3 DEF VerifierConfirms
  <2>2. Reaches("package")
    BY <2>1 DEF Reaches, OnCourse, Course, During, Before
  <2> QED
    BY <2>1, <2>2, GateStep DEF TypeOK, Activities
<1>4. CASE VerifierNeedsMore
  <2>1. /\ UNCHANGED <<signals, prior, verified, manifest, spent, allocated>>
        /\ pc = "verify" /\ ~verified /\ outcome = "running"
    BY <1>4 DEF VerifierNeedsMore, OnCourse, Packaging
  <2>2. \/ status = "CANCELLED" \/ (status = "PAUSED" /\ prior = "VERIFYING")
        \/ (status = "VERIFYING" /\ ~isPaused /\ ~isCancelled)
    BY <2>1 DEF OnCourse, Course, During
  <2>3. Steady
    BY <2>1 DEF Steady, TypeOK
  <2>4. CASE loopCount < 2 /\ status = "VERIFYING"
    <3>1. Enter(status, "sql")
      BY <1>4, <2>4 DEF VerifierNeedsMore
    <3> QED
      BY <2>1, <2>2, <2>3, <2>4, <3>1, EnterStep DEF Activities
  <2>5. CASE ~(loopCount < 2) /\ status = "VERIFYING"
    <3>1. Transition(status, "NEED_MORE_EVIDENCE", Schedule("package")) /\ UNCHANGED loopCount
      BY <1>4, <2>5 DEF VerifierNeedsMore
    <3>2. status' = "NEED_MORE_EVIDENCE" /\ Schedule("package")
      BY <2>5, <3>1 DEF Transition, Permitted
    <3> QED
      BY <2>1, <2>2, <2>5, <3>1, <3>2
      DEF Schedule, TypeOK, OnCourse, Course, During, FirstRound, Packaging,
          SealedRunsAreUndisturbed, Statuses, Activities, signals
  <2>6. CASE status # "VERIFYING"
    <3>1. "GATHERING_EVIDENCE" \notin Permitted(status) /\ "NEED_MORE_EVIDENCE" \notin Permitted(status)
      BY <2>2, <2>6 DEF Permitted
    <3>2. status' = status /\ End("ERR_INVALID_STATE_TRANSITION") /\ loopCount' \in {loopCount, loopCount + 1}
      BY <1>4, <3>1 DEF VerifierNeedsMore, Enter, Transition, StatusFor
    <3>3. loopCount' \in 0..2
      BY <1>4, <3>2 DEF VerifierNeedsMore, Enter, TypeOK
    <3> QED
      BY <2>3, <3>2, <3>3, EndsStep DEF TypeOK, Outcomes
  <2> QED
    BY <2>4, <2>5, <2>6
<1>5. CASE VerifierRefutes
  <2>1. \/ status' = "FAILED" /\ End("ERR_VERIFICATION_REFUTED")
        \/ status' = status /\ End("ERR_INVALID_STATE_TRANSITION")
    BY <1>5 DEF VerifierRefutes, Transition
  <2> QED
    BY <1>5, <2>1, EndsStep DEF VerifierRefutes, Steady, progress, TypeOK, Outcomes, Statuses
<1>6. CASE PackageCompletes
  <2>1. /\ UNCHANGED <<signals, prior, loopCount, verified, spent, allocated>>
        /\ pc = "package" /\ manifest' = TRUE /\ Steady
    BY <1>6 DEF PackageCompletes, Steady, TypeOK
  <2>2. CASE status = "NEED_MORE_EVIDENCE"
    BY <1>6, <2>1, <2>2
    DEF PackageCompletes, End, TypeOK, OnCourse, Course, During, FirstRound, Packaging,
        SealedRunsAreUndisturbed, Outcomes, signals
  <2>3. CASE status = "VERIFYING"
    <3>1. status' = "COMPLETED" /\ End("sealed")
      BY <1>6, <2>3 DEF PackageCompletes, Transition, Permitted
    <3> QED
      BY <2>1, <2>3, <3>1
      DEF End, TypeOK, OnCourse, Course, During, FirstRound, Packaging,
          SealedRunsAreUndisturbed, Outcomes, Statuses, signals
  <2>4. CASE status \in {"PAUSED", "CANCELLED"}
    <3>1. "COMPLETED" \notin Permitted(status)
      BY <2>4 DEF Permitted, ActiveStates
    <3>2. status' = status /\ End("ERR_INVALID_STATE_TRANSITION")
      BY <1>6, <2>4, <3>1 DEF PackageCompletes, Transition
    <3> QED
      BY <2>1, <3>2, EndsStep DEF TypeOK, Outcomes
  <2> QED
    BY <2>1, <2>2, <2>3, <2>4 DEF OnCourse, Course, During
<1>7. CASE ActivityFails
  BY <1>7, EndsStep DEF ActivityFails, Crash, Steady, TypeOK, Outcomes, Statuses, ActiveStates
<1>8. CASE Wake
  <2>1. /\ UNCHANGED <<signals, prior, verified, manifest, spent, allocated>>
        /\ pc = "waiting"
        /\ ~isPaused \/ isCancelled
    BY <1>8 DEF Wake
  <2>2. Steady /\ next \in Activities
    BY <2>1 DEF Steady, TypeOK
  <2>3. CASE isCancelled
    <3>1. \/ status' = "CANCELLED" /\ End("ERR_WORKFLOW_CANCELLED")
          \/ status' = status /\ End("ERR_INVALID_STATE_TRANSITION")
      BY <1>8, <2>3 DEF Wake, Transition
    <3>2. UNCHANGED loopCount
      BY <1>8, <2>3 DEF Wake
    <3> QED
      BY <2>2, <3>1, <3>2, EndsStep DEF TypeOK, Outcomes, Statuses
  <2>4. CASE ~isCancelled
    <3>1. prior = Before[next] /\ status = Before[next] /\ Restore
      BY <1>8, <2>1, <2>4 DEF Wake, OnCourse, Course, During
    <3>2. prior # "none" /\ prior \notin Permitted(status)
      BY <2>2, <3>1 DEF Before, Activities, Permitted
    <3>3. End("ERR_INVALID_STATE_TRANSITION") /\ UNCHANGED <<status, loopCount>>
      BY <3>1, <3>2 DEF Restore
    <3> QED
      BY <2>2, <3>3, EndsStep DEF TypeOK, Outcomes
  <2> QED
    BY <2>3, <2>4
<1>9. CASE PauseSignal
  BY <1>9
  DEF PauseSignal, Over, TypeOK, OnCourse, Course, During, FirstRound, Packaging,
      SealedRunsAreUndisturbed, Statuses, progress
<1>10. CASE ResumeSignal
  <2>1. /\ UNCHANGED <<prior, isCancelled, pc, next, progress, outcome>>
        /\ pc # "ended" /\ status = "PAUSED" /\ isPaused' = FALSE /\ prior = Course
    BY <1>10 DEF ResumeSignal, OnCourse
  <2>2. Course \in Statuses \ {"PAUSED", "CANCELLED"} /\ Course # "none"
    BY <2>1 DEF TypeOK, Course, During, Before, Activities, Statuses, ActiveStates
  <2>3. status' = Course /\ Course' = Course
    BY <1>10, <2>1, <2>2 DEF ResumeSignal, Course, progress
  <2>4. TypeOK' /\ OnCourse'
    BY <2>1, <2>2, <2>3 DEF TypeOK, OnCourse, progress
  <2>5. SealedRunsAreUndisturbed'
    BY <2>1 DEF SealedRunsAreUndisturbed, OnCourse
  <2> QED
    BY <2>1, <2>4, <2>5 DEF FirstRound, Packaging, progress
<1>11. CASE CancelSignal
  BY <1>11
  DEF CancelSignal, Over, TypeOK, OnCourse, Course, During, FirstRound, Packaging,
      SealedRunsAreUndisturbed, Statuses, progress
<1>12. CASE UNCHANGED vars
  BY <1>12
  DEF vars, TypeOK, OnCourse, Course, FirstRound, Packaging, SealedRunsAreUndisturbed
<1> QED
  BY <1>1, <1>2, <1>3, <1>4, <1>5, <1>6, <1>7, <1>8, <1>9, <1>10, <1>11, <1>12 DEF Next, Run

\* Every reachable state of a run is on its course.
LEMMA InductiveCorrect == Spec => []Inductive
<1>1. Init => Inductive
  <2> SUFFICES ASSUME Init PROVE Inductive
    OBVIOUS
  <2>1. TypeOK
    <3>1. isPaused \in BOOLEAN /\ isCancelled \in BOOLEAN /\ verified \in BOOLEAN /\ manifest \in BOOLEAN
      BY Zenon DEF Init
    <3>2. /\ status \in Statuses /\ prior \in Statuses \cup {"none"}
          /\ pc \in Activities \cup {"start", "waiting", "ended"} /\ next \in Activities
          /\ outcome \in Outcomes /\ allocated \in Budgets
      BY DEF Init, Statuses, ActiveStates, Activities, Outcomes
    <3>3. loopCount \in 0..2 /\ spent \in Nat
      BY SMT DEF Init
    <3> QED
      BY <3>1, <3>2, <3>3 DEF TypeOK
  <2>2. Course = "INITIALIZING"
    <3>1. pc = "start"
      BY DEF Init
    <3>2. "start" \notin DOMAIN During /\ "start" # "package"
      BY DEF During
    <3> QED
      BY <3>1, <3>2 DEF Course
  <2> QED
    BY <2>1, <2>2 DEF Init, Inductive, OnCourse, FirstRound, Packaging, SealedRunsAreUndisturbed
<1>2. Inductive /\ [Next]_vars => Inductive'
  BY InductiveStep
<1> QED
  BY <1>1, <1>2, PTL DEF Spec

-----------------------------------------------------------------------------
(* What follows from it.                                                   *)

\* The variables of a run keep their types: at most two rounds of evidence.
THEOREM TypeCorrect == Spec => []TypeOK
<1>1. Inductive => TypeOK
  BY DEF Inductive
<1> QED
  BY <1>1, InductiveCorrect, PTL

\* A manifest is only returned by a run that is neither paused nor cancelled,
\* COMPLETED if the verifier confirmed a hypothesis, NEED_MORE_EVIDENCE if not.
THEOREM SealedUndisturbed == Spec => []SealedRunsAreUndisturbed
<1>1. Inductive => SealedRunsAreUndisturbed
  BY DEF Inductive
<1> QED
  BY <1>1, InductiveCorrect, PTL

\* No signal, transition or exception handler overwrites a final status.
THEOREM FinalStatus == Spec => FinalStatusStays
<1>1. [Next]_vars => [(status \in Over) => (status' = status)]_vars
  <2> SUFFICES ASSUME [Next]_vars, status \in Over PROVE status' = status
    OBVIOUS
  <2>1. ASSUME NEW activity, Enter(status, activity) PROVE status' = status
    BY <2>1 DEF Enter, Transition, Permitted, Over
  <2>2. ASSUME NEW activity, Gate(activity) PROVE status' = status
    BY <2>1, <2>2 DEF Gate, Transition, Permitted, Over
  <2>3. CASE Start
    BY <2>2, <2>3 DEF Start, Transition, Permitted, Over
  <2>4. CASE ActivityCompletes \/ ActivityFails
    BY <2>2, <2>4 DEF ActivityCompletes, ActivityFails, Crash, Over
  <2>5. CASE VerifierConfirms \/ VerifierNeedsMore \/ VerifierRefutes
    BY <2>1, <2>2, <2>5
    DEF VerifierConfirms, VerifierNeedsMore, VerifierRefutes, Transition, Permitted, Over
  <2>6. CASE PackageCompletes
    BY <2>6 DEF PackageCompletes, Transition, Permitted, Over
  <2>7. CASE Wake
    <3>1. \/ Transition(status, "CANCELLED", End("ERR_WORKFLOW_CANCELLED")) \/ Restore
      BY <2>7 DEF Wake
    <3>2. prior \notin Permitted(status)
      BY DEF Permitted, Over
    <3> QED
      BY <2>1, <3>1, <3>2 DEF Restore, Transition, Permitted, Over
  <2>8. CASE PauseSignal \/ ResumeSignal \/ CancelSignal
    BY <2>8 DEF PauseSignal, ResumeSignal, CancelSignal, Over
  <2>9. CASE UNCHANGED vars
    BY <2>9 DEF vars
  <2> QED
    BY <2>3, <2>4, <2>5, <2>6, <2>7, <2>8, <2>9 DEF Next, Run
<1> QED
  BY <1>1, PTL DEF Spec, FinalStatusStays

\* A paused or cancelled run schedules nothing until it is resumed.
THEOREM SignalsStop == Spec => SignalsStopScheduling
<1> DEFINE Stops == (isPaused \/ isCancelled) => (pc' \in {pc, "waiting", "ended"})
<1>1. Inductive /\ [Next]_vars => [Stops]_vars
  <2> SUFFICES ASSUME Inductive, [Next]_vars, isPaused \/ isCancelled
               PROVE  pc' \in {pc, "waiting", "ended"}
    OBVIOUS
  <2>1. ASSUME NEW activity, Gate(activity) PROVE pc' \in {"waiting", "ended"}
    BY <2>1 DEF Gate, Transition, End, Wait
  <2>2. CASE Start
    BY <2>1, <2>2 DEF Start, Transition, End
  <2>3. CASE ActivityCompletes \/ ActivityFails
    BY <2>1, <2>3 DEF ActivityCompletes, ActivityFails, Crash, End
  <2>4. CASE VerifierConfirms \/ VerifierRefutes
    BY <2>1, <2>4 DEF VerifierConfirms, VerifierRefutes, Transition, End
  <2>5. CASE VerifierNeedsMore
    <3>1. status = "CANCELLED" \/ (status = "PAUSED" /\ prior = "VERIFYING")
      BY <2>5 DEF VerifierNeedsMore, Inductive, OnCourse, Course, During
    <3>2. "GATHERING_EVIDENCE" \notin Permitted(status) /\ "NEED_MORE_EVIDENCE" \notin Permitted(status)
      BY <3>1 DEF Permitted
    <3> QED
      BY <2>5, <3>2 DEF VerifierNeedsMore, Enter, Transition, StatusFor, End
  <2>6. CASE PackageCompletes
    BY <2>6 DEF PackageCompletes, Transition, End
  <2>7. CASE Wake
    BY <2>7 DEF Wake, Transition, End
  <2>8. CASE PauseSignal \/ ResumeSignal \/ CancelSignal \/ UNCHANGED vars
    BY <2>8 DEF PauseSignal, ResumeSignal, CancelSignal, vars
  <2> QED
    BY <2>2, <2>3, <2>4, <2>5, <2>6, <2>7, <2>8 DEF Next, Run
<1> QED
  BY <1>1, InductiveCorrect, PTL DEF Spec, SignalsStopScheduling


-----------------------------------------------------------------------------
(* The run comes to its end: the measure behind RunEnds.                   *)

\* The activities from an activity to the end of its round, the package included.
Remaining == [scope |-> 8, plan |-> 7, sql |-> 6, retrieval |-> 5, tickets |-> 4,
              synthesize |-> 3, verify |-> 2, package |-> 1]

\* How many stretches of code the coroutine may still have to run: one for each
\* activity and one for each gate before it, and five activities for each round.
Rank == CASE pc = "ended" -> 0
          [] pc = "start" -> 38
          [] pc = "waiting" -> 2 * Remaining[next] + 1 + 10 * (2 - loopCount)
          [] OTHER -> 2 * Remaining[pc] + 10 * (2 - loopCount)

\* Whatever is scheduled next, or waited for, is nearer to the end.
LEMMA GateDescends ==
    ASSUME TypeOK, NEW activity \in Activities, Gate(activity), pc # "waiting",
           Rank \in Nat, Rank > 2 * Remaining[activity] + 1 + 10 * (2 - loopCount)
    PROVE  Rank' < Rank
<1>1. Remaining[activity] \in 1..8 /\ loopCount \in 0..2 /\ activity \notin {"ended", "start", "waiting"}
  BY DEF TypeOK, Remaining, Activities
<1>2. CASE pc' = "ended"
  <2>1. Rank' = 0
    BY <1>2 DEF Rank
  <2> QED
    BY <1>1, <2>1
<1>3. CASE pc' = "waiting" /\ next' = activity /\ loopCount' = loopCount
  <2>1. Rank' = 2 * Remaining[activity] + 1 + 10 * (2 - loopCount)
    BY <1>3 DEF Rank
  <2> QED
    BY <1>1, <2>1
<1>4. CASE pc' = activity /\ loopCount' \in {loopCount, loopCount + 1}
  <2>1. Rank' = 2 * Remaining[activity] + 10 * (2 - loopCount')
    BY <1>1, <1>4 DEF Rank
  <2> QED
    BY <1>1, <1>4, <2>1
<1> QED
  BY <1>2, <1>3, <1>4 DEF Gate, Enter, Transition, End, Wait, Schedule

\* Every stretch of the coroutine's code brings the run nearer to its end, and no signal
\* takes it back (investigation_workflow.py): at most 38 of them, however the run is paused,
\* resumed or cancelled, and for every budget and cost.
RunDescends == [][IF Run THEN Rank' < Rank ELSE Rank' = Rank]_vars

THEOREM RunsAreBounded == Spec => [](Rank \in 0..38) /\ RunDescends
<1>1. ASSUME Inductive PROVE Rank \in 0..38
  <2>1. loopCount \in 0..2 /\ next \in Activities /\ pc \in Activities \cup {"start", "waiting", "ended"}
    BY <1>1 DEF Inductive, TypeOK
  <2>2. \A activity \in Activities : Remaining[activity] \in 1..8
    BY DEF Activities, Remaining
  <2>3. "ended" \notin Activities /\ "start" \notin Activities /\ "waiting" \notin Activities
    BY DEF Activities
  <2> QED
    BY <2>1, <2>2, <2>3 DEF Rank
<1>2. ASSUME Inductive, [Next]_vars PROVE IF Run THEN Rank' < Rank ELSE (Rank' = Rank)
  <2>0. TypeOK /\ loopCount \in 0..2 /\ Rank \in Nat
    BY <1>1, <1>2 DEF Inductive, TypeOK
  <2>1. CASE Start
    <3>1. pc = "start" /\ (Gate("scope") \/ pc' = "ended")
      BY <2>1 DEF Start, Transition, End
    <3>2. CASE pc' = "ended"
      BY <2>1, <3>1, <3>2 DEF Rank, Run
    <3>3. CASE Gate("scope")
      BY <2>0, <2>1, <3>1, <3>3, GateDescends DEF Rank, Remaining, Activities, Run
    <3> QED
      BY <3>1, <3>2, <3>3
  <2>2. CASE ActivityCompletes
    <3>1. pc \in DOMAIN Successor /\ (pc' = "ended" \/ Gate(Successor[pc]))
      BY <2>2 DEF ActivityCompletes, Crash, End
    <3>2. Successor[pc] \in Activities /\ pc # "waiting"
      BY <3>1 DEF Successor, Activities
    <3>3. Rank = 2 * Remaining[Successor[pc]] + 2 + 10 * (2 - loopCount)
      BY <2>0, <3>1 DEF Rank, Remaining, Successor
    <3>4. Remaining[Successor[pc]] \in 1..8
      BY <3>2 DEF Remaining, Activities
    <3>5. CASE pc' = "ended"
      BY <2>0, <2>2, <3>3, <3>4, <3>5 DEF Rank, Run
    <3>6. CASE Gate(Successor[pc])
      BY <2>0, <2>2, <3>2, <3>3, <3>4, <3>6, GateDescends DEF Run
    <3> QED
      BY <3>1, <3>5, <3>6
  <2>3. CASE VerifierConfirms
    <3>1. pc = "verify" /\ Gate("package")
      BY <2>3 DEF VerifierConfirms
    <3>2. Rank = 4 + 10 * (2 - loopCount) /\ Remaining["package"] = 1
      BY <3>1 DEF Rank, Remaining
    <3> QED
      BY <2>0, <2>3, <3>1, <3>2, GateDescends DEF Activities, Run
  <2>4. CASE VerifierNeedsMore
    <3>1. pc = "verify" /\ Rank = 4 + 10 * (2 - loopCount)
      BY <2>4 DEF VerifierNeedsMore, Rank, Remaining
    <3>2. \/ pc' = "ended"
          \/ loopCount < 2 /\ pc' = "sql" /\ loopCount' = loopCount + 1
          \/ pc' = "package" /\ loopCount' = loopCount
      BY <2>4 DEF VerifierNeedsMore, Enter, Transition, Schedule, End, StatusFor
    <3>3. Rank' < Rank
      BY <2>0, <3>1, <3>2 DEF Rank, Remaining
    <3> QED
      BY <2>4, <3>3 DEF Run
  <2>5. CASE VerifierRefutes \/ PackageCompletes \/ ActivityFails
    <3>1. pc' = "ended" /\ pc \in Activities
      BY <2>5 DEF VerifierRefutes, PackageCompletes, ActivityFails, Crash, Transition, End, Activities
    <3>2. Rank' = 0 /\ Rank > 0
      BY <2>0, <3>1 DEF Rank, Remaining, Activities
    <3> QED
      BY <2>5, <3>2 DEF Run
  <2>6. CASE Wake
    <3>1. pc = "waiting" /\ (pc' = "ended" \/ Enter(status, next) \/ Enter(prior, next))
      BY <2>6 DEF Wake, Restore, Transition, End
    <3>2. Rank = 2 * Remaining[next] + 1 + 10 * (2 - loopCount) /\ Remaining[next] \in 1..8 /\ next \in Activities
      BY <2>0, <3>1 DEF Rank, TypeOK, Remaining, Activities
    <3>3. pc' = "ended" \/ (pc' = next /\ loopCount' \in {loopCount, loopCount + 1})
      BY <3>1 DEF Enter, Transition, Schedule, End
    <3>4. next \notin {"start", "waiting", "ended"}
      BY <3>2 DEF Activities
    <3>5. Rank' < Rank
      BY <2>0, <3>2, <3>3, <3>4 DEF Rank, Remaining
    <3> QED
      BY <2>6, <3>5 DEF Run
  <2>7. CASE PauseSignal \/ ResumeSignal \/ CancelSignal \/ UNCHANGED vars
    <3>1. UNCHANGED <<pc, next, loopCount>> /\ pc \in Activities \cup {"start", "waiting", "ended"}
      BY <2>0, <2>7 DEF PauseSignal, ResumeSignal, CancelSignal, progress, vars, TypeOK
    <3>2. Rank' = Rank
      BY <3>1 DEF Rank
    <3>3. ~Run
      BY <1>1, <1>2, <2>1, <2>2, <2>3, <2>4, <2>5, <2>6, <3>2 DEF Run
    <3> QED
      BY <3>2, <3>3
  <2> QED
    BY <1>2, <2>1, <2>2, <2>3, <2>4, <2>5, <2>6, <2>7 DEF Next, Run
<1>3. Inductive /\ [Next]_vars => [IF Run THEN Rank' < Rank ELSE (Rank' = Rank)]_vars
  BY <1>2
<1> QED
  BY <1>1, <1>3, InductiveCorrect, PTL DEF Spec, RunDescends


-----------------------------------------------------------------------------
(* What a run costs: when the budget that nobody enforces suffices.        *)

\* What the activities before the first round of gathering cost, and those of a round.
Opening == Cost["scope"] + Cost["plan"]
Round == Cost["sql"] + Cost["retrieval"] + Cost["tickets"] + Cost["synthesize"]

\* What has been charged once an activity is scheduled, or waited for.
Charged(activity) ==
    LET before == Opening + IF loopCount = 2 THEN Round ELSE 0
    IN CASE activity = "scope" -> 0
         [] activity = "plan" -> Cost["scope"]
         [] activity = "sql" -> before
         [] activity = "retrieval" -> before + Cost["sql"]
         [] activity = "tickets" -> before + Cost["sql"] + Cost["retrieval"]
         [] activity = "synthesize" -> before + Cost["sql"] + Cost["retrieval"] + Cost["tickets"]
         [] OTHER -> before + Round

\* Every activity is charged once for each time it has been run.
Accounts ==
    /\ pc = "start" => spent = 0
    /\ pc = "waiting" => spent = Charged(next)
    /\ pc \in Activities => spent = Charged(pc)
    /\ pc \notin {"ended", "start"} /\ ~FirstRound => loopCount \in 1..2
    /\ spent <= Opening + 2 * Round
    /\ spent <= HardStop

\* What a run that has just charged for what comes before an activity does next.
LEMMA GateAccounts ==
    ASSUME TypeOK, NEW activity \in Activities, Gate(activity), spent' \in Nat,
           spent' = Charged(activity), spent' <= Opening + 2 * Round, spent' <= HardStop,
           IF activity \in {"scope", "plan", "sql"} THEN loopCount = 0 ELSE loopCount \in 1..2
    PROVE  Accounts'
<1> USE ConstantsAssumption
<1>0. /\ \A a \in Activities : Cost[a] \in Nat
      /\ activity \notin {"start", "waiting", "ended"} /\ "waiting" \notin Activities
      /\ "ended" \notin Activities /\ "start" \notin Activities
      /\ Opening' = Opening /\ Round' = Round
  BY DEF Activities, Opening, Round
<1>1. CASE pc' = "ended"
  BY <1>0, <1>1 DEF Accounts
<1>2. CASE pc' = "waiting" /\ next' = activity /\ loopCount' = loopCount
  <2>1. Charged(activity)' = Charged(activity)
    BY <1>2 DEF Charged, Opening, Round
  <2> QED
    BY <1>0, <1>2, <2>1 DEF Accounts, FirstRound, Activities
<1>3. CASE pc' = activity /\ loopCount' = IF activity = "sql" THEN loopCount + 1 ELSE loopCount
  <2>1. Charged(activity)' = Charged(activity)
    BY <1>3 DEF Charged, Opening, Round
  <2> QED
    BY <1>0, <1>3, <2>1 DEF Accounts, FirstRound, Activities
<1> QED
  BY <1>1, <1>2, <1>3 DEF Gate, Enter, Transition, End, Wait, Schedule

LEMMA AccountsStep == ASSUME Inductive, Accounts, [Next]_vars PROVE Accounts'
<1> USE ConstantsAssumption
<1>0. /\ TypeOK /\ spent \in Nat /\ loopCount \in 0..2
      /\ \A a \in Activities : Cost[a] \in Nat
      /\ "waiting" \notin Activities /\ "ended" \notin Activities /\ "start" \notin Activities
      /\ Opening \in Nat /\ Round \in Nat /\ Opening' = Opening /\ Round' = Round
  BY DEF Inductive, TypeOK, Activities, Opening, Round
<1>1. ASSUME pc' = "ended", UNCHANGED spent PROVE Accounts'
  BY <1>0, <1>1 DEF Accounts
<1>2. CASE Start
  <2>1. UNCHANGED spent /\ spent = 0 /\ pc = "start" /\ (pc' = "ended" \/ Gate("scope"))
    BY <1>2 DEF Start, Transition, End, Accounts
  <2>2. Charged("scope") = 0 /\ loopCount = 0 /\ "scope" \in Activities
    BY <2>1 DEF Charged, Inductive, FirstRound, Activities
  <2>3. CASE Gate("scope")
    BY <1>0, <2>1, <2>2, <2>3, GateAccounts DEF Accounts
  <2> QED
    BY <1>1, <2>1, <2>3
<1>3. CASE ActivityCompletes
  <2>1. CASE spent + Cost[pc] > HardStop
    BY <1>1, <1>3, <2>1 DEF ActivityCompletes, Crash, End
  <2>2. CASE ~(spent + Cost[pc] > HardStop)
    <3>1. /\ pc \in DOMAIN Successor /\ pc \in Activities /\ Successor[pc] \in Activities
          /\ spent' = spent + Cost[pc] /\ Gate(Successor[pc])
      BY <1>3, <2>2 DEF ActivityCompletes, Successor, Activities
    <3>2. IF pc \in {"scope", "plan"} THEN loopCount = 0 ELSE loopCount \in 1..2
      BY <3>1 DEF Inductive, FirstRound, Accounts, Successor
    <3>3. spent = Charged(pc)
      BY <3>1 DEF Accounts
    <3>4. Cost[pc] \in Nat /\ spent' \in Nat /\ spent' <= HardStop
      BY <1>0, <2>2, <3>1
    <3>5. spent' = Charged(Successor[pc]) /\ spent' <= Opening + 2 * Round
      <4>1. /\ Cost["scope"] \in Nat /\ Cost["plan"] \in Nat /\ Cost["sql"] \in Nat
            /\ Cost["retrieval"] \in Nat /\ Cost["tickets"] \in Nat /\ Cost["synthesize"] \in Nat
        BY <1>0 DEF Activities
      <4> HIDE ConstantsAssumption
      <4> QED
        BY <3>1, <3>2, <3>3, <4>1 DEF Charged, Opening, Round, Successor
    <3>6. IF Successor[pc] \in {"scope", "plan", "sql"} THEN loopCount = 0 ELSE loopCount \in 1..2
      BY <3>1, <3>2 DEF Successor
    <3> QED
      BY <1>0, <3>1, <3>4, <3>5, <3>6, GateAccounts
  <2> QED
    BY <2>1, <2>2
<1>4. CASE VerifierConfirms
  <2>1. /\ pc = "verify" /\ pc \in Activities /\ Gate("package") /\ UNCHANGED spent
        /\ "package" \in Activities /\ loopCount \in 1..2
    BY <1>4 DEF VerifierConfirms, Activities, Accounts, FirstRound
  <2>2. spent = Charged("package")
    BY <2>1 DEF Accounts, Charged
  <2> QED
    BY <1>0, <2>1, <2>2, GateAccounts DEF Accounts
<1>5. CASE VerifierNeedsMore
  <2>1. /\ pc = "verify" /\ pc \in Activities /\ UNCHANGED spent /\ loopCount \in 1..2
    BY <1>5 DEF VerifierNeedsMore, Activities, Accounts, FirstRound
  <2>2. spent = Charged("verify")
    BY <2>1 DEF Accounts
  <2>3. \/ pc' = "ended"
        \/ loopCount = 1 /\ pc' = "sql" /\ loopCount' = 2
        \/ loopCount = 2 /\ pc' = "package" /\ loopCount' = 2
    BY <1>5, <2>1 DEF VerifierNeedsMore, Enter, Transition, Schedule, End, StatusFor
  <2>4. CASE loopCount = 1 /\ pc' = "sql" /\ loopCount' = 2
    BY <1>0, <2>1, <2>2, <2>4 DEF Accounts, Charged, FirstRound, Opening, Round, Activities
  <2>5. CASE loopCount = 2 /\ pc' = "package" /\ loopCount' = 2
    BY <1>0, <2>1, <2>2, <2>5 DEF Accounts, Charged, FirstRound, Opening, Round, Activities
  <2> QED
    BY <1>1, <2>1, <2>3, <2>4, <2>5
<1>6. CASE VerifierRefutes \/ PackageCompletes \/ ActivityFails
  BY <1>1, <1>6 DEF VerifierRefutes, PackageCompletes, ActivityFails, Crash, Transition, End, progress
<1>7. CASE Wake
  <2>1. pc = "waiting" /\ UNCHANGED <<spent, prior>> /\ next \in Activities
    BY <1>0, <1>7 DEF Wake, TypeOK
  <2>2. pc' = "ended"
    <3>1. CASE isCancelled
      BY <1>7, <3>1 DEF Wake, Transition, End
    <3>2. CASE ~isCancelled
      <4>1. prior = Before[next] /\ status = Before[next] /\ Restore
        BY <1>7, <2>1, <3>2 DEF Wake, Inductive, OnCourse, Course, During
      <4>2. prior # "none" /\ prior \notin Permitted(status)
        BY <2>1, <4>1 DEF Before, Activities, Permitted
      <4> QED
        BY <4>1, <4>2 DEF Restore, End
    <3> QED
      BY <3>1, <3>2
  <2> QED
    BY <1>1, <2>1, <2>2
<1>8. CASE PauseSignal \/ ResumeSignal \/ CancelSignal \/ UNCHANGED vars
  <2>1. UNCHANGED <<pc, next, loopCount, spent>>
    BY <1>8 DEF PauseSignal, ResumeSignal, CancelSignal, progress, vars
  <2> QED
    BY <1>0, <2>1 DEF Accounts, Charged, FirstRound, Opening, Round
<1> QED
  BY <1>2, <1>3, <1>4, <1>5, <1>6, <1>7, <1>8 DEF Next, Run

\* A run costs what two rounds cost, and never more than the hard stop: signals, failures and
\* repeated answers of the verifier charge nothing twice (record_spend, investigation_workflow.py).
THEOREM SpendIsBounded == Spec => [](spent <= Opening + 2 * Round /\ spent <= HardStop)
<1>1. Init => Accounts
  BY ConstantsAssumption DEF Init, Accounts, FirstRound, Activities, Opening, Round
<1>2. Inductive /\ Accounts /\ [Next]_vars => Accounts'
  BY AccountsStep
<1>3. Accounts => spent <= Opening + 2 * Round /\ spent <= HardStop
  BY DEF Accounts
<1> QED
  BY <1>1, <1>2, <1>3, InductiveCorrect, PTL DEF Spec

\* So INV-COST-001, which no check enforces, holds of investigations whose budget covers two
\* rounds, or is no less than the hard stop.
THEOREM AmpleBudgets ==
    ASSUME \A budget \in Budgets : Opening + 2 * Round <= budget \/ HardStop <= budget
    PROVE  Spec => []SpendWithinBudget
<1>1. TypeOK /\ spent <= Opening + 2 * Round /\ spent <= HardStop => SpendWithinBudget
  <2>1. Opening \in Nat /\ Round \in Nat
    BY ConstantsAssumption DEF Activities, Opening, Round
  <2> QED
    BY <2>1, ConstantsAssumption DEF TypeOK, SpendWithinBudget
<1> QED
  BY <1>1, SpendIsBounded, TypeCorrect, PTL

-----------------------------------------------------------------------------
(* Which runs die of a forbidden transition.                               *)

\* A run that is neither paused nor cancelled takes no forbidden transition, but where a gate
\* it was paused in restores a status that the resume handler has restored already
\* (state_machine.py against _check_pause_and_cancellation).
OnlyGatesForbid ==
    [][outcome' = "ERR_INVALID_STATE_TRANSITION" /\ ~isPaused /\ ~isCancelled
          => outcome = outcome' \/ pc = "waiting"]_vars

THEOREM UndisturbedRunsArePermitted == Spec => OnlyGatesForbid
<1> DEFINE Forbids == outcome' = "ERR_INVALID_STATE_TRANSITION" /\ ~isPaused /\ ~isCancelled
                         => outcome = outcome' \/ pc = "waiting"
<1>1. ASSUME Inductive, [Next]_vars PROVE Forbids
  <2> SUFFICES ASSUME outcome' = "ERR_INVALID_STATE_TRANSITION", ~isPaused, ~isCancelled,
                      pc # "waiting"
               PROVE  outcome = outcome'
    OBVIOUS
  <2>0. TypeOK /\ (pc # "ended" => outcome = "running" /\ status = Course)
    BY <1>1 DEF Inductive, OnCourse, TypeOK
  <2>1. CASE Start
    <3>1. status = "INITIALIZING" /\ outcome = "running"
      BY <2>0, <2>1 DEF Start, Course, During
    <3> QED
      BY <2>1, <3>1 DEF Start, Gate, Enter, Transition, StatusFor, Permitted, Schedule, End
  <2>2. CASE ActivityCompletes
    <3>1. pc \in DOMAIN Successor /\ pc # "ended" /\ status = Before[Successor[pc]]
      BY <2>0, <2>2 DEF ActivityCompletes, Successor, Before, Course, During
    <3>2. Crash \/ Enter(status, Successor[pc])
      BY <2>2 DEF ActivityCompletes, Gate
    <3>3. outcome = "running"
      BY <2>0, <3>1
    <3>4. CASE Crash
      BY <3>4 DEF Crash, End
    <3>5. CASE Enter(status, Successor[pc])
      BY <3>1, <3>3, <3>5 DEF Enter, Transition, StatusFor, Permitted, Schedule, End, Successor, Before
    <3> QED
      BY <3>2, <3>4, <3>5
  <2>3. CASE VerifierConfirms \/ VerifierNeedsMore \/ VerifierRefutes
    <3>1. status = "VERIFYING" /\ outcome = "running"
      BY <2>0, <2>3 DEF VerifierConfirms, VerifierNeedsMore, VerifierRefutes, Course, During
    <3> QED
      BY <2>3, <3>1 DEF VerifierConfirms, VerifierNeedsMore, VerifierRefutes, Gate, Enter, Transition,
         StatusFor, Permitted, Schedule, End
  <2>4. CASE PackageCompletes
    <3>1. status \in {"VERIFYING", "NEED_MORE_EVIDENCE"} /\ outcome = "running"
      BY <2>0, <2>4 DEF PackageCompletes, Course, During
    <3> QED
      BY <2>4, <3>1 DEF PackageCompletes, Transition, Permitted, End
  <2>5. CASE ActivityFails
    BY <2>5 DEF ActivityFails, Crash, End
  <2>6. CASE Wake
    BY <2>6 DEF Wake
  <2>7. CASE PauseSignal \/ ResumeSignal \/ CancelSignal \/ UNCHANGED vars
    BY <2>7 DEF PauseSignal, ResumeSignal, CancelSignal, vars
  <2> QED
    BY <1>1, <2>1, <2>2, <2>3, <2>4, <2>5, <2>6, <2>7 DEF Next, Run
<1>2. Inductive /\ [Next]_vars => [Forbids]_vars
  BY <1>1
<1> QED
  BY <1>2, InductiveCorrect, PTL DEF Spec, OnlyGatesForbid

=============================================================================
