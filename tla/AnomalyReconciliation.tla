----------------------- MODULE AnomalyReconciliation ------------------------
(***************************************************************************)
(* The anomalies of one tenant and metric: their lifecycle (analytics/     *)
(* lifecycle.py) and the reconciliation of a window after late events      *)
(* (analytics/reconciliation.py), which queries the metric again and       *)
(* supersedes the anomalies that are none any more.  Both are synchronous: *)
(* one action each.  The query may fail for an anomaly, which degrades it, *)
(* or raise, which ends the reconciliation where it is.                    *)
(*                                                                         *)
(* A value is AnNormal or one of AnBreaches, those outside the anomaly's   *)
(* interval.  Every transition appends one audit record and one outbox     *)
(* event that carry the new version: anVersion counts them.                *)
(***************************************************************************)
EXTENDS Naturals

CONSTANTS AnAnomalies,    \* anomalies that are detected
          AnBreaches,     \* values outside the expected interval
          AnNormal,       \* a value inside it
          AnMaxVersion    \* bound: transitions of an anomaly

ASSUME AnNormalAssumption == AnNormal \notin AnBreaches
ASSUME AnMaxVersionAssumption == AnMaxVersion \in Nat \ {0}

VARIABLES anState,        \* state, "none" before it is detected
          anVersion,      \* version, transitions and outbox events
          anEnded,        \* whether effective_to is set
          anValue,        \* actual_value
          anFresh,        \* data_freshness
          anSeen,         \* history: the value last computed
          anCarried       \* history: computed as normal and left as they were, see below

anVars == <<anState, anVersion, anEnded, anValue, anFresh, anSeen, anCarried>>

AnStates == {"DETECTED", "VALIDATED", "LOCALIZED", "ACKNOWLEDGED", "SUPPRESSED", "RESOLVED", "REOPENED"}

\* _LEGAL_TRANSITIONS.
AnLegal(s) ==
    CASE s = "DETECTED"     -> {"VALIDATED", "SUPPRESSED"}
      [] s = "VALIDATED"    -> {"LOCALIZED", "SUPPRESSED"}
      [] s = "LOCALIZED"    -> {"ACKNOWLEDGED", "SUPPRESSED"}
      [] s = "ACKNOWLEDGED" -> {"RESOLVED", "SUPPRESSED"}
      [] s = "RESOLVED"     -> {"REOPENED"}
      [] s = "REOPENED"     -> {"LOCALIZED", "ACKNOWLEDGED", "RESOLVED", "SUPPRESSED"}
      [] OTHER              -> {}

AnInit == /\ anState = [a \in AnAnomalies |-> "none"]
          /\ anVersion = [a \in AnAnomalies |-> 0]
          /\ anEnded = [a \in AnAnomalies |-> FALSE]
          /\ anValue = [a \in AnAnomalies |-> AnNormal]
          /\ anFresh = [a \in AnAnomalies |-> "FRESH"]
          /\ anSeen = [a \in AnAnomalies |-> AnNormal]
          /\ anCarried = {}

\* create_detected and register_anomaly compare the value with nothing: that it is a breach
\* is what the detector that calls them has found.
AnDetect(a, v) == /\ anState[a] = "none"
                  /\ anState' = [anState EXCEPT ![a] = "DETECTED"]
                  /\ anVersion' = [anVersion EXCEPT ![a] = 1]
                  /\ anValue' = [anValue EXCEPT ![a] = v]
                  /\ anSeen' = [anSeen EXCEPT ![a] = v]
                  /\ UNCHANGED <<anEnded, anFresh, anCarried>>

\* transition_to by a principal of the tenant; effective_to is set at the ends and never cleared.
AnTransition(a, s) ==
    /\ anVersion[a] < AnMaxVersion
    /\ s \in AnLegal(anState[a])
    /\ anState' = [anState EXCEPT ![a] = s]
    /\ anVersion' = [anVersion EXCEPT ![a] = @ + 1]
    /\ anEnded' = [anEnded EXCEPT ![a] = @ \/ s \in {"SUPPRESSED", "RESOLVED"}]
    /\ UNCHANGED <<anValue, anFresh, anSeen, anCarried>>

\* The anomalies whose windows a reconciliation may meet.
AnCandidates == {a \in AnAnomalies : anState[a] \notin {"none", "SUPPRESSED"}}

AnSuperseded(a, v) == v = AnNormal /\ anState[a] # "RESOLVED"

\* Mutant: the value is stored only for what was reopened.
AnKeepsValueUnlessNormal(a, v) == v \in AnBreaches /\ anState[a] = "REOPENED"

\* A value that is still a breach is stored.
AnTakesValue(a, v) == v \in AnBreaches

\* reconcile_window over the anomalies of the window: those in done were computed, with the
\* result out (a value, or a failed query); the query of those in hit, at most one, raised.
\* The caller may pass an actor of another tenant, whom transition_to refuses: the refusal is
\* returned to nobody, and what was to be superseded is FRESH as it is.
AnReconcile(done, hit, out, authorised) ==
    LET computed == {a \in done : out[a] # "failed"}
        gone == {a \in computed : authorised /\ AnSuperseded(a, out[a])}
    IN /\ done \cup hit # {}
       /\ anState' = [a \in AnAnomalies |-> IF a \in gone THEN "SUPPRESSED" ELSE anState[a]]
       /\ anVersion' = [a \in AnAnomalies |-> IF a \in gone THEN anVersion[a] + 1 ELSE anVersion[a]]
       /\ anEnded' = [a \in AnAnomalies |-> anEnded[a] \/ a \in gone]
       /\ anValue' = [a \in AnAnomalies |-> IF a \in computed /\ AnTakesValue(a, out[a])
                                            THEN out[a] ELSE anValue[a]]
       /\ anFresh' = [a \in AnAnomalies |-> CASE a \in computed -> "FRESH"
                                              [] a \in done \ computed -> "DEGRADED"
                                              [] a \in hit -> "RECALCULATING"
                                              [] OTHER -> anFresh[a]]
       /\ anSeen' = [a \in AnAnomalies |-> IF a \in computed THEN out[a] ELSE anSeen[a]]
       /\ anCarried' = (anCarried \ computed)
                       \cup {a \in computed : /\ out[a] = AnNormal
                                              /\ anState[a] = "RESOLVED" \/ ~authorised}

AnNext == \/ \E a \in AnAnomalies, v \in AnBreaches : AnDetect(a, v)
          \/ \E a \in AnAnomalies, s \in AnStates : AnTransition(a, s)
          \/ \E done \in SUBSET AnCandidates :
                \E hit \in {{}} \cup {{a} : a \in AnCandidates \ done} :
                \E out \in [done -> AnBreaches \cup {AnNormal, "failed"}], authorised \in BOOLEAN :
                    AnReconcile(done, hit, out, authorised)

AnSpec == AnInit /\ [][AnNext]_anVars

-----------------------------------------------------------------------------
AnTypeOK == /\ anState \in [AnAnomalies -> {"none"} \cup AnStates]
            /\ anVersion \in [AnAnomalies -> 0..(AnMaxVersion + 1)]
            /\ anEnded \in [AnAnomalies -> BOOLEAN]
            /\ anValue \in [AnAnomalies -> AnBreaches \cup {AnNormal}]
            /\ anFresh \in [AnAnomalies -> {"FRESH", "DEGRADED", "RECALCULATING"}]
            /\ anSeen \in [AnAnomalies -> AnBreaches \cup {AnNormal}]
            /\ anCarried \subseteq AnAnomalies

AnOpen(a) == anState[a] \notin {"none", "SUPPRESSED", "RESOLVED"}

\* What is open and FRESH is an anomaly of the value last computed, through failing and raising
\* queries, windows that overlap and anomalies that are resolved and reopened between two
\* reconciliations. There are two exceptions, which keep the value they had although the window
\* was computed as normal: an anomaly that was RESOLVED then, and any anomaly of a reconciliation
\* whose actor transition_to refuses, the result of which the code ignores
\* (reconciliation.py:100-183, :151-177; lifecycle.py:139-152, :308-333).
AnFreshIsCurrent ==
    \A a \in AnAnomalies : AnOpen(a) /\ anFresh[a] = "FRESH" /\ a \notin anCarried
                              => anValue[a] = anSeen[a] /\ anSeen[a] \in AnBreaches
=============================================================================
