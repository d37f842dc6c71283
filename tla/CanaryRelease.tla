--------------------------- MODULE CanaryRelease ----------------------------
(***************************************************************************)
(* Release bundles (operations/release/manager.py), the canary controller  *)
(* that shifts traffic to them (canary.py) and the rollback it triggers    *)
(* (rollback.py).  One controller over one registry; no method awaits, so  *)
(* each is one action.  A manifest is complete or is refused with nothing  *)
(* changed; the five health triggers are what evaluate_canary_health       *)
(* compares its arguments with.                                            *)
(***************************************************************************)
EXTENDS Naturals

CONSTANTS CrBundles,    \* bundle identifiers
          CrNone        \* no bundle

VARIABLES crStatus,     \* status of every bundle, "unknown" unless registered
          crReasons,    \* bundles with a quarantine reason
          crStage,      \* current_stage
          crTraffic,    \* traffic_percentage
          crActive,     \* active_canary_bundle_id
          crSummary,    \* last_rollback_summary: bundle and tiers
          crAborted     \* history: bundles aborted since they were last registered

crVars == <<crStatus, crReasons, crStage, crTraffic, crActive, crSummary, crAborted>>

CrTiers == 1..13
CrTriggers == {"5xx", "latency", "crashes", "isolation", "cost"}

\* The tiers that the six steps of a rollback revert, in order.
CrSteps == <<{1, 2}, {11, 12}, {4}, {6, 7}, {8, 9, 10}, {3, 13}>>

CrInit == /\ crStatus = [b \in CrBundles |-> "unknown"]
          /\ crReasons = {}
          /\ crStage = "IDLE"
          /\ crTraffic = 0
          /\ crActive = CrNone
          /\ crSummary = [bundle |-> CrNone, tiers |-> {}]
          /\ crAborted = {}

\* A complete manifest is stored with the status it states, in place of any other of its
\* name; the reason of an earlier quarantine stays. Nothing tells one status from another
\* unless it is QUARANTINED: QUALIFIED, the default, stands for the others.
CrRegister(b, status) ==
    /\ crStatus' = [crStatus EXCEPT ![b] = status]
    /\ crAborted' = crAborted \ {b}
    /\ UNCHANGED <<crReasons, crStage, crTraffic, crActive, crSummary>>

\* A bundle that is not registered leaves its reason only.
CrQuarantined(b) ==
    /\ crStatus' = [crStatus EXCEPT ![b] = IF @ = "unknown" THEN @ ELSE "QUARANTINED"]
    /\ crReasons' = crReasons \cup {b}

CrQuarantine(b) == /\ CrQuarantined(b)
                   /\ UNCHANGED <<crStage, crTraffic, crActive, crSummary, crAborted>>

CrStageOf(percentage) == CASE percentage = 5 -> "CANARY_5"
                           [] percentage = 25 -> "CANARY_25"
                           [] percentage = 100 -> "GENERAL_100"

\* promote_canary_stage: any percentage after any other, registered or not.
CrPromote(b, percentage) ==
    /\ crStatus[b] # "QUARANTINED"
    /\ crStage' = CrStageOf(percentage)
    /\ crTraffic' = percentage
    /\ crActive' = b
    /\ UNCHANGED <<crStatus, crReasons, crSummary, crAborted>>

CrStart(b) == crStatus[b] # "unknown" /\ CrPromote(b, 5)

\* The six steps report what they revert; the audit emitter may raise before the
\* controller keeps the summary.
CrCoordinatedRollback(b) ==
    \/ crSummary' = [bundle |-> b, tiers |-> UNION {CrSteps[k] : k \in 1..6}]
    \/ UNCHANGED crSummary

\* Mutant: the aborted bundle keeps the traffic unless it is the active one.
CrAbortActiveOnly(b) ==
    /\ crStage' = IF b = crActive THEN "ABORTED_ROLLED_BACK" ELSE crStage
    /\ crTraffic' = IF crActive = b /\ crTraffic = 5 THEN 0 ELSE crTraffic
    /\ CrQuarantined(b)
    /\ CrCoordinatedRollback(b)
    /\ crAborted' = crAborted \cup {b}
    /\ UNCHANGED crActive

\* abort_and_rollback takes the traffic from whatever bundle has it, and quarantines the
\* bundle it is called for, registered or not.
CrAbort(b) ==
    /\ crStage' = "ABORTED_ROLLED_BACK"
    /\ crTraffic' = 0
    /\ CrQuarantined(b)
    /\ CrCoordinatedRollback(b)
    /\ crAborted' = crAborted \cup {b}
    /\ UNCHANGED crActive

\* evaluate_canary_health changes nothing unless a trigger fires and auto_rollback is set.
CrEvaluate(b, breaches) == breaches # {} /\ CrAbort(b)

CrNext == \E b \in CrBundles : \/ CrQuarantine(b) \/ CrStart(b) \/ CrAbort(b)
                               \/ \E status \in {"QUALIFIED", "QUARANTINED"} : CrRegister(b, status)
                               \/ \E p \in {5, 25, 100} : CrPromote(b, p)
                               \/ \E breaches \in SUBSET CrTriggers : CrEvaluate(b, breaches)

CrSpec == CrInit /\ [][CrNext]_crVars

-----------------------------------------------------------------------------
CrTypeOK == /\ crStatus \in [CrBundles -> {"unknown", "QUALIFIED", "QUARANTINED"}]
            /\ crReasons \subseteq CrBundles
            /\ crStage \in {"IDLE", "CANARY_5", "CANARY_25", "GENERAL_100", "ABORTED_ROLLED_BACK"}
            /\ crTraffic \in {0, 5, 25, 100}
            /\ crActive \in CrBundles \cup {CrNone}
            /\ crSummary \in [bundle : CrBundles \cup {CrNone}, tiers : SUBSET CrTiers]
            /\ crAborted \subseteq CrBundles

\* A registered bundle whose canary was aborted gets no traffic until it is registered again,
\* although anybody may evaluate or abort a bundle that is not the active one, the active
\* identifier outlives the abort and the rollback may fail after the quarantine
\* (canary.py:82-105, :175-200). The quarantine of a bundle nobody registered is a reason and
\* no status (manager.py:198-209), and promote_canary_stage asks for the status alone: an
\* aborted bundle that has traffic is one that is not registered, and the code lets it.
CrAbortedStayOut == crTraffic > 0 /\ crActive \in crAborted => crStatus[crActive] = "unknown"
=============================================================================
