------------------------- MODULE ConnectorLifecycle -------------------------
(***************************************************************************)
(* One connector instance: its state machine (connectors/lifecycle.py),    *)
(* the quarantine of payloads whose schema has drifted                     *)
(* (ingestion/quarantine.py) and the recovery that a health probe reports  *)
(* (health.py).  Several methods change something before a transition that *)
(* the table may refuse; what they changed stays.  validate_connectivity   *)
(* calls the provider between its two transitions, and everything else may *)
(* happen during that call; the other methods are one action each.         *)
(*                                                                         *)
(* Counters and times that no method compares (consecutive_errors, lag,    *)
(* last sync) are left out.                                                *)
(***************************************************************************)
EXTENDS Naturals

CONSTANTS CnPayloads     \* payloads with a breaking drift

VARIABLES cnStatus,      \* status, "none" before the connector is registered
          cnSecret,      \* whether a secret_ref is bound
          cnCursor,      \* whether a cursor_position is kept
          cnLimits,      \* consecutive_rate_limits, up to 3
          cnProbing,     \* whether validate_connectivity waits for its probe
          cnRecord,      \* quarantine record of every payload
          cnStray        \* history: records that ACTIVE may leave unprocessed, see below

cnVars == <<cnStatus, cnSecret, cnCursor, cnLimits, cnProbing, cnRecord, cnStray>>

CnStatuses == {"REGISTERED", "CONFIGURED", "VALIDATING", "ACTIVE", "DEGRADED", "PAUSED",
               "AUTH_EXPIRED", "SCHEMA_DRIFT", "QUARANTINED", "RECONCILIATION_REQUIRED",
               "FAILED", "DELETING", "DELETED"}

\* VALID_TRANSITIONS: every live status may fail and be deleted.
CnOnward(s) ==
    CASE s = "REGISTERED"              -> {"CONFIGURED"}
      [] s = "CONFIGURED"              -> {"VALIDATING"}
      [] s = "VALIDATING"              -> {"ACTIVE"}
      [] s = "ACTIVE"                  -> {"DEGRADED", "PAUSED", "AUTH_EXPIRED", "SCHEMA_DRIFT"}
      [] s = "DEGRADED"                -> {"ACTIVE", "AUTH_EXPIRED", "PAUSED"}
      [] s = "PAUSED"                  -> {"ACTIVE"}
      [] s = "AUTH_EXPIRED"            -> {"VALIDATING", "CONFIGURED"}
      [] s = "SCHEMA_DRIFT"            -> {"QUARANTINED"}
      [] s = "QUARANTINED"             -> {"RECONCILIATION_REQUIRED"}
      [] s = "RECONCILIATION_REQUIRED" -> {"ACTIVE"}
      [] s = "FAILED"                  -> {"CONFIGURED", "VALIDATING"}
      [] OTHER                         -> {}

CnMayBecome(s, new) == \/ s = new
                       \/ new \in CnOnward(s)
                       \/ new \in {"FAILED", "DELETING"} /\ s \notin {"DELETING", "DELETED"}
                       \/ s = "DELETING" /\ new = "DELETED"

\* The status after an attempt, which raises if the table refuses it.
CnMoved(s, new) == IF CnMayBecome(s, new) THEN new ELSE s

CnHeld == {p \in CnPayloads : cnRecord[p] = "held"}

\* The status becomes s. A connector that fails, or that somebody declares ready to be
\* reconciled, may come back with what is in quarantine: the table does not ask for records.
CnBecomes(s) ==
    /\ cnStatus' = s
    /\ cnStray' = IF s \in {"FAILED", "RECONCILIATION_REQUIRED"} THEN cnStray \cup CnHeld ELSE cnStray

CnInit == /\ cnStatus = "none"
          /\ cnSecret = FALSE
          /\ cnCursor = FALSE
          /\ cnLimits = 0
          /\ cnProbing = FALSE
          /\ cnRecord = [p \in CnPayloads |-> "none"]
          /\ cnStray = {}

CnExists == cnStatus # "none"

CnRegister == /\ ~CnExists
              /\ cnStatus' = "REGISTERED"
              /\ UNCHANGED <<cnSecret, cnCursor, cnLimits, cnProbing, cnRecord, cnStray>>

\* configure_credentials binds the secret before the transition.
CnConfigure == /\ CnExists
               /\ cnSecret' = TRUE
               /\ CnBecomes(CnMoved(cnStatus, "CONFIGURED"))
               /\ UNCHANGED <<cnCursor, cnLimits, cnProbing, cnRecord>>

\* validate_connectivity up to the probe ...
CnValidate == /\ CnExists
              /\ ~cnProbing
              /\ CnMayBecome(cnStatus, "VALIDATING")
              /\ CnBecomes("VALIDATING")
              /\ cnProbing' = TRUE
              /\ UNCHANGED <<cnSecret, cnCursor, cnLimits, cnRecord>>

\* ... and after it, from whatever status the connector has by then.
CnProbed == /\ cnProbing
            /\ cnProbing' = FALSE
            /\ \E s \in {"ACTIVE", "FAILED"} : CnBecomes(CnMoved(cnStatus, s))
            /\ UNCHANGED <<cnSecret, cnCursor, cnLimits, cnRecord>>

CnSync == /\ CnExists
          /\ cnCursor' = TRUE
          /\ cnLimits' = 0
          /\ UNCHANGED <<cnStatus, cnSecret, cnProbing, cnRecord, cnStray>>

CnAuthFails == /\ CnExists
               /\ CnBecomes(CnMoved(cnStatus, "AUTH_EXPIRED"))
               /\ UNCHANGED <<cnSecret, cnCursor, cnLimits, cnProbing, cnRecord>>

\* The third rate limit in a row degrades an active connector.
CnRateLimit == /\ CnExists
               /\ cnLimits' = IF cnLimits < 3 THEN cnLimits + 1 ELSE 3
               /\ CnBecomes(IF cnLimits' = 3 /\ cnStatus = "ACTIVE" THEN "DEGRADED" ELSE cnStatus)
               /\ UNCHANGED <<cnSecret, cnCursor, cnProbing, cnRecord>>

\* record_health_recovery, also called by a successful probe_health.
CnRecover == /\ CnExists
             /\ cnLimits' = 0
             /\ CnBecomes(IF cnStatus = "DEGRADED" THEN "ACTIVE" ELSE cnStatus)
             /\ UNCHANGED <<cnSecret, cnCursor, cnProbing, cnRecord>>

\* transition_state is public: anybody may ask for any status, and the table alone decides.
CnTransition(s) == /\ CnExists
                   /\ CnMayBecome(cnStatus, s)
                   /\ CnBecomes(s)
                   /\ UNCHANGED <<cnSecret, cnCursor, cnLimits, cnProbing, cnRecord>>

CnDelete == /\ CnExists
            /\ CnMayBecome(cnStatus, "DELETING")
            /\ CnBecomes("DELETED")
            /\ cnSecret' = FALSE
            /\ cnCursor' = FALSE
            /\ UNCHANGED <<cnLimits, cnProbing, cnRecord>>

\* divert_to_quarantine stores the record first; the transitions are refused unless the
\* connector is ACTIVE or in SCHEMA_DRIFT, and the record is there all the same.
CnDivert(p) ==
    /\ CnExists
    /\ cnRecord[p] = "none"
    /\ cnRecord' = [cnRecord EXCEPT ![p] = "held"]
    /\ cnStatus' = IF CnMayBecome(cnStatus, "SCHEMA_DRIFT") THEN "QUARANTINED" ELSE cnStatus
    /\ cnStray' = IF cnStatus' = "QUARANTINED" THEN cnStray ELSE cnStray \cup {p}
    /\ UNCHANGED <<cnSecret, cnCursor, cnLimits, cnProbing>>

\* Mutant: the connector is restored with the payload that was reprocessed.
CnAllClearedButOne(records, p) == records[p] = "reprocessed"

\* Whether every record of the connector has been reprocessed.
CnAllCleared(records, p) == \A q \in CnPayloads : records[q] # "held"

\* reprocess_quarantine marks the record and, when it was the last, restores the connector;
\* a connector that neither is in quarantine nor waits for reconciliation refuses.
CnReprocess(p) ==
    /\ cnRecord[p] # "none"
    /\ cnRecord' = [cnRecord EXCEPT ![p] = "reprocessed"]
    /\ CnBecomes(IF /\ CnAllCleared(cnRecord', p)
                    /\ CnMayBecome(cnStatus, "RECONCILIATION_REQUIRED")
                 THEN "ACTIVE" ELSE cnStatus)
    /\ UNCHANGED <<cnSecret, cnCursor, cnLimits, cnProbing>>

CnNext == \/ CnRegister \/ CnConfigure \/ CnValidate \/ CnProbed \/ CnSync \/ CnAuthFails
          \/ CnRateLimit \/ CnRecover \/ CnDelete
          \/ \E s \in CnStatuses : CnTransition(s)
          \/ \E p \in CnPayloads : CnDivert(p) \/ CnReprocess(p)

CnSpec == CnInit /\ [][CnNext]_cnVars

-----------------------------------------------------------------------------
CnTypeOK == /\ cnStatus \in {"none"} \cup CnStatuses
            /\ cnSecret \in BOOLEAN
            /\ cnCursor \in BOOLEAN
            /\ cnLimits \in 0..3
            /\ cnProbing \in BOOLEAN
            /\ cnRecord \in [CnPayloads -> {"none", "held", "reprocessed"}]
            /\ cnStray \subseteq CnPayloads

\* A connector does not sync past its quarantine: while it is ACTIVE (or in any status it can
\* return to ACTIVE from without reconciliation) nothing is held, through probes that answer
\* late, recoveries, direct transitions and partial reprocessing, with three exceptions the code
\* makes: a record whose diversion the table refused, what was held when the connector was given
\* up, and what was held when a caller of transition_state, not the reprocessing, moved it to
\* RECONCILIATION_REQUIRED (quarantine.py:46-90, :96-127; lifecycle.py:23-89, :184-211).
CnActiveIsClean ==
    cnStatus \in {"ACTIVE", "DEGRADED", "PAUSED", "AUTH_EXPIRED", "VALIDATING"} => CnHeld \subseteq cnStray
=============================================================================
