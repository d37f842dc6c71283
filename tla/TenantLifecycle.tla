-------------------------- MODULE TenantLifecycle ---------------------------
(***************************************************************************)
(* One tenant: its status (tenancy/domain/models.py, changed through       *)
(* update_status of adapters/in_memory_repository.py), the legal hold that *)
(* the service keeps apart from it (service.py), and the cascade deletion  *)
(* (deletion_saga.py).  The repository is shared by threads: it locks each *)
(* call and nothing locks two of them.  The model interleaves the saga     *)
(* between its hold check, its tombstone and its end, and an activation    *)
(* around its isolation probes; the other methods are one action each.     *)
(*                                                                         *)
(* The purge of the stores has no effect the saga could see, so it is one  *)
(* step that ends in one of three ways.  The repository is the one kept in *)
(* memory, whose aggregate refuses some changes; that of PostgreSQL, which *)
(* an administrator's route writes as well, refuses none.                  *)
(***************************************************************************)
EXTENDS Naturals

CONSTANTS TnMatters,     \* legal matters
          TnNoMatter,    \* no hold was ever applied
          TnSagas        \* executions of the deletion saga

VARIABLES tnStatus,      \* the tenant's status, "none" before it is provisioned
          tnHold,        \* the one LegalHoldRecord of the tenant
          tnKeyed,       \* whether _provisioning_keys knows the request's key
          tnProbing,     \* whether an activation is waiting for its probes
          tnSaga,        \* where every deletion is
          tnCertified,   \* whether a DeletionCertificate was issued
          tnOvertook,    \* history: a hold was applied after a deletion's check
          tnWrittenOff   \* history: a release wrote DELETED, not a deletion

tnVars == <<tnStatus, tnHold, tnKeyed, tnProbing, tnSaga, tnCertified, tnOvertook, tnWrittenOff>>

TnTerminal == {"DEACTIVATED", "DELETED", "TERMINATED"}
TnStatuses == {"REQUESTED", "PROVISIONING", "ACTIVATING", "ACTIVE", "SUSPENDED", "LEGAL_HOLD",
               "EXPORTING", "DELETING", "DELETION_STAGED", "PROVISION_FAILED", "RECOVERING"}
              \cup TnTerminal

TnInit == /\ tnStatus = "none"
          /\ tnHold = [matter |-> TnNoMatter, active |-> FALSE]
          /\ tnKeyed = FALSE
          /\ tnProbing = FALSE
          /\ tnSaga = [s \in TnSagas |-> "idle"]
          /\ tnCertified = FALSE
          /\ tnOvertook = FALSE
          /\ tnWrittenOff = FALSE

TnExists == tnStatus # "none"

\* The transitions of the aggregate that update_status dispatches to: which it refuses.
TnAccepts(status) ==
    CASE status \in {"ACTIVE", "SUSPENDED"} -> tnStatus \notin TnTerminal
      [] status = "LEGAL_HOLD"              -> tnStatus \notin {"DELETED", "TERMINATED"}
      [] status = "DELETION_STAGED"         -> tnStatus # "LEGAL_HOLD"
      [] OTHER                              -> TRUE

TnUpdateStatus(status) == /\ TnExists
                          /\ TnAccepts(status)
                          /\ tnStatus' = status

\* A deletion has made its check and is not over.
TnDeletionUnderWay == \E s \in TnSagas : tnSaga[s] \in {"checked", "deleting"}

\* provision_tenant, for a given tenant_id: any tenant of that id is replaced, its hold is not.
TnProvision ==
    /\ tnStatus' = "PROVISIONING"
    /\ UNCHANGED <<tnHold, tnKeyed, tnProbing, tnSaga, tnCertified, tnOvertook, tnWrittenOff>>

\* provision_tenant_idempotent: a known key returns the tenant; a failed step is rolled back.
TnProvisionOnce ==
    /\ ~(tnKeyed /\ TnExists)
    /\ \/ tnStatus' = "ACTIVATING" /\ tnKeyed' = TRUE
       \/ tnStatus' = "PROVISION_FAILED" /\ UNCHANGED tnKeyed
    /\ UNCHANGED <<tnHold, tnProbing, tnSaga, tnCertified, tnOvertook, tnWrittenOff>>

TnKeepRest ==
    UNCHANGED <<tnHold, tnKeyed, tnProbing, tnSaga, tnCertified, tnOvertook, tnWrittenOff>>

TnActivate == TnUpdateStatus("ACTIVE") /\ TnKeepRest

\* activate_tenant_with_preconditions up to the probes ...
TnProbe == /\ tnStatus \in {"ACTIVATING", "PROVISIONING"}
           /\ ~tnProbing
           /\ tnProbing' = TRUE
           /\ UNCHANGED <<tnStatus, tnHold, tnKeyed, tnSaga, tnCertified, tnOvertook, tnWrittenOff>>

\* ... and after them, whatever has become of the tenant: all passed and the status permits
\* it, or the call raises.
TnProbed == /\ tnProbing
            /\ tnProbing' = FALSE
            /\ TnUpdateStatus("ACTIVE") \/ UNCHANGED tnStatus
            /\ UNCHANGED <<tnHold, tnKeyed, tnSaga, tnCertified, tnOvertook, tnWrittenOff>>

TnSuspend == /\ tnStatus # "SUSPENDED"
             /\ TnUpdateStatus("SUSPENDED")
             /\ TnKeepRest

TnReactivate == tnStatus = "SUSPENDED" /\ TnUpdateStatus("ACTIVE") /\ TnKeepRest

TnDeactivate == TnUpdateStatus("DEACTIVATED") /\ TnKeepRest

\* apply_legal_hold: another matter's record is replaced.
TnApplyHold(m) == /\ TnUpdateStatus("LEGAL_HOLD")
                  /\ tnHold' = [matter |-> m, active |-> TRUE]
                  /\ tnOvertook' = TnDeletionUnderWay
                  /\ UNCHANGED <<tnKeyed, tnProbing, tnSaga, tnCertified, tnWrittenOff>>

\* release_legal_hold: the record is released only by its own matter, the status is whatever
\* the caller of any matter restores, and the record stays released if the status refuses.
TnReleaseHold(m, status) ==
    /\ TnExists
    /\ tnHold' = IF tnHold.matter = m THEN [tnHold EXCEPT !.active = FALSE] ELSE tnHold
    /\ tnStatus' = IF TnAccepts(status) THEN status ELSE tnStatus
    /\ tnWrittenOff' = (tnWrittenOff \/ status = "DELETED")
    /\ UNCHANGED <<tnKeyed, tnProbing, tnSaga, tnCertified, tnOvertook>>

\* Mutant: the status alone says whether there is a hold.
TnUnderHoldByStatus == tnStatus = "LEGAL_HOLD"

\* is_under_legal_hold: the status or the record.
TnUnderHold == tnStatus = "LEGAL_HOLD" \/ tnHold.active

\* The saga: hold check and two distinct approvers.
TnDeletionChecks(s) == /\ TnExists
                       /\ tnSaga[s] = "idle"
                       /\ ~TnUnderHold
                       /\ tnSaga' = [tnSaga EXCEPT ![s] = "checked"]
                       /\ UNCHANGED <<tnStatus, tnHold, tnKeyed, tnProbing, tnCertified, tnOvertook,
                                      tnWrittenOff>>

TnTombstone(s) == /\ tnSaga[s] = "checked"
                  /\ TnUpdateStatus("DELETING")
                  /\ tnSaga' = [tnSaga EXCEPT ![s] = "deleting"]
                  /\ UNCHANGED <<tnHold, tnKeyed, tnProbing, tnCertified, tnOvertook, tnWrittenOff>>

\* A step fails and the deletion is staged, unless the tenant is on hold by now; or the
\* final scan finds surviving records and the status stays; or the tenant is deleted.
TnDeletionEnds(s) ==
    /\ tnSaga[s] = "deleting"
    /\ tnSaga' = [tnSaga EXCEPT ![s] = "idle"]
    /\ \/ /\ tnStatus' = IF TnAccepts("DELETION_STAGED") THEN "DELETION_STAGED" ELSE tnStatus
          /\ UNCHANGED <<tnCertified, tnWrittenOff>>
       \/ UNCHANGED <<tnStatus, tnCertified, tnWrittenOff>>
       \/ TnUpdateStatus("DELETED") /\ tnCertified' = TRUE /\ tnWrittenOff' = FALSE
    /\ UNCHANGED <<tnHold, tnKeyed, tnProbing, tnOvertook>>

TnNext == \/ TnProvision \/ TnProvisionOnce \/ TnActivate \/ TnProbe \/ TnProbed
          \/ TnSuspend \/ TnReactivate \/ TnDeactivate
          \/ \E m \in TnMatters : \/ TnApplyHold(m)
                                  \/ \E status \in TnStatuses : TnReleaseHold(m, status)
          \/ \E s \in TnSagas : TnDeletionChecks(s) \/ TnTombstone(s) \/ TnDeletionEnds(s)

TnSpec == TnInit /\ [][TnNext]_tnVars

-----------------------------------------------------------------------------
TnTypeOK == /\ tnStatus \in {"none"} \cup TnStatuses
            /\ tnHold \in [matter : TnMatters \cup {TnNoMatter}, active : BOOLEAN]
            /\ tnKeyed \in BOOLEAN
            /\ tnProbing \in BOOLEAN
            /\ tnSaga \in [TnSagas -> {"idle", "checked", "deleting"}]
            /\ tnCertified \in BOOLEAN
            /\ tnOvertook \in BOOLEAN
            /\ tnWrittenOff \in BOOLEAN

\* A hold outlives the status it was written with: through suspensions, activations, releases
\* under another matter to any status and a new tenant of the same id, no deletion is past its
\* check while a hold is not released, and a tenant under it is not DELETED, with two exceptions
\* the code makes. A deletion that was between its check and its end when the hold was applied
\* goes on; and release_legal_hold hands any status to update_status, so a release under another
\* matter may write DELETED over a hold in force (service.py:270-331, deletion_saga.py:57-97).
TnHoldOutlivesStatus ==
    tnHold.active => /\ TnDeletionUnderWay => tnOvertook
                     /\ tnStatus = "DELETED" => tnOvertook \/ tnWrittenOff
=============================================================================
