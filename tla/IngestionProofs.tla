-------------------------- MODULE IngestionProofs ---------------------------
(***************************************************************************)
(* What is ingested, what is derived from it and what is told of it, for   *)
(* every value of the constants: quarantined records, events out of order, *)
(* anomalies, and the live stream of an investigation.                     *)
(*                                                                         *)
(* Connectors: what is held is held by a connector in quarantine or is one *)
(* of the records the code leaves astray.  Inbox: the event that wrote an  *)
(* entity is a processed one about it.  Anomalies: what is fresh and was   *)
(* not carried over a failed reconciliation was seen as it is stored.      *)
(* Streams: what was sent and what is queued form one rising sequence,     *)
(* which a publication prolongs, a send leaves alone and a completion cuts *)
(* where everything up to it has been sent or dropped.                     *)
(***************************************************************************)
EXTENDS ConnectorLifecycle, EventInbox, AnomalyReconciliation, EventStream, Integers, TLAPS

\* The statuses of a quarantine that is in force or that a deletion has ended.
CnKeeping == {"QUARANTINED", "DELETING", "DELETED"}

\* Nothing is held but in quarantine or after a deletion, or is accounted for.
CnQuarantineHolds == cnStatus \notin CnKeeping => CnHeld \subseteq cnStray

\* What every step of a connector keeps.
CnInductive == CnTypeOK /\ CnQuarantineHolds

\* What leads out of quarantine, and out of deletion.
LEMMA CnWaysOut ==
    /\ \A new \in CnStatuses : CnMayBecome("QUARANTINED", new)
          => new \in {"QUARANTINED", "RECONCILIATION_REQUIRED", "FAILED", "DELETING"}
    /\ \A s \in {"DELETING", "DELETED"}, new \in CnStatuses :
          CnMayBecome(s, new) => new \in {"DELETING", "DELETED"}
  BY DEF CnMayBecome, CnOnward, CnStatuses

\* A call that changes the status the way the table permits, and no record.
LEMMA CnMoves ==
    ASSUME CnInductive, NEW s \in CnStatuses,
           CnMayBecome(cnStatus, s) \/ s = "DELETED", CnBecomes(s), UNCHANGED cnRecord,
           cnSecret' \in BOOLEAN, cnCursor' \in BOOLEAN, cnLimits' \in 0..3, cnProbing' \in BOOLEAN
    PROVE  CnInductive'
<1>1. CnTypeOK'
  BY DEF CnInductive, CnTypeOK, CnBecomes, CnHeld
<1>2. CnHeld' = CnHeld
  BY DEF CnHeld
<1>3. cnStatus \in CnKeeping => s \in CnKeeping \cup {"FAILED", "RECONCILIATION_REQUIRED"}
  BY CnWaysOut DEF CnKeeping
<1>4. CnQuarantineHolds'
  BY <1>2, <1>3 DEF CnInductive, CnQuarantineHolds, CnKeeping, CnBecomes
<1> QED BY <1>1, <1>4 DEF CnInductive

\* A call that leaves the status, or stays in it.
LEMMA CnStays ==
    ASSUME CnInductive, CnBecomes(cnStatus), UNCHANGED cnRecord,
           cnSecret' \in BOOLEAN, cnCursor' \in BOOLEAN, cnLimits' \in 0..3, cnProbing' \in BOOLEAN
    PROVE  CnInductive'
  BY DEF CnInductive, CnTypeOK, CnQuarantineHolds, CnBecomes, CnHeld

\* A transition that is attempted: it is made or nothing of the status changes.
LEMMA CnAttempts ==
    ASSUME CnInductive, NEW s \in CnStatuses,
           CnBecomes(CnMoved(cnStatus, s)), UNCHANGED cnRecord,
           cnSecret' \in BOOLEAN, cnCursor' \in BOOLEAN, cnLimits' \in 0..3, cnProbing' \in BOOLEAN
    PROVE  CnInductive'
<1>1. CASE CnMayBecome(cnStatus, s)
  BY <1>1, CnMoves DEF CnMoved
<1>2. CASE ~CnMayBecome(cnStatus, s)
  BY <1>2, CnStays DEF CnMoved
<1> QED BY <1>1, <1>2

\* A payload that is diverted takes the connector into quarantine or is astray.
LEMMA CnDiverts ==
    ASSUME CnInductive, NEW p \in CnPayloads, CnDivert(p)
    PROVE  CnInductive'
<1>1. /\ cnStatus # "none"
      /\ cnRecord' = [cnRecord EXCEPT ![p] = "held"]
      /\ cnStatus' \in {"QUARANTINED", cnStatus}
      /\ cnStray' \subseteq cnStray \cup {p}
      /\ cnStray \subseteq cnStray'
      /\ cnStatus' = "QUARANTINED" \/ p \in cnStray'
      /\ UNCHANGED <<cnSecret, cnCursor, cnLimits, cnProbing>>
  BY DEF CnDivert, CnExists
<1>2. CnHeld' \subseteq CnHeld \cup {p}
  BY <1>1 DEF CnHeld, CnInductive, CnTypeOK
<1>3. CnTypeOK'
  BY <1>1 DEF CnInductive, CnTypeOK, CnStatuses
<1>4. CnQuarantineHolds'
  BY <1>1, <1>2 DEF CnInductive, CnQuarantineHolds, CnKeeping
<1> QED BY <1>3, <1>4 DEF CnInductive

\* A payload that is reprocessed: the connector is restored only when none is left.
LEMMA CnReprocesses ==
    ASSUME CnInductive, NEW p \in CnPayloads, CnReprocess(p)
    PROVE  CnInductive'
<1>1. /\ cnRecord' = [cnRecord EXCEPT ![p] = "reprocessed"]
      /\ UNCHANGED <<cnSecret, cnCursor, cnLimits, cnProbing>>
      /\ cnStray \subseteq cnStray' /\ cnStray' \subseteq cnStray \cup CnHeld
  BY DEF CnReprocess, CnBecomes
<1>2. CnHeld' \subseteq CnHeld /\ CnHeld \subseteq CnPayloads
  BY <1>1 DEF CnHeld, CnInductive, CnTypeOK
<1>3. CASE CnAllCleared(cnRecord', p) /\ CnMayBecome(cnStatus, "RECONCILIATION_REQUIRED")
  <2>1. cnStatus' = "ACTIVE"
    BY <1>3 DEF CnReprocess, CnBecomes
  <2>2. CnHeld' = {}
    BY <1>3 DEF CnAllCleared, CnHeld
  <2>3. CnTypeOK'
    BY <1>1, <1>2, <2>1 DEF CnInductive, CnTypeOK, CnStatuses
  <2> QED BY <2>1, <2>2, <2>3 DEF CnInductive, CnQuarantineHolds, CnKeeping
<1>4. CASE ~(CnAllCleared(cnRecord', p) /\ CnMayBecome(cnStatus, "RECONCILIATION_REQUIRED"))
  <2>1. cnStatus' = cnStatus
    BY <1>4 DEF CnReprocess, CnBecomes
  <2>2. CnTypeOK'
    BY <1>1, <1>2, <2>1 DEF CnInductive, CnTypeOK
  <2> QED BY <1>1, <1>2, <2>1, <2>2 DEF CnInductive, CnQuarantineHolds
<1> QED BY <1>3, <1>4

\* What is held is held in quarantine in every state.
LEMMA CnInvariant == CnSpec => []CnInductive
<1>1. CnInit => CnInductive
  <2> SUFFICES ASSUME CnInit PROVE CnInductive
    OBVIOUS
  <2>1. CnTypeOK
    <3>1. cnRecord \in [CnPayloads -> {"none", "held", "reprocessed"}]
      BY DEF CnInit
    <3>2. cnStatus \in {"none"} \cup CnStatuses /\ cnLimits \in 0..3
      BY DEF CnInit
    <3>3. cnSecret \in BOOLEAN /\ cnCursor \in BOOLEAN /\ cnProbing \in BOOLEAN
      BY DEF CnInit
    <3>4. cnStray \subseteq CnPayloads
      BY DEF CnInit
    <3> QED BY <3>1, <3>2, <3>3, <3>4 DEF CnTypeOK
  <2>2. CnHeld = {}
    BY DEF CnInit, CnHeld
  <2> QED BY <2>1, <2>2 DEF CnInit, CnInductive, CnQuarantineHolds, CnKeeping
<1>2. CnInductive /\ [CnNext]_cnVars => CnInductive'
  <2> SUFFICES ASSUME CnInductive, [CnNext]_cnVars PROVE CnInductive'
    OBVIOUS
  <2> CnTypeOK
    BY DEF CnInductive
  <2>1. CASE CnRegister
    BY <2>1 DEF CnRegister, CnExists, CnInductive, CnTypeOK, CnQuarantineHolds, CnHeld, CnKeeping, CnStatuses
  <2>2. CASE CnConfigure \/ CnAuthFails
    BY <2>2, CnAttempts DEF CnConfigure, CnAuthFails, CnExists, CnTypeOK, CnStatuses
  <2>3. CASE CnValidate
    BY <2>3, CnMoves DEF CnValidate, CnTypeOK, CnStatuses
  <2>4. CASE CnProbed
    <3>1. PICK s \in {"ACTIVE", "FAILED"} : CnBecomes(CnMoved(cnStatus, s))
      BY <2>4 DEF CnProbed
    <3>2. s \in CnStatuses
      BY DEF CnStatuses
    <3> QED BY <2>4, <3>1, <3>2, CnAttempts DEF CnProbed, CnTypeOK
  <2>5. CASE CnSync
    BY <2>5 DEF CnSync, CnInductive, CnTypeOK, CnQuarantineHolds, CnHeld
  <2>6. CASE CnRateLimit \/ CnRecover
    <3>1. \/ CnBecomes(cnStatus)
          \/ cnStatus = "ACTIVE" /\ CnBecomes("DEGRADED")
          \/ cnStatus = "DEGRADED" /\ CnBecomes("ACTIVE")
      BY <2>6 DEF CnRateLimit, CnRecover
    <3>2. CnMayBecome("ACTIVE", "DEGRADED") /\ CnMayBecome("DEGRADED", "ACTIVE")
      BY DEF CnMayBecome, CnOnward
    <3>3. /\ UNCHANGED <<cnSecret, cnCursor, cnProbing, cnRecord>>
          /\ cnLimits' \in 0..3
      BY <2>6 DEF CnRateLimit, CnRecover, CnTypeOK
    <3> QED BY <3>1, <3>2, <3>3, CnMoves, CnStays DEF CnTypeOK, CnStatuses
  <2>7. CASE CnDelete
    BY <2>7, CnMoves DEF CnDelete, CnTypeOK, CnStatuses
  <2>8. ASSUME NEW s \in CnStatuses, CnTransition(s) PROVE CnInductive'
    BY <2>8, CnMoves DEF CnTransition, CnTypeOK
  <2>9. ASSUME NEW p \in CnPayloads, CnDivert(p) \/ CnReprocess(p) PROVE CnInductive'
    BY <2>9, CnDiverts, CnReprocesses
  <2>10. CASE UNCHANGED cnVars
    BY <2>10 DEF CnInductive, CnTypeOK, CnQuarantineHolds, CnHeld, cnVars
  <2> QED BY <2>1, <2>2, <2>3, <2>4, <2>5, <2>6, <2>7, <2>8, <2>9, <2>10 DEF CnNext
<1> QED BY <1>1, <1>2, PTL DEF CnSpec

\* For any number of payloads that drift, probes that answer late, direct transitions and calls
\* in any order: a connector that syncs holds nothing in quarantine but the records the code
\* leaves astray: refused diversions, and what was held when the connector failed or was
\* declared ready to be reconciled (connectors/lifecycle.py:23-280, ingestion/quarantine.py:46-127).
THEOREM CnActiveClean == CnSpec => []CnActiveIsClean
<1>1. CnInductive => CnActiveIsClean
  BY DEF CnInductive, CnQuarantineHolds, CnKeeping, CnActiveIsClean
<1> QED BY <1>1, CnInvariant, PTL

-----------------------------------------------------------------------------
\* The canonical state of an entity was written by an event about it that was processed.
IbWritersAreProcessed ==
    \A n \in IbEntities : ibCanonical[n] # IbNone =>
        /\ IbEntity[ibCanonical[n]] = n
        /\ ibReceipt[ibCanonical[n]] = "PROCESSED"

\* What every step of the inbox keeps.
IbInductive == IbTypeOK /\ IbWritersAreProcessed /\ IbOrderIsIrrelevant

\* An event that comes after a later one leaves the entity to it.
LEMMA IbIgnored ==
    ASSUME IbInductive, NEW e \in IbEvents, NEW t \in Nat, IbReceive(e, t), IbSuperseded(e, t)
    PROVE  IbInductive'
<1> USE DEF IbInductive, IbTypeOK
<1>1. /\ ibReceipt[e] = "none"
      /\ ibTime' = [ibTime EXCEPT ![e] = t]
      /\ ibReceipt' = [ibReceipt EXCEPT ![e] = "IGNORED_OUT_OF_ORDER"]
      /\ UNCHANGED ibCanonical
  BY DEF IbReceive
<1>2. /\ IbEntity[e] # IbNone
      /\ ibCanonical[IbEntity[e]] # IbNone
      /\ t < ibTime[ibCanonical[IbEntity[e]]]
  BY DEF IbSuperseded
<1>3. IbTypeOK'
  BY <1>1
<1>4. IbWritersAreProcessed'
  BY <1>1 DEF IbWritersAreProcessed
<1>5. PICK last \in IbEvents : /\ last = ibCanonical[IbEntity[e]]
                               /\ ibReceipt[last] = "PROCESSED"
                               /\ IbEntity[last] = IbEntity[e]
  BY <1>2 DEF IbEntities, IbWritersAreProcessed
<1>6. ASSUME NEW f \in IbEvents, ibReceipt'[f] # "none", IbEntity[f] # IbNone
      PROVE  LET l == ibCanonical'[IbEntity[f]]
             IN /\ l # IbNone /\ IbEntity[l] = IbEntity[f]
                /\ ibReceipt'[l] = "PROCESSED" /\ ibTime'[f] <= ibTime'[l]
  <2>1. CASE f = e
    BY <1>1, <1>2, <1>5, <2>1, IbNoneAssumption
  <2>2. CASE f # e
    <3>1. PICK l \in IbEvents : /\ l = ibCanonical[IbEntity[f]]
                                /\ ibReceipt[l] = "PROCESSED"
                                /\ IbEntity[l] = IbEntity[f]
                                /\ ibTime[f] <= ibTime[l]
      BY <1>1, <1>6, <2>2 DEF IbOrderIsIrrelevant, IbEntities
    <3>2. l # e
      BY <1>1, <3>1
    <3> QED BY <1>1, <2>2, <3>1, <3>2, IbNoneAssumption
  <2> QED BY <2>1, <2>2
<1>7. IbOrderIsIrrelevant'
  BY <1>6 DEF IbOrderIsIrrelevant
<1> QED BY <1>3, <1>4, <1>7

\* Any other first delivery writes its entity, after everything received about it.
LEMMA IbProcessed ==
    ASSUME IbInductive, NEW e \in IbEvents, NEW t \in Nat, IbReceive(e, t), ~IbSuperseded(e, t)
    PROVE  IbInductive'
<1> USE DEF IbInductive, IbTypeOK
<1>1. /\ ibReceipt[e] = "none"
      /\ ibTime' = [ibTime EXCEPT ![e] = t]
      /\ ibReceipt' = [ibReceipt EXCEPT ![e] = "PROCESSED"]
      /\ ibCanonical' = IF IbEntity[e] = IbNone THEN ibCanonical
                        ELSE [ibCanonical EXCEPT ![IbEntity[e]] = e]
  BY DEF IbReceive
<1>2. IbEntity[e] # IbNone => IbEntity[e] \in IbEntities
  BY DEF IbEntities
<1>3. IbTypeOK'
  BY <1>1, <1>2
<1>4. IbWritersAreProcessed'
  BY <1>1, <1>2, IbNoneAssumption DEF IbWritersAreProcessed
<1>5. ASSUME NEW f \in IbEvents, ibReceipt'[f] # "none", IbEntity[f] # IbNone
      PROVE  LET l == ibCanonical'[IbEntity[f]]
             IN /\ l # IbNone /\ IbEntity[l] = IbEntity[f]
                /\ ibReceipt'[l] = "PROCESSED" /\ ibTime'[f] <= ibTime'[l]
  <2>1. CASE f = e
    BY <1>1, <1>2, <1>5, <2>1, IbNoneAssumption
  <2>2. CASE f # e
    <3>1. PICK l \in IbEvents : /\ l = ibCanonical[IbEntity[f]]
                                /\ ibReceipt[l] = "PROCESSED"
                                /\ IbEntity[l] = IbEntity[f]
                                /\ ibTime[f] <= ibTime[l]
      BY <1>1, <1>5, <2>2 DEF IbOrderIsIrrelevant, IbEntities
    <3>2. l # e /\ l # IbNone /\ IbEntity[f] \in IbEntities
      BY <1>1, <1>5, <3>1, IbNoneAssumption DEF IbEntities
    <3>3. CASE IbEntity[f] = IbEntity[e]
      <4>1. ibTime[l] <= t
        BY <1>5, <3>1, <3>2, <3>3 DEF IbSuperseded
      <4>2. ibCanonical'[IbEntity[f]] = e
        BY <1>1, <1>2, <1>5, <3>3
      <4> QED BY <1>1, <2>2, <3>1, <3>3, <4>1, <4>2, IbNoneAssumption
    <3>4. CASE IbEntity[f] # IbEntity[e]
      <4>1. ibCanonical'[IbEntity[f]] = l
        BY <1>1, <1>2, <3>1, <3>2, <3>4
      <4> QED BY <1>1, <2>2, <3>1, <3>2, <4>1
    <3> QED BY <3>3, <3>4
  <2> QED BY <2>1, <2>2
<1>6. IbOrderIsIrrelevant'
  BY <1>5 DEF IbOrderIsIrrelevant
<1> QED BY <1>3, <1>4, <1>6

\* Every entity is in the state of the latest event received about it, in every state.
LEMMA IbInvariant == IbSpec => []IbInductive
<1>1. IbInit => IbInductive
  BY DEF IbInit, IbInductive, IbTypeOK, IbWritersAreProcessed, IbOrderIsIrrelevant
<1>2. IbInductive /\ [IbNext]_ibVars => IbInductive'
  <2> SUFFICES ASSUME IbInductive, [IbNext]_ibVars PROVE IbInductive'
    OBVIOUS
  <2>1. CASE IbNext
    <3>1. PICK e \in IbEvents : \E t \in IbStamps[e] : IbReceive(e, t)
      BY <2>1 DEF IbNext
    <3>2. PICK t \in Nat : IbReceive(e, t)
      BY <3>1, IbStampsAssumption
    <3> QED BY <3>2, IbIgnored, IbProcessed
  <2>2. CASE UNCHANGED ibVars
    BY <2>2 DEF IbInductive, IbTypeOK, IbWritersAreProcessed, IbOrderIsIrrelevant, ibVars
  <2> QED BY <2>1, <2>2
<1> QED BY <1>1, <1>2, PTL DEF IbSpec

\* For any events, entities and timestamps, delivered in any order and any number of times:
\* every entity is in the state of the latest event received about it (inbox.py:48-121).
THEOREM IbOrderFree == IbSpec => []IbOrderIsIrrelevant
<1>1. IbInductive => IbOrderIsIrrelevant
  BY DEF IbInductive
<1> QED BY <1>1, IbInvariant, PTL

-----------------------------------------------------------------------------
\* What has been detected and not superseded, resolved or not, is a breach if it is fresh.
AnFreshOrCarried ==
    \A a \in AnAnomalies :
        anState[a] \notin {"none", "SUPPRESSED"} /\ anFresh[a] = "FRESH" /\ a \notin anCarried
            => anValue[a] = anSeen[a] /\ anSeen[a] \in AnBreaches

\* Only an anomaly that was superseded has gone through one transition more than the bound.
AnVersionsBounded == \A a \in AnAnomalies : anState[a] # "SUPPRESSED" => anVersion[a] <= AnMaxVersion

\* What every step of the anomalies keeps.
AnInductive == AnTypeOK /\ AnFreshOrCarried /\ AnVersionsBounded

\* A detection starts a version.
LEMMA AnDetects ==
    ASSUME AnInductive, NEW a \in AnAnomalies, NEW v \in AnBreaches, AnDetect(a, v)
    PROVE  AnInductive'
<1> USE AnMaxVersionAssumption DEF AnInductive, AnTypeOK, AnDetect
<1>1. AnTypeOK'
  BY DEF AnStates
<1>2. AnFreshOrCarried'
  BY DEF AnFreshOrCarried
<1>3. AnVersionsBounded'
  BY DEF AnVersionsBounded
<1> QED BY <1>1, <1>2, <1>3

\* A transition that is legal does not touch the values.
LEMMA AnTransits ==
    ASSUME AnInductive, NEW a \in AnAnomalies, NEW s \in AnStates, AnTransition(a, s)
    PROVE  AnInductive'
<1> USE AnMaxVersionAssumption DEF AnInductive, AnTypeOK, AnTransition
<1>1. anState[a] \notin {"none", "SUPPRESSED"}
  BY DEF AnLegal
<1>2. AnTypeOK'
  OBVIOUS
<1>3. AnFreshOrCarried'
  BY <1>1 DEF AnFreshOrCarried
<1>4. AnVersionsBounded'
  BY DEF AnVersionsBounded
<1> QED BY <1>2, <1>3, <1>4

\* A reconciliation, anomaly by anomaly.
LEMMA AnReconciles ==
    ASSUME AnInductive, NEW done \in SUBSET AnCandidates, NEW hit \in SUBSET AnCandidates,
           hit \cap done = {},
           NEW out \in [done -> AnBreaches \cup {AnNormal, "failed"}], NEW authorised \in BOOLEAN,
           AnReconcile(done, hit, out, authorised)
    PROVE  AnInductive'
<1> USE AnMaxVersionAssumption DEF AnInductive, AnTypeOK
<1>1. PICK computed : computed = {a \in done : out[a] # "failed"}
  OBVIOUS
<1>2. PICK gone : gone = {a \in computed : authorised /\ AnSuperseded(a, out[a])}
  OBVIOUS
<1>3. /\ anState' = [a \in AnAnomalies |-> IF a \in gone THEN "SUPPRESSED" ELSE anState[a]]
      /\ anVersion' = [a \in AnAnomalies |-> IF a \in gone THEN anVersion[a] + 1 ELSE anVersion[a]]
      /\ anEnded' = [a \in AnAnomalies |-> anEnded[a] \/ a \in gone]
      /\ anValue' = [a \in AnAnomalies |-> IF a \in computed /\ AnTakesValue(a, out[a])
                                           THEN out[a] ELSE anValue[a]]
      /\ anFresh' = [a \in AnAnomalies |-> CASE a \in computed -> "FRESH"
                                             [] a \in done \ computed -> "DEGRADED"
                                             [] a \in hit -> "RECALCULATING"
                                             [] OTHER -> anFresh[a]]
      /\ anSeen' = [a \in AnAnomalies |-> IF a \in computed THEN out[a] ELSE anSeen[a]]
      /\ anCarried' = (anCarried \ computed)
                      \cup {a \in computed : /\ out[a] = AnNormal
                                             /\ anState[a] = "RESOLVED" \/ ~authorised}
  BY <1>1, <1>2 DEF AnReconcile
<1>4. /\ \A a \in computed : /\ a \in AnAnomalies
                             /\ anState[a] \notin {"none", "SUPPRESSED"}
                             /\ out[a] \in AnBreaches \cup {AnNormal}
      /\ \A a \in gone : a \in computed /\ out[a] = AnNormal
      /\ \A a \in computed \ gone : out[a] = AnNormal => anState[a] = "RESOLVED" \/ ~authorised
  BY <1>1, <1>2 DEF AnCandidates, AnSuperseded
<1>5. AnTypeOK'
  <2>1. anState' \in [AnAnomalies -> {"none"} \cup AnStates]
    BY <1>3 DEF AnStates
  <2>2. anVersion' \in [AnAnomalies -> 0..(AnMaxVersion + 1)]
    BY <1>3, <1>4 DEF AnVersionsBounded
  <2>3. anEnded' \in [AnAnomalies -> BOOLEAN]
    BY <1>3
  <2>4. anValue' \in [AnAnomalies -> AnBreaches \cup {AnNormal}]
    BY <1>3, <1>4
  <2>5. anFresh' \in [AnAnomalies -> {"FRESH", "DEGRADED", "RECALCULATING"}]
    BY <1>3
  <2>6. anSeen' \in [AnAnomalies -> AnBreaches \cup {AnNormal}]
    BY <1>3, <1>4
  <2>7. anCarried' \subseteq AnAnomalies
    BY <1>3, <1>4
  <2> QED BY <2>1, <2>2, <2>3, <2>4, <2>5, <2>6, <2>7
<1>6. ASSUME NEW a \in AnAnomalies, anState'[a] \notin {"none", "SUPPRESSED"},
             anFresh'[a] = "FRESH", a \notin anCarried'
      PROVE  anValue'[a] = anSeen'[a] /\ anSeen'[a] \in AnBreaches
  <2>1. CASE a \in computed
    <3>1. a \notin gone /\ out[a] # AnNormal
      BY <1>3, <1>4, <1>6, <2>1
    <3>2. out[a] \in AnBreaches
      BY <1>4, <2>1, <3>1
    <3> QED BY <1>3, <2>1, <3>2 DEF AnTakesValue
  <2>2. CASE a \notin computed
    <3>1. anFresh[a] = "FRESH"
      BY <1>3, <1>6, <2>2
    <3>2. anState[a] \notin {"none", "SUPPRESSED"} /\ a \notin anCarried
      BY <1>3, <1>4, <1>6, <2>2
    <3> QED BY <1>3, <2>2, <3>1, <3>2 DEF AnFreshOrCarried
  <2> QED BY <2>1, <2>2
<1>7. AnFreshOrCarried'
  BY <1>6 DEF AnFreshOrCarried
<1>8. AnVersionsBounded'
  BY <1>3 DEF AnVersionsBounded
<1> QED BY <1>5, <1>7, <1>8

\* What is fresh is what was seen, in every state.
LEMMA AnInvariant == AnSpec => []AnInductive
<1>1. AnInit => AnInductive
  <2> SUFFICES ASSUME AnInit PROVE AnInductive
    OBVIOUS
  <2>1. AnTypeOK
    BY AnMaxVersionAssumption DEF AnInit, AnTypeOK, AnStates
  <2> QED BY <2>1, AnMaxVersionAssumption DEF AnInit, AnInductive, AnFreshOrCarried, AnVersionsBounded
<1>2. AnInductive /\ [AnNext]_anVars => AnInductive'
  <2> SUFFICES ASSUME AnInductive, [AnNext]_anVars PROVE AnInductive'
    OBVIOUS
  <2>1. ASSUME NEW a \in AnAnomalies, NEW v \in AnBreaches, AnDetect(a, v) PROVE AnInductive'
    BY <2>1, AnDetects
  <2>2. ASSUME NEW a \in AnAnomalies, NEW s \in AnStates, AnTransition(a, s) PROVE AnInductive'
    BY <2>2, AnTransits
  <2>3. ASSUME NEW done \in SUBSET AnCandidates,
               NEW hit \in {{}} \cup {{a} : a \in AnCandidates \ done},
               NEW out \in [done -> AnBreaches \cup {AnNormal, "failed"}],
               NEW authorised \in BOOLEAN, AnReconcile(done, hit, out, authorised)
        PROVE  AnInductive'
    <3>1. hit \in SUBSET AnCandidates /\ hit \cap done = {}
      OBVIOUS
    <3> QED BY <2>3, <3>1, AnReconciles
  <2>4. CASE UNCHANGED anVars
    BY <2>4 DEF AnInductive, AnTypeOK, AnFreshOrCarried, AnVersionsBounded, anVars
  <2> QED BY <2>1, <2>2, <2>3, <2>4 DEF AnNext
<1> QED BY <1>1, <1>2, PTL DEF AnSpec

\* For any anomalies, breaches, windows and failing queries: what is open and FRESH is a
\* breach with the value last computed, or was computed as normal while it was RESOLVED or by
\* an actor whose transition was refused (analytics/reconciliation.py:100-183, lifecycle.py:139-152).
THEOREM AnFreshCurrent == AnSpec => []AnFreshIsCurrent
<1>1. AnInductive => AnFreshIsCurrent
  BY DEF AnInductive, AnFreshOrCarried, AnFreshIsCurrent, AnOpen
<1> QED BY <1>1, AnInvariant, PTL

-----------------------------------------------------------------------------
\* What a stream was sent, then what is queued for it.
EsGot(c) == esTold[c] \o esQueue[c]

\* The members of a sequence grow.
EsRising(s) == \A i, j \in 1..Len(s) : i < j => s[i] < s[j]

\* What is kept for a stream: nothing before it subscribes, everything since then while it is
\* subscribed, and everything up to the completion once that was sent to it.
EsAccounted(c) ==
    /\ EsRising(EsGot(c))
    /\ esSince[c] <= Len(esLog[EsTopicOf[c]])
    /\ esPhase[c] \in {"new", "connected"} =>
          esTold[c] = <<>> /\ esQueue[c] = <<>> /\ esDropped[c] = {}
    /\ esPhase[c] # "closed" => esEnd[c] = "open"
    /\ esPhase[c] \in {"waiting", "sending"} =>
          ToSet(EsGot(c)) \cup esDropped[c] = EsOwed(c, Len(esLog[EsTopicOf[c]]))
    /\ esEnd[c] = "completed" =>
          /\ esQueue[c] = <<>> /\ esTold[c] # <<>>
          /\ ToSet(esTold[c]) \cup {e \in esDropped[c] : e <= Last(esTold[c])}
                = EsOwed(c, Last(esTold[c]))

\* What every step of the stream keeps.
EsInductive == EsTypeOK /\ \A c \in EsStreams : EsAccounted(c)

\* Queueing one more appends it to what the stream gets.
LEMMA EsQueued ==
    ASSUME NEW s \in Seq(Nat), NEW t \in Seq(Nat), NEW n \in Nat
    PROVE  s \o Append(t, n) = Append(s \o t, n)
  OBVIOUS

\* Sending the first of the queue leaves what the stream gets as it was.
LEMMA EsPassedOn ==
    ASSUME NEW s \in Seq(Nat), NEW t \in Seq(Nat), t # <<>>
    PROVE  /\ Head(t) \in Nat /\ Tail(t) \in Seq(Nat)
           /\ Append(s, Head(t)) \o Tail(t) = s \o t
<1>1. Head(t) \in Nat /\ Tail(t) \in Seq(Nat)
  OBVIOUS
<1>2. Append(s, Head(t)) \o Tail(t) = s \o t
  <2> DEFINE a == Append(s, Head(t)) \o Tail(t)
             b == s \o t
  <2>1. a \in Seq(Nat) /\ b \in Seq(Nat) /\ Len(a) = Len(b)
    BY <1>1
  <2>2. \A i \in 1..Len(b) : a[i] = b[i]
    BY <1>1
  <2> QED BY <2>1, <2>2
<1> QED BY <1>1, <1>2

\* One larger than all keeps a sequence rising.
LEMMA EsRisesOn ==
    ASSUME NEW s \in Seq(Nat), NEW n \in Nat, EsRising(s), \A e \in ToSet(s) : e < n
    PROVE  EsRising(Append(s, n)) /\ ToSet(Append(s, n)) = ToSet(s) \cup {n}
<1>1. /\ Len(Append(s, n)) = Len(s) + 1 /\ Len(s) \in Nat /\ DOMAIN s = 1..Len(s)
      /\ \A i \in 1..Len(s) : Append(s, n)[i] = s[i] /\ s[i] \in ToSet(s) /\ s[i] \in Nat
      /\ Append(s, n)[Len(s) + 1] = n
      /\ DOMAIN Append(s, n) = 1..(Len(s) + 1)
  BY DEF ToSet
<1>2. EsRising(Append(s, n))
  BY <1>1 DEF EsRising
<1>3. ToSet(Append(s, n)) = ToSet(s) \cup {n}
  <2>1. PICK t : t = Append(s, n)
    OBVIOUS
  <2>2. /\ DOMAIN t = 1..(Len(s) + 1) /\ t[Len(s) + 1] = n
        /\ \A i \in 1..Len(s) : t[i] = s[i]
    BY <1>1, <2>1
  <2>3. ToSet(t) \subseteq ToSet(s) \cup {n}
    <3> SUFFICES ASSUME NEW i \in 1..(Len(s) + 1) PROVE t[i] \in ToSet(s) \cup {n}
      BY <2>2 DEF ToSet
    <3>1. i \in 1..Len(s) \/ i = Len(s) + 1
      BY <1>1
    <3> QED BY <1>1, <2>2, <3>1
  <2>4. ToSet(s) \cup {n} \subseteq ToSet(t)
    <3>1. 1..Len(s) \subseteq 1..(Len(s) + 1) /\ Len(s) + 1 \in 1..(Len(s) + 1)
      BY <1>1
    <3> QED BY <1>1, <2>2, <3>1 DEF ToSet
  <2> QED BY <2>1, <2>3, <2>4
<1> QED BY <1>2, <1>3

\* The first part of a rising sequence is what does not exceed its last member.
LEMMA EsFirstPart ==
    ASSUME NEW s \in Seq(Nat), NEW t \in Seq(Nat), EsRising(s \o t)
    PROVE  /\ EsRising(s)
           /\ s # <<>> => /\ Last(s) \in ToSet(s \o t)
                          /\ ToSet(s) = {e \in ToSet(s \o t) : e <= Last(s)}
<1>1. /\ Len(s) \in Nat /\ Len(t) \in Nat /\ Len(s \o t) = Len(s) + Len(t)
      /\ DOMAIN s = 1..Len(s) /\ DOMAIN (s \o t) = 1..(Len(s) + Len(t))
      /\ \A i \in 1..Len(s) : (s \o t)[i] = s[i] /\ s[i] \in Nat
      /\ \A i \in 1..(Len(s) + Len(t)) : (s \o t)[i] \in Nat
  OBVIOUS
<1>2. EsRising(s)
  <2> SUFFICES ASSUME NEW i \in 1..Len(s), NEW j \in 1..Len(s), i < j PROVE s[i] < s[j]
    BY DEF EsRising
  <2>1. i \in 1..Len(s \o t) /\ j \in 1..Len(s \o t)
    BY <1>1
  <2>2. (s \o t)[i] < (s \o t)[j]
    BY <2>1 DEF EsRising
  <2> QED BY <1>1, <2>2
<1>3. ASSUME s # <<>>
      PROVE  Last(s) \in ToSet(s \o t) /\ ToSet(s) = {e \in ToSet(s \o t) : e <= Last(s)}
  <2>1. Len(s) \in 1..Len(s) /\ Last(s) = s[Len(s)] /\ Last(s) \in Nat
    BY <1>1, <1>3 DEF Last
  <2>2. \A i \in 1..(Len(s) + Len(t)) : (s \o t)[i] <= Last(s) <=> i <= Len(s)
    BY <1>1, <2>1 DEF EsRising
  <2>3. Last(s) \in ToSet(s \o t)
    BY <1>1, <2>1 DEF ToSet
  <2>4. ToSet(s) \subseteq {e \in ToSet(s \o t) : e <= Last(s)}
    BY <1>1, <2>1, <2>2 DEF ToSet
  <2>5. {e \in ToSet(s \o t) : e <= Last(s)} \subseteq ToSet(s)
    BY <1>1, <2>1, <2>2 DEF ToSet
  <2> QED BY <2>3, <2>4, <2>5
<1> QED BY <1>2, <1>3

\* A publication is owed to every subscriber of its topic, which gets it or whose queue is full.
LEMMA EsPublishes ==
    ASSUME EsInductive, NEW k \in EsTopics, NEW kind \in EsKinds, EsPublish(k, kind),
           esReplay' \in [EsReplays -> 0..(EsMilestones + 1)]
    PROVE  EsInductive'
<1> USE EsTopicAssumption DEF EsInductive, EsTypeOK
<1>0. PICK e : e = Len(esLog[k]) + 1
  OBVIOUS
<1>1. /\ esLog' = [esLog EXCEPT ![k] = Append(@, kind)]
      /\ UNCHANGED <<esPhase, esTold, esSince, esEnd>>
      /\ e \in Nat /\ esLog[k] \in Seq(EsKinds)
  BY <1>0 DEF EsPublish
<1>2. ASSUME NEW c \in EsStreams
      PROVE  /\ esQueue'[c] = IF c \in EsSubscribers(k) /\ ~EsFull(c) THEN Append(esQueue[c], e) ELSE esQueue[c]
             /\ esDropped'[c] = IF c \in EsSubscribers(k) /\ EsFull(c) THEN esDropped[c] \cup {e} ELSE esDropped[c]
             /\ esQueue[c] \in Seq(Nat) /\ esTold[c] \in Seq(Nat) /\ esDropped[c] \in SUBSET Nat
  BY <1>0 DEF EsPublish
<1>3. EsTypeOK'
  <2>1. esLog' \in [EsTopics -> Seq(EsKinds)]
    BY <1>1
  <2>2. \A c \in EsStreams : esQueue'[c] \in Seq(Nat) /\ esDropped'[c] \in SUBSET Nat
    <3> SUFFICES ASSUME NEW c \in EsStreams PROVE esQueue'[c] \in Seq(Nat) /\ esDropped'[c] \in SUBSET Nat
      OBVIOUS
    <3>1. Append(esQueue[c], e) \in Seq(Nat) /\ esDropped[c] \cup {e} \in SUBSET Nat
      BY <1>1, <1>2
    <3> QED BY <1>2, <3>1
  <2>3. esQueue' \in [EsStreams -> Seq(Nat)] /\ esDropped' \in [EsStreams -> SUBSET Nat]
    BY <2>2 DEF EsPublish
  <2> QED BY <1>1, <2>1, <2>3
<1>4. ASSUME NEW c \in EsStreams PROVE EsAccounted(c)'
  <2>1. EsAccounted(c) /\ EsTopicOf[c] \in EsTopics /\ esSince[c] \in Nat
    OBVIOUS
  <2>2. /\ esPhase'[c] = esPhase[c] /\ esTold'[c] = esTold[c] /\ esSince'[c] = esSince[c]
        /\ esEnd'[c] = esEnd[c]
    BY <1>1
  <2>3. /\ Len(esLog'[EsTopicOf[c]]) = IF EsTopicOf[c] = k THEN e ELSE Len(esLog[EsTopicOf[c]])
        /\ Len(esLog[EsTopicOf[c]]) \in Nat
        /\ esSince[c] <= Len(esLog[EsTopicOf[c]])
    BY <1>0, <1>1, <2>1 DEF EsAccounted
  <2>4. CASE c \notin EsSubscribers(k)
    <3>1. esQueue'[c] = esQueue[c] /\ esDropped'[c] = esDropped[c]
      BY <1>2, <2>4
    <3>2. EsTopicOf[c] = k => esPhase[c] \notin {"waiting", "sending"}
      BY <2>4 DEF EsSubscribers
    <3>3. EsTopicOf[c] # k => Len(esLog'[EsTopicOf[c]]) = Len(esLog[EsTopicOf[c]])
      BY <2>3
    <3>4. esSince'[c] <= Len(esLog'[EsTopicOf[c]])
      BY <1>0, <2>1, <2>2, <2>3
    <3> QED BY <2>1, <2>2, <3>1, <3>2, <3>3, <3>4 DEF EsAccounted, EsGot, EsOwed
  <2>5. CASE c \in EsSubscribers(k)
    <3>1. /\ EsTopicOf[c] = k /\ esPhase[c] \in {"waiting", "sending"} /\ esEnd[c] = "open"
          /\ ToSet(EsGot(c)) \cup esDropped[c] = EsOwed(c, Len(esLog[k])) /\ EsRising(EsGot(c))
      BY <2>1, <2>5 DEF EsSubscribers, EsAccounted
    <3>2. /\ EsOwed(c, e)' = EsOwed(c, Len(esLog[k])) \cup {e}
          /\ \A x \in EsOwed(c, Len(esLog[k])) : x < e
      BY <1>0, <1>1, <2>1, <2>2, <2>3, <3>1 DEF EsOwed
    <3>3. EsRising(EsGot(c))' /\ ToSet(EsGot(c))' \cup esDropped'[c] = EsOwed(c, e)'
      <4>1. CASE EsFull(c)
        <5>1. EsGot(c)' = EsGot(c) /\ esDropped'[c] = esDropped[c] \cup {e}
          BY <1>2, <2>2, <2>5, <4>1 DEF EsGot
        <5> QED BY <3>1, <3>2, <5>1
      <4>2. CASE ~EsFull(c)
        <5>1. EsGot(c)' = Append(EsGot(c), e) /\ esDropped'[c] = esDropped[c] /\ EsGot(c) \in Seq(Nat)
          <6>1. esTold[c] \in Seq(Nat) /\ esQueue[c] \in Seq(Nat)
            BY <1>2
          <6>2. esTold[c] \o Append(esQueue[c], e) = Append(esTold[c] \o esQueue[c], e)
            BY <1>1, <6>1, EsQueued
          <6>3. esQueue'[c] = Append(esQueue[c], e) /\ esDropped'[c] = esDropped[c]
            BY <1>2, <2>5, <4>2
          <6> QED BY <2>2, <6>1, <6>2, <6>3 DEF EsGot
        <5>2. EsRising(Append(EsGot(c), e)) /\ ToSet(Append(EsGot(c), e)) = ToSet(EsGot(c)) \cup {e}
          BY <1>1, <3>1, <3>2, <5>1, EsRisesOn
        <5> QED BY <3>1, <3>2, <5>1, <5>2
      <4> QED BY <4>1, <4>2
    <3>4. Len(esLog'[EsTopicOf[c]]) = e /\ esSince'[c] <= e
      BY <1>0, <2>1, <2>2, <2>3, <3>1
    <3> QED BY <2>2, <3>1, <3>3, <3>4 DEF EsAccounted
  <2> QED BY <2>4, <2>5
<1> QED BY <1>3, <1>4

\* A step of a stream that publishes nothing is the others' business no more than theirs is its.
LEMMA EsOwnSteps ==
    ASSUME EsInductive, NEW c \in EsStreams, EsTypeOK', EsAccounted(c)', esLog' = esLog,
           \A d \in EsStreams \ {c} : /\ esPhase'[d] = esPhase[d] /\ esQueue'[d] = esQueue[d]
                                     /\ esTold'[d] = esTold[d] /\ esSince'[d] = esSince[d]
                                     /\ esDropped'[d] = esDropped[d] /\ esEnd'[d] = esEnd[d]
    PROVE  EsInductive'
<1>1. ASSUME NEW d \in EsStreams \ {c} PROVE EsAccounted(d)'
  BY <1>1 DEF EsInductive, EsAccounted, EsGot, EsOwed
<1> QED BY <1>1 DEF EsInductive

\* A stream that connects or subscribes is owed nothing yet.
LEMMA EsSubscribes ==
    ASSUME EsInductive, NEW c \in EsStreams, EsConnect(c) \/ EsSubscribe(c) \/ EsWait(c)
    PROVE  EsInductive'
<1> USE EsTopicAssumption DEF EsInductive, EsTypeOK
<1>1. EsAccounted(c) /\ EsTopicOf[c] \in EsTopics /\ Len(esLog[EsTopicOf[c]]) \in Nat
  OBVIOUS
<1>2. CASE EsConnect(c)
  <2>1. EsTypeOK' /\ EsAccounted(c)'
    BY <1>1, <1>2 DEF EsConnect, EsAccounted, EsGot
  <2> QED BY <1>2, <2>1, EsOwnSteps DEF EsConnect
<1>3. CASE EsSubscribe(c)
  <2>1. /\ esPhase[c] = "connected" /\ esPhase'[c] = "waiting" /\ esLog' = esLog
        /\ esSince'[c] = Len(esLog[EsTopicOf[c]])
        /\ UNCHANGED <<esQueue, esTold, esDropped, esEnd>>
    BY <1>3 DEF EsSubscribe
  <2>2. esTold[c] = <<>> /\ esQueue[c] = <<>> /\ esDropped[c] = {} /\ esEnd[c] = "open"
    BY <1>1, <2>1 DEF EsAccounted
  <2>3. EsGot(c)' = <<>> /\ ToSet(EsGot(c))' = {} /\ EsRising(EsGot(c))'
    BY <2>1, <2>2 DEF EsGot, EsRising, ToSet
  <2>4. EsOwed(c, Len(esLog[EsTopicOf[c]]))' = {}
    BY <1>1, <2>1 DEF EsOwed
  <2>5. EsAccounted(c)'
    BY <1>1, <2>1, <2>2, <2>3, <2>4 DEF EsAccounted
  <2>6. EsTypeOK'
    BY <1>1, <1>3 DEF EsSubscribe
  <2> QED BY <1>3, <2>5, <2>6, EsOwnSteps DEF EsSubscribe
<1>4. CASE EsWait(c)
  <2>1. EsTypeOK' /\ EsAccounted(c)'
    BY <1>1, <1>4 DEF EsWait, EsAccounted, EsGot, EsOwed
  <2> QED BY <1>4, <2>1, EsOwnSteps DEF EsWait
<1> QED BY <1>2, <1>3, <1>4

\* A stream that is closed before its time keeps what it was sent.
LEMMA EsAbandons ==
    ASSUME EsInductive, NEW c \in EsStreams, EsQuiet(c) \/ EsLeave(c)
    PROVE  EsInductive'
<1> USE EsTopicAssumption DEF EsInductive, EsTypeOK
<1>1. PICK why \in {"quiet", "left"} :
          /\ esPhase' = [esPhase EXCEPT ![c] = "closed"]
          /\ esQueue' = [esQueue EXCEPT ![c] = <<>>]
          /\ esEnd' = [esEnd EXCEPT ![c] = why]
          /\ UNCHANGED <<esLog, esTold, esReplay, esSince, esDropped>>
  BY DEF EsQuiet, EsLeave, EsCloses
<1>2. EsAccounted(c) /\ esTold[c] \in Seq(Nat) /\ esQueue[c] \in Seq(Nat)
  OBVIOUS
<1>3. EsTypeOK'
  BY <1>1
<1>4. EsRising(EsGot(c))'
  <2>1. EsRising(esTold[c])
    BY <1>2, EsFirstPart DEF EsAccounted, EsGot
  <2>2. EsGot(c)' = esTold[c]
    BY <1>1, <1>2 DEF EsGot
  <2> QED BY <2>1, <2>2
<1>5. EsAccounted(c)'
  BY <1>1, <1>2, <1>4 DEF EsAccounted
<1> QED BY <1>1, <1>3, <1>5, EsOwnSteps

\* An event passes from the queue to the client; the completion is the last one the stream owes.
LEMMA EsSends ==
    ASSUME EsInductive, NEW c \in EsStreams, EsSend(c)
    PROVE  EsInductive'
<1> USE EsTopicAssumption DEF EsInductive, EsTypeOK
<1> DEFINE n == Head(esQueue[c])
           sent == Append(esTold[c], n)
           rest == Tail(esQueue[c])
<1>1. /\ esPhase[c] \in {"waiting", "sending"} /\ esQueue[c] # <<>>
      /\ esTold' = [esTold EXCEPT ![c] = sent]
      /\ UNCHANGED <<esLog, esReplay, esSince, esDropped>>
  BY DEF EsSend
<1>2. /\ EsAccounted(c) /\ esTold[c] \in Seq(Nat) /\ esQueue[c] \in Seq(Nat)
      /\ EsTopicOf[c] \in EsTopics /\ Len(esLog[EsTopicOf[c]]) \in Nat /\ esSince[c] \in Nat
  OBVIOUS
<1>3. n \in Nat /\ rest \in Seq(Nat) /\ sent \o rest = EsGot(c)
  BY <1>1, <1>2, EsPassedOn DEF EsGot
<1>4. sent \in Seq(Nat) /\ sent # <<>> /\ Last(sent) = n
  <2> HIDE DEF n
  <2>1. sent \in Seq(Nat) /\ Len(sent) = Len(esTold[c]) + 1 /\ sent[Len(esTold[c]) + 1] = n
    BY <1>2, <1>3
  <2>2. Len(<<>>) = 0 /\ Len(esTold[c]) \in Nat
    BY <1>2
  <2> HIDE DEF sent
  <2>3. sent # <<>>
    BY <2>1, <2>2
  <2> QED BY <2>1, <2>3 DEF Last
<1>5. EsRising(sent) /\ n \in ToSet(EsGot(c)) /\ ToSet(sent) = {e \in ToSet(EsGot(c)) : e <= n}
  <2>1. EsRising(sent \o rest)
    BY <1>2, <1>3 DEF EsAccounted
  <2> HIDE DEF sent, rest, n
  <2> QED BY <1>3, <1>4, <2>1, EsFirstPart
<1>6. /\ EsRising(EsGot(c)) /\ esEnd[c] = "open"
      /\ esSince[c] <= Len(esLog[EsTopicOf[c]])
      /\ ToSet(EsGot(c)) \cup esDropped[c] = EsOwed(c, Len(esLog[EsTopicOf[c]]))
  BY <1>1, <1>2 DEF EsAccounted
<1> HIDE DEF sent, rest, n
<1>7. CASE EsIsLast(c, n)
  <2>1. /\ esPhase' = [esPhase EXCEPT ![c] = "closed"]
        /\ esQueue' = [esQueue EXCEPT ![c] = <<>>]
        /\ esEnd' = [esEnd EXCEPT ![c] = "completed"]
    BY <1>7 DEF EsSend, EsCloses, n
  <2>2. EsTypeOK'
    BY <1>1, <1>4, <2>1
  <2>3. EsGot(c)' = sent /\ esTold'[c] = sent
    BY <1>1, <1>4, <2>1 DEF EsGot
  <2>4. ToSet(sent) \cup {e \in esDropped[c] : e <= n} = EsOwed(c, n)
    <3>1. n <= Len(esLog[EsTopicOf[c]])
      BY <1>5, <1>6 DEF EsOwed
    <3>2. EsOwed(c, n) = {e \in EsOwed(c, Len(esLog[EsTopicOf[c]])) : e <= n}
      BY <1>2, <1>3, <3>1 DEF EsOwed
    <3> QED BY <1>5, <1>6, <3>2
  <2>5. EsAccounted(c)'
    <3>1. (ToSet(esTold[c]) \cup {e \in esDropped[c] : e <= Last(esTold[c])} = EsOwed(c, Last(esTold[c])))'
      BY <1>1, <1>4, <2>3, <2>4 DEF EsOwed
    <3> QED BY <1>1, <1>4, <1>5, <1>6, <2>1, <2>3, <3>1 DEF EsAccounted
  <2> QED BY <1>1, <2>1, <2>2, <2>5, EsOwnSteps
<1>8. CASE ~EsIsLast(c, n)
  <2>1. /\ esPhase' = [esPhase EXCEPT ![c] = "sending"]
        /\ esQueue' = [esQueue EXCEPT ![c] = rest]
        /\ esEnd' = esEnd
    BY <1>8 DEF EsSend, n, rest
  <2>2. EsTypeOK'
    BY <1>1, <1>3, <1>4, <2>1
  <2>3. EsGot(c)' = EsGot(c)
    BY <1>1, <1>3, <2>1 DEF EsGot
  <2>4. EsOwed(c, Len(esLog[EsTopicOf[c]]))' = EsOwed(c, Len(esLog[EsTopicOf[c]]))
    BY <1>1 DEF EsOwed
  <2>5. EsAccounted(c)'
    BY <1>1, <1>6, <2>1, <2>3, <2>4 DEF EsAccounted
  <2> QED BY <1>1, <2>1, <2>2, <2>5, EsOwnSteps
<1> QED BY <1>7, <1>8

\* What streams are owed is accounted for in every state.
LEMMA EsInvariant == EsSpec => []EsInductive
<1> USE EsTopicAssumption, EsBoundsAssumption
<1>1. EsInit => EsInductive
  <2> SUFFICES ASSUME EsInit PROVE EsInductive
    OBVIOUS
  <2>1. EsTypeOK
    BY DEF EsInit, EsTypeOK
  <2>2. ASSUME NEW c \in EsStreams PROVE EsAccounted(c)
    <3>1. /\ esPhase[c] = "new" /\ esQueue[c] = <<>> /\ esTold[c] = <<>> /\ esSince[c] = 0
          /\ esDropped[c] = {} /\ esEnd[c] = "open" /\ esLog[EsTopicOf[c]] = <<>>
      BY DEF EsInit
    <3>2. EsRising(EsGot(c))
      BY <3>1 DEF EsRising, EsGot
    <3> QED BY <3>1, <3>2 DEF EsAccounted
  <2> QED BY <2>1, <2>2 DEF EsInductive
<1>2. EsInductive /\ [EsNext]_esVars => EsInductive'
  <2> SUFFICES ASSUME EsInductive, [EsNext]_esVars PROVE EsInductive'
    OBVIOUS
  <2>1. ASSUME NEW k \in EsTopics, EsSignal(k) PROVE EsInductive'
    BY <2>1, EsPublishes DEF EsSignal, EsKinds, EsInductive, EsTypeOK
  <2>2. ASSUME NEW r \in EsReplays, EsReplayStep(r) PROVE EsInductive'
    <3>1. EsTopicOf[r] \in EsTopics /\ esReplay' \in [EsReplays -> 0..(EsMilestones + 1)]
      <4>1. EsTopicOf[r] \in EsTopics
        BY EsTopicAssumption
      <4>2. /\ esReplay \in [EsReplays -> 0..(EsMilestones + 1)]
            /\ EsMilestones \in Nat
        BY EsBoundsAssumption DEF EsInductive, EsTypeOK
      <4>3. esReplay' \in [EsReplays -> 0..(EsMilestones + 1)]
        <5>1. CASE esReplay[r] < EsMilestones /\ esReplay' = [esReplay EXCEPT ![r] = @ + 1]
          BY <4>2, <5>1
        <5>2. CASE esReplay' = [esReplay EXCEPT ![r] = EsMilestones + 1]
          BY <4>2, <5>2
        <5> QED BY <2>2, <5>1, <5>2 DEF EsReplayStep
      <4> QED BY <4>1, <4>3
    <3>2. PICK kind \in EsKinds : EsPublish(EsTopicOf[r], kind)
      BY <2>2 DEF EsReplayStep, EsKinds
    <3> QED BY <3>1, <3>2, EsPublishes
  <2>3. ASSUME NEW c \in EsStreams, \/ EsConnect(c) \/ EsSubscribe(c) \/ EsSend(c) \/ EsWait(c)
                                    \/ EsQuiet(c) \/ EsLeave(c)
        PROVE  EsInductive'
    BY <2>3, EsSubscribes, EsSends, EsAbandons
  <2>4. CASE UNCHANGED esVars
    BY <2>4 DEF EsInductive, EsTypeOK, EsAccounted, EsGot, EsOwed, esVars
  <2> QED BY <2>1, <2>2, <2>3, <2>4 DEF EsNext
<1> QED BY <1>1, <1>2, PTL DEF EsSpec

\* For any number of topics, streams and events and any size of the queues: a client misses what
\* its queue was full for and nothing else, in the order of publication
\* (event_broadcaster.py:48-61, :79-89; investigations.py:274-304).
THEOREM EsLosesOnlyToFullQueues == EsSpec => []EsOnlyFullQueuesLose
<1>1. EsInductive => EsOnlyFullQueuesLose
  <2> SUFFICES ASSUME EsInductive, NEW c \in EsStreams
               PROVE  LET k == EsTopicOf[c]
                          got == esTold[c] \o esQueue[c]
                          upTo == IF esEnd[c] = "completed" THEN Last(esTold[c]) ELSE Len(esLog[k])
                      IN /\ \A i, j \in 1..Len(got) : i < j => got[i] < got[j]
                         /\ esPhase[c] \in {"waiting", "sending"} \/ esEnd[c] = "completed" =>
                               ToSet(got) \cup {e \in esDropped[c] : e <= upTo} = EsOwed(c, upTo)
    BY DEF EsOnlyFullQueuesLose
  <2> DEFINE k == EsTopicOf[c]
  <2>1. /\ EsAccounted(c) /\ esTold[c] \in Seq(Nat) /\ esQueue[c] \in Seq(Nat)
        /\ esDropped[c] \in SUBSET Nat
    BY DEF EsInductive, EsTypeOK
  <2>2. \A i, j \in 1..Len(EsGot(c)) : i < j => EsGot(c)[i] < EsGot(c)[j]
    BY <2>1 DEF EsAccounted, EsRising
  <2>3. CASE esEnd[c] = "completed"
    <3>1. EsGot(c) = esTold[c]
      <4>1. esQueue[c] = <<>> /\ esTold[c] \o <<>> = esTold[c]
        BY <2>1, <2>3 DEF EsAccounted
      <4> QED BY <4>1 DEF EsGot
    <3> QED BY <2>1, <2>2, <2>3, <3>1 DEF EsAccounted, EsGot
  <2>4. CASE esEnd[c] # "completed" /\ esPhase[c] \in {"waiting", "sending"}
    <3>1. ToSet(EsGot(c)) \cup esDropped[c] = EsOwed(c, Len(esLog[k]))
      BY <2>1, <2>4 DEF EsAccounted
    <3>2. {e \in esDropped[c] : e <= Len(esLog[k])} = esDropped[c]
      BY <3>1 DEF EsOwed
    <3> QED BY <2>2, <2>4, <3>1, <3>2 DEF EsGot
  <2>5. CASE esEnd[c] # "completed" /\ esPhase[c] \notin {"waiting", "sending"}
    BY <2>2, <2>5 DEF EsGot
  <2> QED BY <2>3, <2>4, <2>5
<1> QED BY <1>1, EsInvariant, PTL
=============================================================================
