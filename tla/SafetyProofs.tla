---------------------------- MODULE SafetyProofs ----------------------------
(***************************************************************************)
(* The services that keep something out, for every value of their          *)
(* constants: kill switches, secrets, tenants, canaries, readiness         *)
(* manifests and plans.                                                    *)
(*                                                                         *)
(* Kill switches: whatever is pushed reaches the store of every running    *)
(* node, so a store can differ from the bus only by what its own node      *)
(* wrote. Secrets: the type invariant and the property are inductive       *)
(* together; the lemmas follow the tokens that a purge finds.  Tenants: a  *)
(* deletion that is past its check and a hold exclude each other unless    *)
(* the hold came later.  Canaries: an aborted bundle, if it is registered, *)
(* is in quarantine, which no promotion takes.  Manifests: a control that  *)
(* holds has passed with the evidence it names.  Plans: the invariant of   *)
(* Kahn's algorithm, with one more part, that the depth of a task is a     *)
(* lower bound of every layering; it makes an early refusal right as well  *)
(* as an acceptance.                                                       *)
(***************************************************************************)
EXTENDS KillSwitchBus, SecretRotation, TenantLifecycle, CanaryRelease, ReadinessGate, PlanDag,
        FiniteSetTheorems, TLAPS

\* A switch that a running node was pushed, or seeded with, and that is active on the bus is
\* known to the node's own store: only a deactivation at the node itself may differ.
KsStoresFollow ==
    \A n \in ksRuns : \A id \in ksDue[n] :
        ksBus[id] = "active" => ksStore[n][id] \in {"active", "inactive"}

\* What every step of the bus and its nodes keeps.
KsInductive == KsTypeOK /\ KsStoresFollow

\* A record that is written by a node, to the bus if that is up.
LEMMA KsWritten ==
    ASSUME KsInductive, NEW n \in ksRuns, NEW id \in KsIds, NEW r \in {"active", "inactive"},
           KsWrite(n, id, r)
    PROVE  KsInductive'
<1> USE DEF KsInductive, KsTypeOK, KsRecords
<1>1. n \in KsNodes /\ r \in KsRecords
  OBVIOUS
<1>2. CASE ksBusUp
  <2>1. /\ ksBus' = [ksBus EXCEPT ![id] = r]
        /\ ksStore' = [k \in KsNodes |-> IF k \in ksRuns THEN [ksStore[k] EXCEPT ![id] = r] ELSE ksStore[k]]
        /\ ksCache' = [k \in KsNodes |-> IF k \in ksRuns THEN [ksCache[k] EXCEPT ![id] = r] ELSE ksCache[k]]
        /\ ksDue' = [k \in KsNodes |-> IF k \in ksRuns THEN ksDue[k] \cup {id} ELSE ksDue[k]]
        /\ UNCHANGED <<ksBusUp, ksStoreUp, ksRuns>>
    BY <1>2 DEF KsWrite, KsPushed
  <2>2. KsTypeOK'
    BY <1>1, <2>1
  <2>3. ASSUME NEW k \in ksRuns, NEW i \in ksDue[k] \cup {id}, ksBus'[i] = "active"
        PROVE  ksStore'[k][i] \in {"active", "inactive"}
    BY <1>1, <2>1, <2>3 DEF KsStoresFollow
  <2>4. KsStoresFollow'
    BY <2>1, <2>3 DEF KsStoresFollow
  <2> QED BY <2>2, <2>4
<1>3. CASE ~ksBusUp
  <2>1. /\ ksStore' = [ksStore EXCEPT ![n] = KsOwnStore(n, id, r)]
        /\ ksCache' = [ksCache EXCEPT ![n] = [ksCache[n] EXCEPT ![id] = r]]
        /\ UNCHANGED <<ksBus, ksDue, ksBusUp, ksStoreUp, ksRuns>>
    BY <1>1, <1>3 DEF KsWrite
  <2>2. KsOwnStore(n, id, r) \in [KsIds -> KsRecords]
    BY <1>1 DEF KsOwnStore
  <2>3. KsTypeOK'
    BY <1>1, <2>1, <2>2
  <2>4. \A i \in KsIds : ksStore[n][i] \in {"active", "inactive"}
                            => KsOwnStore(n, id, r)[i] \in {"active", "inactive"}
    BY <1>1 DEF KsOwnStore
  <2>5. KsStoresFollow'
    BY <1>1, <2>1, <2>4 DEF KsStoresFollow
  <2> QED BY <2>3, <2>5
<1> QED BY <1>2, <1>3

\* A service that starts knows what the bus knows, or was told nothing.
LEMMA KsStarted ==
    ASSUME KsInductive, NEW n \in KsNodes, KsStart(n)
    PROVE  KsInductive'
<1> USE DEF KsInductive, KsTypeOK, KsRecords
<1>1. KsTypeOK'
  <2>1. CASE ksBusUp
    BY <2>1 DEF KsStart, KsSeed
  <2>2. CASE ~ksBusUp
    <3>1. [id \in KsIds |-> "none"] \in [KsIds -> KsRecords]
      OBVIOUS
    <3>2. PICK empty : empty = [id \in KsIds |-> "none"]
      OBVIOUS
    <3>3. /\ ksCache' = [ksCache EXCEPT ![n] = empty]
          /\ ksStore' = [ksStore EXCEPT ![n] = empty]
          /\ ksDue' = [ksDue EXCEPT ![n] = {}]
      BY <2>2, <3>2 DEF KsStart, KsSeed
    <3>4. /\ ksRuns' = ksRuns \cup {n}
          /\ ksStoreUp' = [ksStoreUp EXCEPT ![n] = TRUE]
          /\ UNCHANGED <<ksBus, ksBusUp>>
      BY DEF KsStart
    <3> QED BY <3>1, <3>2, <3>3, <3>4
  <2> QED BY <2>1, <2>2
<1>2. KsStoresFollow'
  <2>1. CASE ksBusUp
    BY <2>1 DEF KsStart, KsSeed, KsStoresFollow
  <2>2. CASE ~ksBusUp
    BY <2>2 DEF KsStart, KsSeed, KsStoresFollow
  <2> QED BY <2>1, <2>2
<1> QED BY <1>1, <1>2

\* The stores of running nodes follow the bus in every state.
LEMMA KsInvariant == KsSpec => []KsInductive
<1>1. KsInit => KsInductive
  BY DEF KsInit, KsInductive, KsTypeOK, KsRecords, KsStoresFollow
<1>2. KsInductive /\ [KsNext]_ksVars => KsInductive'
  <2> SUFFICES ASSUME KsInductive, [KsNext]_ksVars PROVE KsInductive'
    OBVIOUS
  <2>1. ASSUME NEW n \in KsNodes, KsStart(n) PROVE KsInductive'
    BY <2>1, KsStarted
  <2>2. ASSUME NEW n \in KsNodes, KsStoreTurns(n) PROVE KsInductive'
    BY <2>2 DEF KsInductive, KsTypeOK, KsStoresFollow, KsStoreTurns
  <2>3. ASSUME NEW n \in KsNodes, NEW id \in KsIds, KsActivate(n, id) PROVE KsInductive'
    BY <2>3, KsWritten DEF KsActivate
  <2>4. ASSUME NEW n \in KsNodes, NEW id \in KsIds, KsDeactivate(n, id) PROVE KsInductive'
    BY <2>4, KsWritten DEF KsDeactivate
  <2>5. CASE KsBusTurns
    BY <2>5 DEF KsInductive, KsTypeOK, KsStoresFollow, KsBusTurns
  <2>6. CASE UNCHANGED ksVars
    BY <2>6 DEF KsInductive, KsTypeOK, KsStoresFollow, ksVars
  <2> QED BY <2>1, <2>2, <2>3, <2>4, <2>5, <2>6 DEF KsNext
<1> QED BY <1>1, <1>2, PTL DEF KsSpec

\* For every number of nodes, switches and outages: losing the bus releases nothing that a node
\* blocked through it and was told of, unless the node itself deactivated it
\* (safety/killswitch/service.py:91-105, :197-224).
THEOREM KsFailoverSafe == KsSpec => []KsFailoverKeepsBlocks
<1>1. KsInductive => KsFailoverKeepsBlocks
  BY DEF KsInductive, KsTypeOK, KsStoresFollow, KsFailoverKeepsBlocks, KsBlocked, KsMatched,
         KsView, KsReleasedHere
<1> QED BY <1>1, KsInvariant, PTL

\* Every running node knows what the bus knows.
KsAgree == \A n \in ksRuns : ksStore[n] = ksBus /\ ksCache[n] = ksBus

\* Outages during which nothing is activated or deactivated and no node is started.
KsCalmSpec == KsInit /\ [][KsNext /\ (~ksBusUp => UNCHANGED <<ksStore, ksCache, ksRuns>>)]_ksVars

\* What it takes for the nodes to agree: through outages during which nobody writes and nobody
\* starts, a node whose store answers blocks without the bus exactly what it blocks with it
\* (service.py:145 only logs a publication that fails, and nobody repeats it).
THEOREM KsCalmOutagesChangeNothing ==
    KsCalmSpec => [](\A n \in ksRuns, q \in KsCalls :
                        ksStoreUp[n] => (KsBlocked(n, FALSE, q) <=> KsBlocked(n, TRUE, q)))
<1>1. KsInit => KsAgree
  BY DEF KsInit, KsAgree
<1>2. KsInductive /\ KsAgree /\ [KsNext /\ (~ksBusUp => UNCHANGED <<ksStore, ksCache, ksRuns>>)]_ksVars
        => KsAgree'
  <2> SUFFICES ASSUME KsInductive, KsAgree,
                      [KsNext /\ (~ksBusUp => UNCHANGED <<ksStore, ksCache, ksRuns>>)]_ksVars
               PROVE  KsAgree'
    OBVIOUS
  <2> USE DEF KsInductive, KsTypeOK, KsAgree
  <2>1. ASSUME UNCHANGED <<ksBus, ksStore, ksCache, ksRuns>> PROVE KsAgree'
    BY <2>1
  <2>2. ASSUME NEW n \in KsNodes, KsStart(n) PROVE KsAgree'
    <3>1. CASE ksBusUp
      BY <2>2, <3>1 DEF KsStart, KsSeed
    <3>2. CASE ~ksBusUp
      BY <2>1, <2>2, <3>2 DEF KsStart, ksVars
    <3> QED BY <3>1, <3>2
  <2>3. ASSUME NEW n \in KsNodes, NEW id \in KsIds, NEW r, KsWrite(n, id, r) PROVE KsAgree'
    <3>1. CASE ksBusUp
      BY <2>3, <3>1 DEF KsWrite, KsPushed
    <3>2. CASE ~ksBusUp
      BY <2>1, <2>3, <3>2 DEF KsWrite, ksVars
    <3> QED BY <3>1, <3>2
  <2>4. CASE KsBusTurns \/ (\E n \in KsNodes : KsStoreTurns(n)) \/ UNCHANGED ksVars
    BY <2>1, <2>4 DEF KsBusTurns, KsStoreTurns, ksVars
  <2> QED BY <2>2, <2>3, <2>4 DEF KsNext, KsActivate, KsDeactivate
<1>3. KsAgree => \A n \in ksRuns, q \in KsCalls :
                    ksStoreUp[n] => (KsBlocked(n, FALSE, q) <=> KsBlocked(n, TRUE, q))
  BY DEF KsAgree, KsBlocked, KsMatched, KsView
<1>4. KsCalmSpec => KsSpec
  BY PTL DEF KsCalmSpec, KsSpec
<1> QED BY <1>1, <1>2, <1>3, <1>4, KsInvariant, PTL DEF KsCalmSpec

-----------------------------------------------------------------------------
\* Tokens and revocations.  The type invariant and SrCacheIsCurrent are inductive together.
SrInductive == SrTypeOK /\ SrCacheIsCurrent

\* The tokens that a purge leaves.
LEMMA SrPurged ==
    ASSUME SrTypeOK, NEW r \in SrRefs
    PROVE  /\ SrPurge(r) \in [SrRefs -> SrVersions]
           /\ \A q \in SrRefs : q # r => SrPurge(r)[q] = srToken[q]
           /\ r \in SrPlain => SrPurge(r)[r] = SrNone
  BY DEF SrTypeOK, SrPurge, SrVersions

\* A registration adds a version; a token of an earlier one is purged if the purge finds it.
LEMMA SrRegistered ==
    ASSUME SrInductive, NEW r \in SrRefs, SrRegister(r)
    PROVE  SrInductive'
<1> USE SrBoundsAssumption DEF SrInductive, SrTypeOK, SrRegister, srRotations
<1>1. srRegistered[r] + 1 \in 1..SrMaxRegistered
  OBVIOUS
<1>2. SrByRegistration(srRegistered[r] + 1) \in SrVersions /\ SrNone \in SrVersions
  BY <1>1 DEF SrVersions
<1>3. SrTypeOK'
  BY <1>1, <1>2
<1>4. SrCacheIsCurrent'
  BY <1>2, SrPlainAssumption DEF SrCacheIsCurrent
<1> QED BY <1>3, <1>4

\* A token that is handed out, or that runs out.
LEMMA SrIssued ==
    ASSUME SrInductive, NEW r \in SrRefs, SrIssue(r) \/ SrExpire(r)
    PROVE  SrInductive'
<1> USE DEF SrInductive, SrTypeOK, srRecords, srRotations
<1>1. SrNone \in SrVersions
  BY DEF SrVersions
<1>2. CASE SrIssue(r)
  BY <1>2, SrPlainAssumption DEF SrIssue, SrServes, SrCacheIsCurrent
<1>3. CASE SrExpire(r)
  BY <1>1, <1>3, SrPlainAssumption DEF SrExpire, SrCacheIsCurrent
<1> QED BY <1>2, <1>3

\* A revocation purges the tokens it finds.
LEMMA SrRevoked ==
    ASSUME SrInductive, NEW r \in SrRefs, SrRevoke(r)
    PROVE  SrInductive'
<1> USE DEF SrInductive, SrTypeOK, SrRevoke, srRotations
<1>1. SrTypeOK'
  BY SrPurged
<1>2. SrCacheIsCurrent'
  BY SrPurged, SrPlainAssumption DEF SrCacheIsCurrent
<1> QED BY <1>1, <1>2

\* A promotion writes the new version and purges the tokens of the old one.
LEMMA SrPromoted ==
    ASSUME SrInductive, NEW s \in SrSessions, SrPromote(s)
    PROVE  SrInductive'
<1> USE SrBoundsAssumption DEF SrInductive, SrTypeOK, SrPromote
<1>1. SrOf[s] \in SrRefs /\ SrBySession(s) \in SrVersions
  BY SrOfAssumption DEF SrVersions
<1>2. SrTypeOK'
  BY <1>1, SrPurged
<1>3. SrCacheIsCurrent'
  BY <1>1, SrPurged, SrPlainAssumption DEF SrCacheIsCurrent
<1> QED BY <1>2, <1>3

\* Ending a rotation makes its secret ACTIVE at most.
LEMMA SrAborted ==
    ASSUME SrInductive, NEW s \in SrSessions, SrReject(s) \/ SrRollBack(s)
    PROVE  SrInductive'
<1> USE SrBoundsAssumption DEF SrInductive, SrTypeOK
<1>1. SrOf[s] \in SrRefs
  BY SrOfAssumption
<1>2. /\ UNCHANGED <<srCurrent, srPrevious, srRegistered, srToken, srOutage, srLeft>>
      /\ SrAbort(s)
      /\ srCalls' \in [SrSessions -> 0..SrMaxCalls]
  BY DEF SrReject, SrRollBack
<1>3. SrTypeOK'
  BY <1>1, <1>2 DEF SrAbort
<1>4. SrCacheIsCurrent'
  BY <1>1, <1>2, SrPlainAssumption DEF SrAbort, SrCacheIsCurrent
<1> QED BY <1>3, <1>4

\* Tokens are of versions that exist, and current where the purge finds them, in every state.
LEMMA SrInvariant == SrSpec => []SrInductive
<1>1. SrInit => SrInductive
  <2>1. SrNone \in SrVersions /\ 0 \in 0..SrMaxRegistered /\ 0 \in 0..SrMaxCalls
    BY SrBoundsAssumption DEF SrVersions
  <2>2. SrInit => SrTypeOK
    <3> SUFFICES ASSUME SrInit PROVE SrTypeOK
      OBVIOUS
    <3>1. /\ srCurrent \in [SrRefs -> SrVersions]
          /\ srPrevious \in [SrRefs -> SrVersions]
          /\ srToken \in [SrRefs -> SrVersions]
      BY <2>1 DEF SrInit
    <3>2. /\ srRegistered \in [SrRefs -> 0..SrMaxRegistered]
          /\ srCalls \in [SrSessions -> 0..SrMaxCalls]
      BY <2>1 DEF SrInit
    <3> QED BY <3>1, <3>2 DEF SrInit, SrTypeOK
  <2>3. SrInit => SrCacheIsCurrent
    BY SrPlainAssumption DEF SrInit, SrCacheIsCurrent
  <2> QED BY <2>2, <2>3 DEF SrInductive
<1>2. SrInductive /\ [SrNext]_srVars => SrInductive'
  <2> SUFFICES ASSUME SrInductive, [SrNext]_srVars PROVE SrInductive'
    OBVIOUS
  <2>1. ASSUME NEW r \in SrRefs, SrRegister(r) \/ SrIssue(r) \/ SrExpire(r) \/ SrRevoke(r)
        PROVE  SrInductive'
    BY <2>1, SrRegistered, SrIssued, SrRevoked
  <2>2. ASSUME NEW s \in SrSessions, SrInitiate(s) PROVE SrInductive'
    BY <2>2, SrOfAssumption, SrPlainAssumption DEF SrInductive, SrTypeOK, SrCacheIsCurrent, SrInitiate
  <2>3. ASSUME NEW s \in SrSessions, SrValidate(s) PROVE SrInductive'
    BY <2>3, SrBoundsAssumption DEF SrInductive, SrTypeOK, SrCacheIsCurrent, SrValidate, srRecords
  <2>4. ASSUME NEW s \in SrSessions, SrPromote(s) \/ SrReject(s) \/ SrRollBack(s)
        PROVE  SrInductive'
    BY <2>4, SrPromoted, SrAborted
  <2>5. CASE SrOutageTurns
    BY <2>5 DEF SrInductive, SrTypeOK, SrCacheIsCurrent, SrOutageTurns, srRecords, srRotations
  <2>6. CASE UNCHANGED srVars
    BY <2>6 DEF SrInductive, SrTypeOK, SrCacheIsCurrent, srVars
  <2> QED BY <2>1, <2>2, <2>3, <2>4, <2>5, <2>6 DEF SrNext
<1> QED BY <1>1, <1>2, PTL DEF SrSpec

\* For all secrets, sessions, registrations and overlapping provider calls: a cached token of
\* a reference that the purge finds is of the current version of a secret that is not revoked
\* (security/secrets/rotation.py:153-212, broker.py:272-331).
THEOREM SrCacheCurrent == SrSpec => []SrCacheIsCurrent
<1>1. SrInductive => SrCacheIsCurrent
  BY DEF SrInductive
<1> QED BY <1>1, SrInvariant, PTL

\* However many provider calls of a session are answered, and in whatever order: a session
\* that was committed stays committed (rotation.py:137-151, :184-185).
THEOREM SrCommittedForGood == SrSpec => SrCommittedStays
<1>1. SrInductive /\ [SrNext]_srVars
        => [\A s \in SrSessions : srSession[s] = "COMMITTED" => srSession'[s] = "COMMITTED"]_srVars
  <2> SUFFICES ASSUME SrInductive, SrNext, NEW s \in SrSessions, srSession[s] = "COMMITTED"
               PROVE  srSession'[s] = "COMMITTED"
    OBVIOUS
  <2> USE DEF SrInductive, SrTypeOK
  <2>1. ASSUME NEW r \in SrRefs, SrRegister(r) \/ SrIssue(r) \/ SrExpire(r) \/ SrRevoke(r)
        PROVE  srSession'[s] = "COMMITTED"
    BY <2>1 DEF SrRegister, SrIssue, SrExpire, SrRevoke, srRotations
  <2>2. ASSUME NEW t \in SrSessions, SrInitiate(t) \/ SrValidate(t) \/ SrPromote(t)
        PROVE  srSession'[s] = "COMMITTED"
    BY <2>2 DEF SrInitiate, SrValidate, SrPromote
  <2>3. ASSUME NEW t \in SrSessions, SrReject(t) \/ SrRollBack(t)
        PROVE  srSession'[s] = "COMMITTED"
    BY <2>3 DEF SrReject, SrRollBack, SrAbort, SrMayRollBack
  <2>4. CASE SrOutageTurns
    BY <2>4 DEF SrOutageTurns, srRotations
  <2> QED BY <2>1, <2>2, <2>3, <2>4 DEF SrNext
<1> QED BY <1>1, SrInvariant, PTL DEF SrSpec, SrCommittedStays

\* A revoked secret of which no rotation can still end.
SrQuiet(r) ==
    /\ srStatus[r] = "REVOKED"
    /\ \A s \in SrSessions : SrOf[s] = r => srSession[s] \in {"unused", "COMMITTED"} /\ srCalls[s] = 0

\* What it takes for a revocation to last: once every rotation of the secret is committed and
\* has had its answers, nothing but a registration brings a revoked secret back, and no token
\* of it is issued (rotation.py:157, :188 set the status without looking at it).
THEOREM SrQuietRevocationsLast ==
    SrSpec => [][\A r \in SrRefs : SrQuiet(r) =>
                    /\ srRegistered'[r] = srRegistered[r] => SrQuiet(r)'
                    /\ srToken'[r] \in {srToken[r], SrNone}]_srVars
<1>1. ASSUME SrInductive, [SrNext]_srVars, NEW r \in SrRefs, SrQuiet(r)
      PROVE  /\ srRegistered'[r] = srRegistered[r] => SrQuiet(r)'
             /\ srToken'[r] \in {srToken[r], SrNone}
  <2> USE <1>1 DEF SrInductive, SrTypeOK
  <2> DEFINE Lasts == /\ srRegistered'[r] = srRegistered[r] => SrQuiet(r)'
                      /\ srToken'[r] \in {srToken[r], SrNone}
  <2>1. ASSUME NEW q \in SrRefs, SrRegister(q) PROVE Lasts
    BY <2>1 DEF SrRegister, SrQuiet, srRotations
  <2>2. ASSUME NEW q \in SrRefs, SrIssue(q) \/ SrExpire(q) PROVE Lasts
    BY <2>2 DEF SrIssue, SrServes, SrExpire, SrQuiet, srRecords, srRotations
  <2>3. ASSUME NEW q \in SrRefs, SrRevoke(q) PROVE Lasts
    BY <2>3, SrPurged DEF SrRevoke, SrQuiet, SrPurge, srRotations
  <2>4. ASSUME NEW s \in SrSessions, SrInitiate(s) \/ SrValidate(s) PROVE Lasts
    BY <2>4 DEF SrInitiate, SrValidate, SrQuiet, srRecords
  <2>5. ASSUME NEW s \in SrSessions, SrPromote(s) PROVE Lasts
    <3>0. srCalls[s] > 0
      BY <2>5 DEF SrPromote
    <3>1. srCalls[s] # 0 /\ SrOf[s] \in SrRefs
      BY <3>0, SrOfAssumption
    <3>2. SrOf[s] # r
      BY <3>1 DEF SrQuiet
    <3> QED BY <2>5, <3>1, <3>2, SrPurged DEF SrPromote, SrQuiet
  <2>6. ASSUME NEW s \in SrSessions, SrReject(s) \/ SrRollBack(s) PROVE Lasts
    BY <2>6, SrOfAssumption DEF SrReject, SrRollBack, SrAbort, SrMayRollBack, SrQuiet
  <2>7. CASE SrOutageTurns \/ UNCHANGED srVars
    BY <2>7 DEF SrOutageTurns, SrQuiet, srVars, srRecords, srRotations
  <2> QED BY <2>1, <2>2, <2>3, <2>4, <2>5, <2>6, <2>7 DEF SrNext
<1>2. SrInductive /\ [SrNext]_srVars
        => [\A r \in SrRefs : SrQuiet(r) =>
               /\ srRegistered'[r] = srRegistered[r] => SrQuiet(r)'
               /\ srToken'[r] \in {srToken[r], SrNone}]_srVars
  BY <1>1
<1> QED BY <1>2, SrInvariant, PTL DEF SrSpec

-----------------------------------------------------------------------------
\* What every step of the life of a tenant keeps. The property has the part that its proof
\* needs: a deletion past its check and a hold in force exclude each other.
TnInductive == TnTypeOK /\ TnHoldOutlivesStatus

\* A change of status alone, to anything but DELETED.
LEMMA TnStatusChanges ==
    ASSUME TnInductive, UNCHANGED <<tnHold, tnSaga, tnCertified, tnOvertook, tnWrittenOff>>,
           tnKeyed' \in BOOLEAN, tnProbing' \in BOOLEAN,
           tnStatus' = tnStatus \/ tnStatus' \in TnStatuses \ {"DELETED"}
    PROVE  TnInductive'
  BY DEF TnInductive, TnTypeOK, TnHoldOutlivesStatus, TnDeletionUnderWay

\* A hold that is applied while a deletion is under way overtakes it.
LEMMA TnHoldApplied ==
    ASSUME TnInductive, NEW m \in TnMatters, TnApplyHold(m)
    PROVE  TnInductive'
<1>1. tnHold' \in [matter : TnMatters \cup {TnNoMatter}, active : BOOLEAN]
  BY DEF TnApplyHold
<1>2. TnTypeOK'
  BY <1>1 DEF TnInductive, TnTypeOK, TnApplyHold, TnUpdateStatus, TnDeletionUnderWay, TnStatuses
<1>3. TnHoldOutlivesStatus'
  BY DEF TnApplyHold, TnUpdateStatus, TnHoldOutlivesStatus, TnDeletionUnderWay
<1> QED BY <1>2, <1>3 DEF TnInductive

\* A release under any matter puts no hold in force, and DELETED is written off.
LEMMA TnHoldReleased ==
    ASSUME TnInductive, NEW m \in TnMatters, NEW status \in TnStatuses,
           TnReleaseHold(m, status)
    PROVE  TnInductive'
<1>1. /\ tnHold' \in [matter : TnMatters \cup {TnNoMatter}, active : BOOLEAN]
      /\ tnHold'.active => tnHold.active
  BY DEF TnInductive, TnTypeOK, TnReleaseHold
<1>2. /\ tnStatus' \in {"none"} \cup TnStatuses
      /\ tnStatus' = "DELETED" => tnStatus = "DELETED" \/ tnWrittenOff'
      /\ tnWrittenOff' \in BOOLEAN /\ (tnWrittenOff => tnWrittenOff')
  BY DEF TnInductive, TnTypeOK, TnReleaseHold
<1>3. UNCHANGED <<tnKeyed, tnProbing, tnSaga, tnCertified, tnOvertook>>
  BY DEF TnReleaseHold
<1> QED BY <1>1, <1>2, <1>3 DEF TnInductive, TnTypeOK, TnHoldOutlivesStatus, TnDeletionUnderWay

\* The deletion: its check finds no hold, and its end a hold only if that overtook it.
LEMMA TnDeletionSteps ==
    ASSUME TnInductive, NEW s \in TnSagas,
           TnDeletionChecks(s) \/ TnTombstone(s) \/ TnDeletionEnds(s)
    PROVE  TnInductive'
<1> USE DEF TnInductive, TnTypeOK, TnHoldOutlivesStatus, TnDeletionUnderWay
<1>1. CASE TnDeletionChecks(s)
  BY <1>1 DEF TnDeletionChecks, TnUnderHold
<1>2. CASE TnTombstone(s)
  BY <1>2 DEF TnTombstone, TnUpdateStatus, TnStatuses
<1>3. CASE TnDeletionEnds(s)
  <2>1. /\ tnHold.active => tnOvertook
        /\ UNCHANGED <<tnHold, tnKeyed, tnProbing, tnOvertook>>
        /\ tnSaga' = [tnSaga EXCEPT ![s] = "idle"]
    BY <1>3 DEF TnDeletionEnds
  <2>2. /\ tnStatus' \in {"none"} \cup TnStatuses
        /\ tnCertified' \in BOOLEAN /\ tnWrittenOff' \in BOOLEAN
    BY <1>3 DEF TnDeletionEnds, TnUpdateStatus, TnStatuses, TnTerminal
  <2> QED BY <2>1, <2>2
<1> QED BY <1>1, <1>2, <1>3

\* Deletions and holds exclude each other, but for a hold that overtakes, in every state.
LEMMA TnInvariant == TnSpec => []TnInductive
<1>1. TnInit => TnInductive
  <2> SUFFICES ASSUME TnInit PROVE TnInductive
    OBVIOUS
  <2>1. tnHold \in [matter : TnMatters \cup {TnNoMatter}, active : BOOLEAN] /\ ~tnHold.active
    BY DEF TnInit
  <2> QED BY <2>1 DEF TnInit, TnInductive, TnTypeOK, TnHoldOutlivesStatus
<1>2. TnInductive /\ [TnNext]_tnVars => TnInductive'
  <2> SUFFICES ASSUME TnInductive, [TnNext]_tnVars PROVE TnInductive'
    OBVIOUS
  <2> TnTypeOK
    BY DEF TnInductive
  <2>1. CASE TnProvision \/ TnProvisionOnce
    BY <2>1, TnStatusChanges DEF TnProvision, TnProvisionOnce, TnStatuses, TnTypeOK
  <2>2. CASE TnProbe \/ TnProbed
    BY <2>2, TnStatusChanges DEF TnProbe, TnProbed, TnUpdateStatus, TnStatuses, TnTypeOK
  <2>3. CASE TnActivate \/ TnSuspend \/ TnReactivate \/ TnDeactivate
    BY <2>3, TnStatusChanges
       DEF TnActivate, TnSuspend, TnReactivate, TnDeactivate, TnUpdateStatus, TnKeepRest,
           TnStatuses, TnTerminal, TnTypeOK
  <2>4. ASSUME NEW m \in TnMatters, TnApplyHold(m) PROVE TnInductive'
    BY <2>4, TnHoldApplied
  <2>5. ASSUME NEW m \in TnMatters, NEW status \in TnStatuses,
               TnReleaseHold(m, status)
        PROVE  TnInductive'
    BY <2>5, TnHoldReleased
  <2>6. ASSUME NEW s \in TnSagas, TnDeletionChecks(s) \/ TnTombstone(s) \/ TnDeletionEnds(s)
        PROVE  TnInductive'
    BY <2>6, TnDeletionSteps
  <2>7. CASE UNCHANGED tnVars
    BY <2>7, TnStatusChanges DEF tnVars, TnTypeOK
  <2> QED BY <2>1, <2>2, <2>3, <2>4, <2>5, <2>6, <2>7 DEF TnNext
<1> QED BY <1>1, <1>2, PTL DEF TnSpec

\* For any number of matters and of deletions that overlap with each other and with every
\* other call: while a hold is not released, a deletion is past its check only if the hold
\* overtook it, and the tenant is DELETED only by such a deletion or by a release under
\* another matter that wrote the status (tenancy/service.py:270-331, deletion_saga.py:57-97).
THEOREM TnHoldLasts == TnSpec => []TnHoldOutlivesStatus
<1>1. TnInductive => TnHoldOutlivesStatus
  BY DEF TnInductive
<1> QED BY <1>1, TnInvariant, PTL

-----------------------------------------------------------------------------
\* A registered bundle that was aborted is in quarantine until it is registered again.
CrAbortsQuarantine == \A b \in crAborted : crStatus[b] \in {"unknown", "QUARANTINED"}

\* What every step of a release keeps.
CrInductive == CrTypeOK /\ CrAbortsQuarantine /\ CrAbortedStayOut

\* A rollback reverts tiers that exist.
LEMMA CrTiersReverted == UNION {CrSteps[k] : k \in 1..6} \in SUBSET CrTiers
<1>1. \A k \in 1..6 : CrSteps[k] \subseteq CrTiers
  <2> SUFFICES ASSUME NEW k \in 1..6 PROVE CrSteps[k] \subseteq CrTiers
    OBVIOUS
  <2>1. k = 1 \/ k = 2 \/ k = 3 \/ k = 4 \/ k = 5 \/ k = 6
    OBVIOUS
  <2> QED BY <2>1 DEF CrSteps, CrTiers
<1> QED BY <1>1

\* An abort puts a registered bundle in quarantine and takes the traffic away.
LEMMA CrAborts ==
    ASSUME CrInductive, NEW b \in CrBundles, CrAbort(b)
    PROVE  CrInductive'
<1>1. crSummary' \in [bundle : CrBundles \cup {CrNone}, tiers : SUBSET CrTiers]
  <2> PICK tiers : tiers = UNION {CrSteps[k] : k \in 1..6}
    OBVIOUS
  <2> QED BY CrTiersReverted DEF CrInductive, CrTypeOK, CrAbort, CrCoordinatedRollback
<1>2. CrTypeOK'
  BY <1>1 DEF CrInductive, CrTypeOK, CrAbort, CrQuarantined
<1>3. CrAbortsQuarantine'
  BY DEF CrInductive, CrTypeOK, CrAbortsQuarantine, CrAbort, CrQuarantined
<1>4. CrAbortedStayOut'
  BY DEF CrAbortedStayOut, CrAbort
<1> QED BY <1>2, <1>3, <1>4 DEF CrInductive

\* A bundle in quarantine is not promoted.
LEMMA CrPromotes ==
    ASSUME CrInductive, NEW b \in CrBundles, NEW p \in {5, 25, 100}, CrPromote(b, p)
    PROVE  CrInductive'
  BY DEF CrInductive, CrTypeOK, CrAbortsQuarantine, CrAbortedStayOut, CrPromote, CrStageOf

\* Aborted bundles that are registered are in quarantine in every state.
LEMMA CrInvariant == CrSpec => []CrInductive
<1>1. CrInit => CrInductive
  <2> SUFFICES ASSUME CrInit PROVE CrInductive
    OBVIOUS
  <2>1. crSummary \in [bundle : CrBundles \cup {CrNone}, tiers : SUBSET CrTiers]
    BY DEF CrInit
  <2> QED BY <2>1 DEF CrInit, CrInductive, CrTypeOK, CrAbortsQuarantine, CrAbortedStayOut
<1>2. CrInductive /\ [CrNext]_crVars => CrInductive'
  <2> SUFFICES ASSUME CrInductive, [CrNext]_crVars PROVE CrInductive'
    OBVIOUS
  <2>1. ASSUME NEW b \in CrBundles, NEW status \in {"QUALIFIED", "QUARANTINED"},
               CrRegister(b, status)
        PROVE  CrInductive'
    BY <2>1 DEF CrInductive, CrTypeOK, CrAbortsQuarantine, CrAbortedStayOut, CrRegister
  <2>2. ASSUME NEW b \in CrBundles, CrQuarantine(b) PROVE CrInductive'
    BY <2>2 DEF CrInductive, CrTypeOK, CrAbortsQuarantine, CrAbortedStayOut, CrQuarantine, CrQuarantined
  <2>3. ASSUME NEW b \in CrBundles, CrAbort(b) \/ \E x \in SUBSET CrTriggers : CrEvaluate(b, x)
        PROVE  CrInductive'
    BY <2>3, CrAborts DEF CrEvaluate
  <2>4. ASSUME NEW b \in CrBundles, CrStart(b) \/ \E p \in {5, 25, 100} : CrPromote(b, p)
        PROVE  CrInductive'
    <3>1. PICK p \in {5, 25, 100} : CrPromote(b, p)
      BY <2>4 DEF CrStart
    <3> QED BY <3>1, CrPromotes
  <2>5. CASE UNCHANGED crVars
    BY <2>5 DEF CrInductive, CrTypeOK, CrAbortsQuarantine, CrAbortedStayOut, crVars
  <2> QED BY <2>1, <2>2, <2>3, <2>4, <2>5 DEF CrNext
<1> QED BY <1>1, <1>2, PTL DEF CrSpec

\* For any number of bundles, registered, started, promoted, evaluated and aborted in any
\* order: an aborted bundle that has traffic is one that is not registered, whose quarantine
\* the registry does not know; any other has none until it is registered again
\* (canary.py:82-202, manager.py:189-209).
THEOREM CrAbortsLast == CrSpec => []CrAbortedStayOut
<1>1. CrInductive => CrAbortedStayOut
  BY DEF CrInductive
<1> QED BY <1>1, CrInvariant, PTL

-----------------------------------------------------------------------------
\* The manifests there may be.
RgManifestSet == [id : RgIds, controls : [RgControls -> RgResults], passed : Nat, verdict : BOOLEAN,
                  hash : [controls : [RgControls -> RgResults], passed : Nat, verdict : BOOLEAN]]

\* A control that holds has passed with the evidence it names.
RgPassesAreKept == \A c \in RgControls : RgHolds(rgControl[c]) => rgControl[c].digest \in rgPassed[c]

\* What every step of the gate keeps.
RgInductive == RgTypeOK /\ RgPassesAreKept /\ RgManifestsStand

\* The number of controls that hold is a number.
LEMMA RgCounted == ASSUME NEW controls PROVE RgPassing(controls) \in Nat
<1>1. {c \in RgControls : RgHolds(controls[c])} \subseteq RgControls
  OBVIOUS
<1> QED BY <1>1, RgControlsAssumption, FS_Subset, FS_CardinalityType DEF RgPassing

\* A manifest of controls that have passed as they say stands.
LEMMA RgSealStands ==
    ASSUME RgInductive, NEW m \in RgIds
    PROVE  /\ RgSealed(m, rgControl) \in RgManifestSet
           /\ RgVerifies(RgSealed(m, rgControl))
           /\ RgSealed(m, rgControl).verdict
                => \A c \in RgControls : RgSealed(m, rgControl).controls[c].digest \in rgPassed[c]
<1>1. RgPassing(rgControl) \in Nat
  BY RgCounted
<1>2. RgVerdict(rgControl) \in BOOLEAN
  BY DEF RgVerdict, RgHolds
<1>3. RgVerdict(rgControl) => \A c \in RgControls : rgControl[c].digest \in rgPassed[c]
  BY DEF RgInductive, RgPassesAreKept, RgVerdict
<1>4. rgControl \in [RgControls -> RgResults]
  BY DEF RgInductive, RgTypeOK
<1> HIDE DEF RgPassing, RgVerdict
<1> QED BY <1>1, <1>2, <1>3, <1>4 DEF RgSealed, RgVerifies, RgCanonical, RgManifestSet

\* A control that is evaluated keeps what it passed with.
LEMMA RgEvaluates ==
    ASSUME RgInductive, NEW c \in RgControls, NEW content \in RgContents, NEW p \in BOOLEAN,
           RgEvaluate(c, content, p)
    PROVE  RgInductive'
<1>1. PICK result \in RgResults : result = RgResult(content, p)
  BY DEF RgResults, RgResult
<1>2. /\ result.digest = content
      /\ result.status = "PASS" <=> p
  BY <1>1 DEF RgResult
<1>3. /\ rgControl' = [rgControl EXCEPT ![c] = result]
      /\ rgPassed' = IF p THEN [rgPassed EXCEPT ![c] = rgPassed[c] \cup {content}] ELSE rgPassed
      /\ UNCHANGED <<rgManifests, rgArchive>>
  BY <1>1 DEF RgInductive, RgTypeOK, RgEvaluate
<1>4. /\ rgControl' \in [RgControls -> RgResults]
      /\ rgPassed' \in [RgControls -> SUBSET RgContents]
      /\ \A d \in RgControls : rgPassed[d] \subseteq rgPassed'[d]
  BY <1>3 DEF RgInductive, RgTypeOK
<1>5. RgTypeOK'
  BY <1>3, <1>4 DEF RgInductive, RgTypeOK
<1>6. RgPassesAreKept'
  <2> SUFFICES ASSUME NEW d \in RgControls, RgHolds(rgControl'[d])
               PROVE  rgControl'[d].digest \in rgPassed'[d]
    BY DEF RgPassesAreKept
  <2>1. CASE d = c
    BY <1>2, <1>3, <2>1 DEF RgInductive, RgTypeOK, RgHolds
  <2>2. CASE d # c
    BY <1>3, <1>4, <2>2 DEF RgInductive, RgTypeOK, RgPassesAreKept
  <2> QED BY <2>1, <2>2
<1>7. RgManifestsStand'
  BY <1>3, <1>4 DEF RgInductive, RgManifestsStand, RgTypeOK
<1> QED BY <1>5, <1>6, <1>7 DEF RgInductive

\* A manifest is sealed over the controls as they are.
LEMMA RgGenerates ==
    ASSUME RgInductive, NEW m \in RgIds, NEW all \in BOOLEAN, RgGenerate(m, all)
    PROVE  RgInductive'
<1>1. PICK sealed : sealed = RgSealed(m, rgControl)
  OBVIOUS
<1>2. /\ rgManifests' = rgManifests \cup {sealed}
      /\ UNCHANGED <<rgControl, rgArchive, rgPassed>>
  BY <1>1 DEF RgGenerate
<1>3. /\ sealed \in RgManifestSet
      /\ RgVerifies(sealed)
      /\ sealed.verdict => \A c \in RgControls : sealed.controls[c].digest \in rgPassed[c]
  BY <1>1, RgSealStands
<1>4. RgTypeOK'
  BY <1>2, <1>3 DEF RgInductive, RgTypeOK, RgManifestSet
<1>5. RgManifestsStand'
  BY <1>2, <1>3 DEF RgInductive, RgManifestsStand
<1>6. RgPassesAreKept'
  BY <1>2 DEF RgInductive, RgPassesAreKept
<1> QED BY <1>4, <1>5, <1>6 DEF RgInductive

\* Manifests stand in every state.
LEMMA RgInvariant == RgSpec => []RgInductive
<1>1. RgInit => RgInductive
  <2> SUFFICES ASSUME RgInit PROVE RgInductive
    OBVIOUS
  <2>1. PICK planned \in RgResults : planned = [status |-> "PLANNED", digest |-> RgNoContent]
    BY DEF RgResults
  <2>2. rgControl = [c \in RgControls |-> planned] /\ planned.status # "PASS"
    BY <2>1 DEF RgInit
  <2>3. rgManifests = {} /\ rgArchive = {} /\ rgPassed = [c \in RgControls |-> {}]
    BY DEF RgInit
  <2>4. RgTypeOK
    BY <2>2, <2>3 DEF RgTypeOK
  <2>5. RgPassesAreKept /\ RgManifestsStand
    BY <2>2, <2>3 DEF RgPassesAreKept, RgManifestsStand, RgHolds
  <2> QED BY <2>4, <2>5 DEF RgInductive
<1>2. RgInductive /\ [RgNext]_rgVars => RgInductive'
  <2> SUFFICES ASSUME RgInductive, [RgNext]_rgVars PROVE RgInductive'
    OBVIOUS
  <2>1. ASSUME NEW c \in RgControls, NEW content \in RgContents, NEW p \in BOOLEAN,
               RgEvaluate(c, content, p)
        PROVE  RgInductive'
    BY <2>1, RgEvaluates
  <2>2. ASSUME NEW m \in RgIds, NEW all \in BOOLEAN, RgGenerate(m, all) PROVE RgInductive'
    BY <2>2, RgGenerates
  <2>3. ASSUME NEW m \in rgManifests, RgArchive(m) PROVE RgInductive'
    BY <2>3 DEF RgInductive, RgTypeOK, RgPassesAreKept, RgManifestsStand, RgArchive
  <2>4. CASE UNCHANGED rgVars
    BY <2>4 DEF RgInductive, RgTypeOK, RgPassesAreKept, RgManifestsStand, rgVars
  <2> QED BY <2>1, <2>2, <2>3, <2>4 DEF RgNext
<1> QED BY <1>1, <1>2, PTL DEF RgSpec

\* For any controls, evidence and number of manifests: a manifest verifies for ever, and its
\* READY verdict is backed by passes with the evidence it names (gate.py:144-328, :366-408).
THEOREM RgManifestsLast == RgSpec => []RgManifestsStand
<1>1. RgInductive => RgManifestsStand
  BY DEF RgInductive
<1> QED BY <1>1, RgInvariant, PTL

-----------------------------------------------------------------------------
\* The tasks of the plan under validation.
DgTasks == DOMAIN dgPlan

\* The shape of a validation: functions over the tasks of the plan.
DgShape ==
    /\ dgVerdict \in {"none", "running", "valid", "refused"}
    /\ dgQueue \subseteq DgTasks /\ dgVisited \subseteq DgTasks
    /\ DOMAIN dgPending = DgTasks
    /\ dgDepth = [t \in DgTasks |-> dgDepth[t]]
    /\ \A t \in DgTasks : dgDepth[t] \in Nat /\ dgDepth[t] >= 1

\* What the loop keeps: what a task still waits for, who is in the queue, how deep it goes.
DgSorted ==
    /\ DgWellFormed(dgPlan)
    /\ \A t \in DgTasks : dgPending[t] = dgPlan[t] \ dgVisited
    /\ \A t \in DgTasks : t \in dgQueue <=> t \notin dgVisited /\ dgPending[t] = {}
    /\ \A t \in dgVisited : dgPlan[t] \subseteq dgVisited
    /\ \A t \in DgTasks : \A u \in dgPlan[t] \cap dgVisited : dgDepth[u] < dgDepth[t]

\* Kahn's invariant: among tasks that were visited, one has no prerequisite.
DgVisitedAcyclic == \A S \in SUBSET dgVisited : S # {} => \E t \in S : dgPlan[t] \cap S = {}

\* The depth of a task is a bound on every layering of the plan.
DgDepthIsNeeded == \A level \in DgLayers(dgPlan) : \A t \in DgTasks : dgDepth[t] <= level[t]

\* No visited task is too deep while the validation goes on.
DgWithinDepth == dgVerdict = "running" => \A t \in dgVisited : dgDepth[t] <= DgMaxDepth

\* What every step of a validation keeps.
DgInductive ==
    /\ DgShape
    /\ dgVerdict \in {"running", "valid"} => DgSorted /\ DgVisitedAcyclic /\ DgDepthIsNeeded
    /\ DgWithinDepth
    /\ DgVerdictIsRight

\* A plan that passes the first checks starts with its roots and no depth at all.
LEMMA DgSubmits ==
    ASSUME DgInductive, NEW plan \in DgPlans, NEW listed \in BOOLEAN, DgSubmit(plan, listed)
    PROVE  DgInductive'
<1>1. /\ dgPlan' = plan /\ dgVisited' = {} /\ dgPending' = plan
      /\ dgDepth' = [t \in DOMAIN plan |-> 1]
      /\ dgVerdict' \in {"running", "refused"}
  BY DEF DgSubmit
<1>2. DgRoots(plan) \subseteq DOMAIN plan
  BY DEF DgRoots
<1>3. DgShape'
  BY <1>1, <1>2 DEF DgSubmit, DgShape, DgTasks
<1>4. CASE dgVerdict' = "refused"
  BY <1>1, <1>3, <1>4 DEF DgInductive, DgWithinDepth, DgVerdictIsRight, DgAcceptedIsSound
<1>5. CASE dgVerdict' = "running"
  <2>1. DgWellFormed(plan) /\ dgQueue' = DgRoots(plan)
    BY <1>5 DEF DgSubmit
  <2>2. DgSorted'
    BY <1>1, <2>1 DEF DgSorted, DgTasks, DgRoots
  <2>3. DgVisitedAcyclic' /\ DgWithinDepth'
    BY <1>1 DEF DgVisitedAcyclic, DgWithinDepth
  <2>4. DgDepthIsNeeded'
    BY <1>1, DgBoundsAssumption DEF DgDepthIsNeeded, DgLayers, DgTasks
  <2> QED BY <1>3, <1>5, <2>2, <2>3, <2>4 DEF DgInductive, DgVerdictIsRight, DgAcceptedIsSound
<1> QED BY <1>1, <1>4, <1>5

\* A visited task keeps the order: it deepens its dependents, which are not visited yet.
LEMMA DgVisits ==
    ASSUME DgInductive, NEW t \in dgQueue, DgVisit(t)
    PROVE  DgInductive'
<1>1. PICK deps : deps = DgDependents(dgPlan, t)
  OBVIOUS
<1>2. /\ dgVerdict = "running" /\ dgPlan' = dgPlan
      /\ dgVisited' = dgVisited \cup {t}
      /\ dgDepth' = [u \in DgTasks |-> IF u \in deps THEN DgDeeper(t, u) ELSE dgDepth[u]]
      /\ dgPending' = [u \in DgTasks |-> dgPending[u] \ {t}]
      /\ dgQueue' = (dgQueue \ {t}) \cup {u \in deps : dgPending[u] = {t}}
      /\ dgVerdict' = IF dgDepth[t] > DgMaxDepth \/ \E u \in deps : DgDeeper(t, u) > DgMaxDepth
                      THEN "refused" ELSE "running"
  BY <1>1 DEF DgVisit, DgTasks
<1>3. DgShape /\ DgSorted /\ DgVisitedAcyclic /\ DgDepthIsNeeded /\ DgWithinDepth
  BY <1>2 DEF DgInductive
<1>4. /\ t \in DgTasks /\ t \notin dgVisited /\ dgPending[t] = {} /\ dgPlan[t] \subseteq dgVisited
      /\ t \notin dgPlan[t]
  BY <1>3 DEF DgShape, DgSorted
<1>5. \A u \in DgTasks : u \in deps <=> t \in dgPlan[u]
  BY <1>1 DEF DgDependents, DgTasks
<1>6. deps \subseteq DgTasks /\ t \notin deps /\ deps \cap dgVisited = {} /\ deps \cap dgQueue = {}
  <2>1. deps \subseteq DgTasks /\ t \notin deps
    BY <1>1, <1>4 DEF DgDependents, DgTasks
  <2>2. ASSUME NEW u \in deps, u \in dgVisited PROVE FALSE
    BY <1>3, <1>4, <1>5, <2>1, <2>2 DEF DgSorted
  <2>3. ASSUME NEW u \in deps, u \in dgQueue PROVE FALSE
    BY <1>3, <1>4, <1>5, <2>1, <2>3 DEF DgSorted
  <2> QED BY <2>1, <2>2, <2>3
<1>7. /\ \A u \in DgTasks : dgDepth[u] \in Nat /\ dgDepth[u] >= 1
      /\ \A u \in deps : /\ dgDepth'[u] = DgDeeper(t, u) /\ DgDeeper(t, u) \in Nat
                         /\ dgDepth'[u] > dgDepth[t] /\ dgDepth'[u] >= dgDepth[u]
      /\ \A u \in DgTasks \ deps : dgDepth'[u] = dgDepth[u]
  <2>1. \A u \in DgTasks : dgDepth[u] \in Nat /\ dgDepth[u] >= 1
    BY <1>3 DEF DgShape
  <2>2. ASSUME NEW u \in deps
        PROVE  /\ dgDepth'[u] = DgDeeper(t, u) /\ DgDeeper(t, u) \in Nat
               /\ dgDepth'[u] > dgDepth[t] /\ dgDepth'[u] >= dgDepth[u]
    <3>1. u \in DgTasks /\ dgDepth'[u] = DgDeeper(t, u)
      BY <1>2, <1>6
    <3>2. dgDepth[u] \in Nat /\ dgDepth[t] \in Nat
      BY <1>4, <2>1, <3>1
    <3> QED BY <3>1, <3>2 DEF DgDeeper
  <2> QED BY <1>2, <2>1, <2>2
<1>8. DgShape'
  <2>1. \A u \in DgTasks : dgDepth'[u] \in Nat /\ dgDepth'[u] >= 1
    BY <1>6, <1>7
  <2> QED BY <1>2, <1>3, <1>4, <1>6, <2>1 DEF DgShape, DgTasks
<1>9. DgSorted'
  <2>1. \A u \in DgTasks : dgPending'[u] = dgPlan[u] \ dgVisited'
    BY <1>2, <1>3 DEF DgSorted
  <2>2. \A u \in DgTasks : u \in dgQueue' <=> u \notin dgVisited' /\ dgPending'[u] = {}
    <3> SUFFICES ASSUME NEW u \in DgTasks
                 PROVE  u \in dgQueue' <=> u \notin dgVisited' /\ dgPending'[u] = {}
      OBVIOUS
    <3>1. dgPending'[u] = dgPending[u] \ {t}
      BY <1>2
    <3>2. u \in dgQueue <=> u \notin dgVisited /\ dgPending[u] = {}
      BY <1>3 DEF DgSorted
    <3>3. t \in dgPending[u] => u \in deps
      BY <1>3, <1>5 DEF DgSorted
    <3>4. u \in deps => u \notin dgVisited /\ u # t
      BY <1>6
    <3> QED BY <1>2, <3>1, <3>2, <3>3, <3>4
  <2>3. \A u \in dgVisited' : dgPlan[u] \subseteq dgVisited'
    BY <1>2, <1>3, <1>4 DEF DgSorted
  <2>4. ASSUME NEW u \in DgTasks, NEW v \in dgPlan[u] \cap dgVisited' PROVE dgDepth'[v] < dgDepth'[u]
    <3>1. v \notin deps /\ v \in DgTasks
      BY <1>2, <1>3, <1>4, <1>6 DEF DgShape
    <3>2. CASE v = t
      BY <1>5, <1>7, <2>4, <3>1, <3>2
    <3>3. CASE v # t
      <4>1. dgDepth[v] < dgDepth[u]
        BY <1>2, <1>3, <2>4, <3>3 DEF DgSorted
      <4>2. dgDepth'[u] >= dgDepth[u] /\ dgDepth'[u] \in Nat
        BY <1>7
      <4> QED BY <1>7, <3>1, <4>1, <4>2
    <3> QED BY <3>2, <3>3
  <2> QED BY <1>2, <1>3, <2>1, <2>2, <2>3, <2>4 DEF DgSorted, DgTasks
<1>10. DgVisitedAcyclic'
  <2> SUFFICES ASSUME NEW S \in SUBSET (dgVisited \cup {t}), S # {}
               PROVE  \E s \in S : dgPlan[s] \cap S = {}
    BY <1>2 DEF DgVisitedAcyclic
  <2>1. CASE S \ {t} = {}
    BY <1>4, <2>1
  <2>2. CASE S \ {t} # {}
    <3>1. PICK s \in S \ {t} : dgPlan[s] \cap (S \ {t}) = {}
      <4> PICK R : R = S \ {t}
        OBVIOUS
      <4>1. R \in SUBSET dgVisited /\ R # {}
        BY <2>2
      <4> QED BY <1>3, <4>1 DEF DgVisitedAcyclic
    <3>2. t \notin dgPlan[s]
      BY <1>3, <1>4, <3>1 DEF DgSorted
    <3> QED BY <3>1, <3>2
  <2> QED BY <2>1, <2>2
<1>11. DgDepthIsNeeded'
  <2> SUFFICES ASSUME NEW level \in DgLayers(dgPlan), NEW u \in DgTasks PROVE dgDepth'[u] <= level[u]
    BY <1>2 DEF DgDepthIsNeeded, DgTasks
  <2>1. dgDepth[u] <= level[u] /\ dgDepth[t] <= level[t]
    BY <1>3, <1>4 DEF DgDepthIsNeeded
  <2>2. level[u] \in Nat /\ level[t] \in Nat /\ \A v \in dgPlan[u] : level[v] < level[u]
    BY <1>4, DgBoundsAssumption DEF DgLayers, DgTasks
  <2>3. dgDepth[u] \in Nat /\ dgDepth[t] \in Nat
    BY <1>4, <1>7
  <2>4. CASE u \in deps
    <3>1. level[t] < level[u]
      BY <1>5, <2>2, <2>4
    <3>2. dgDepth'[u] = DgDeeper(t, u)
      BY <1>7, <2>4
    <3> QED BY <2>1, <2>2, <2>3, <3>1, <3>2 DEF DgDeeper
  <2>5. CASE u \notin deps
    BY <1>7, <2>1, <2>5
  <2> QED BY <2>4, <2>5
<1>12. CASE dgVerdict' = "running"
  <2>1. \A u \in dgVisited' : dgDepth'[u] <= DgMaxDepth
    <3> SUFFICES ASSUME NEW u \in dgVisited' PROVE dgDepth'[u] <= DgMaxDepth
      OBVIOUS
    <3>1. dgDepth'[u] = dgDepth[u] /\ u \in DgTasks
      BY <1>2, <1>3, <1>4, <1>6, <1>7 DEF DgShape
    <3>2. CASE u = t
      BY <1>2, <1>7, <1>12, <3>1, <3>2, DgBoundsAssumption
    <3>3. CASE u # t
      BY <1>2, <1>3, <3>1, <3>3 DEF DgWithinDepth
    <3> QED BY <3>2, <3>3
  <2> QED BY <1>8, <1>9, <1>10, <1>11, <1>12, <2>1
          DEF DgInductive, DgWithinDepth, DgVerdictIsRight, DgAcceptedIsSound
<1>13. CASE dgVerdict' = "refused"
  <2>1. PICK u \in DgTasks : dgDepth'[u] > DgMaxDepth
    <3>1. CASE dgDepth[t] > DgMaxDepth
      BY <1>4, <1>6, <1>7, <3>1
    <3>2. CASE \E u \in deps : DgDeeper(t, u) > DgMaxDepth
      BY <1>6, <1>7, <3>2
    <3> QED BY <1>2, <1>13, <3>1, <3>2
  <2>2. ASSUME NEW level \in DgLayers(dgPlan) PROVE FALSE
    <3>1. level[u] \in 1..DgMaxDepth
      BY DEF DgLayers, DgTasks
    <3>2. dgDepth'[u] <= level[u] /\ dgDepth'[u] \in Nat
      BY <1>2, <1>8, <1>11 DEF DgDepthIsNeeded, DgShape, DgTasks
    <3> QED BY <2>1, <3>1, <3>2, DgBoundsAssumption
  <2>3. ~DgShallow(dgPlan')
    BY <1>2, <2>2 DEF DgShallow
  <2> QED BY <1>8, <1>13, <2>3 DEF DgInductive, DgWithinDepth, DgVerdictIsRight, DgAcceptedIsSound
<1> QED BY <1>2, <1>12, <1>13

\* The end: a plan whose tasks were all visited is sound, and the rest of another one is a set
\* of tasks that keeps itself waiting.
LEMMA DgDecides ==
    ASSUME DgInductive, DgDecide
    PROVE  DgInductive'
<1>1. /\ dgVerdict = "running" /\ dgQueue = {}
      /\ dgVerdict' = IF DgComplete THEN "valid" ELSE "refused"
      /\ UNCHANGED <<dgPlan, dgQueue, dgVisited, dgPending, dgDepth>>
  BY DEF DgDecide
<1>2. DgShape /\ DgSorted /\ DgVisitedAcyclic /\ DgDepthIsNeeded /\ DgWithinDepth
  BY <1>1 DEF DgInductive
<1>3. DgShape' /\ DgWithinDepth' /\ (DgSorted /\ DgVisitedAcyclic /\ DgDepthIsNeeded)'
  BY <1>1, <1>2 DEF DgShape, DgWithinDepth, DgSorted, DgVisitedAcyclic, DgDepthIsNeeded, DgTasks
<1>4. CASE DgComplete
  <2>1. DgAcyclic(dgPlan)
    BY <1>2, <1>4 DEF DgAcyclic, DgComplete, DgVisitedAcyclic
  <2>2. dgDepth \in DgLayers(dgPlan)
    <3>1. dgDepth = [t \in DgTasks |-> dgDepth[t]]
      BY <1>2 DEF DgShape
    <3>2. \A t \in DgTasks : dgDepth[t] \in 1..DgMaxDepth
      BY <1>1, <1>2, <1>4, DgBoundsAssumption DEF DgComplete, DgShape, DgWithinDepth, DgTasks
    <3>3. \A t \in DgTasks : \A u \in dgPlan[t] : dgDepth[u] < dgDepth[t]
      BY <1>2, <1>4 DEF DgComplete, DgSorted, DgWellFormed, DgTasks
    <3> QED BY <3>1, <3>2, <3>3 DEF DgLayers, DgTasks
  <2>3. DgWellFormed(dgPlan) /\ DgShallow(dgPlan)
    BY <1>2, <2>2 DEF DgSorted, DgShallow
  <2>4. DgAcceptedIsSound' /\ dgVerdict' = "valid"
    BY <1>1, <1>4, <2>1, <2>3 DEF DgAcceptedIsSound
  <2> QED BY <1>3, <2>4 DEF DgInductive, DgVerdictIsRight
<1>5. CASE ~DgComplete
  <2>1. PICK S : S = DgTasks \ dgVisited
    OBVIOUS
  <2>2. S # {} /\ S \in SUBSET DgTasks
    BY <1>2, <1>5, <2>1 DEF DgComplete, DgShape, DgTasks
  <2>3. \A t \in S : dgPlan[t] \cap S # {}
    <3> SUFFICES ASSUME NEW t \in S PROVE dgPlan[t] \cap S # {}
      OBVIOUS
    <3>1. t \in DgTasks /\ dgPlan[t] \ dgVisited # {}
      BY <1>1, <1>2, <2>1 DEF DgSorted
    <3>2. dgPlan[t] \subseteq DgTasks
      BY <1>2, <3>1 DEF DgSorted, DgWellFormed, DgTasks
    <3> QED BY <2>1, <3>1, <3>2
  <2>4. ~DgAcyclic(dgPlan)
    BY <2>2, <2>3 DEF DgAcyclic, DgTasks
  <2> QED BY <1>1, <1>3, <1>5, <2>4 DEF DgInductive, DgVerdictIsRight, DgAcceptedIsSound
<1> QED BY <1>4, <1>5

\* The validation keeps its invariant, whatever task is taken from the queue.
LEMMA DgInvariant == DgSpec => []DgInductive
<1>1. DgInit => DgInductive
  <2> SUFFICES ASSUME DgInit PROVE DgInductive
    OBVIOUS
  <2>1. DgTasks = {} /\ DOMAIN dgPending = {} /\ dgDepth = [t \in {} |-> dgDepth[t]]
    BY DEF DgInit, DgNoPlan, DgTasks
  <2> QED BY <2>1 DEF DgInit, DgInductive, DgShape, DgWithinDepth, DgVerdictIsRight, DgAcceptedIsSound
<1>2. DgInductive /\ [DgNext]_dgVars => DgInductive'
  <2> SUFFICES ASSUME DgInductive, [DgNext]_dgVars PROVE DgInductive'
    OBVIOUS
  <2>1. ASSUME NEW plan \in DgPlans, NEW listed \in BOOLEAN, DgSubmit(plan, listed)
        PROVE  DgInductive'
    BY <2>1, DgSubmits
  <2>2. ASSUME NEW t \in dgQueue, DgVisit(t) PROVE DgInductive'
    BY <2>2, DgVisits
  <2>3. CASE DgDecide
    BY <2>3, DgDecides
  <2>4. CASE UNCHANGED dgVars
    BY <2>4 DEF DgInductive, DgShape, DgSorted, DgVisitedAcyclic, DgDepthIsNeeded, DgWithinDepth,
                DgVerdictIsRight, DgAcceptedIsSound, DgTasks, dgVars
  <2> QED BY <2>1, <2>2, <2>3, <2>4 DEF DgNext
<1> QED BY <1>1, <1>2, PTL DEF DgSpec

\* For plans of any size, with their queue served in any order: what is accepted has no cycle
\* and no chain beyond the limit, and a well-formed plan that is refused has one or the other
\* (agent/dag_validator.py:34-194).
THEOREM DgVerdictRight == DgSpec => []DgVerdictIsRight
<1>1. DgInductive => DgVerdictIsRight
  BY DEF DgInductive
<1> QED BY <1>1, DgInvariant, PTL

\* The types of a validation; while it goes on no depth is beyond the limit, but that of a plan
\* for which there is no room at all.
DgTyped == DgTypeOK /\ (dgVerdict = "running" => \A t \in DgTasks : dgDepth[t] <= DgMaxDepth + 1)

\* A plan that is submitted has the type of its own pending prerequisites.
LEMMA DgSubmitTyped ==
    ASSUME NEW plan \in DgPlans, NEW listed \in BOOLEAN, DgSubmit(plan, listed)
    PROVE  DgTyped'
<1>1. /\ dgPlan' = plan /\ dgVisited' = {} /\ dgPending' = plan
      /\ dgDepth' = [t \in DOMAIN plan |-> 1]
      /\ dgVerdict' \in {"running", "refused"} /\ dgQueue' \subseteq DOMAIN plan
  BY DEF DgSubmit, DgRoots
<1>2. plan = [t \in DOMAIN plan |-> plan[t]] /\ IsFiniteSet(DOMAIN plan)
  BY DgPlansAssumption
<1>3. plan \in [DOMAIN plan -> SUBSET UNION {plan[t] : t \in DOMAIN plan}]
  <2>1. \A t \in DOMAIN plan : plan[t] \in SUBSET UNION {plan[u] : u \in DOMAIN plan}
    OBVIOUS
  <2> QED BY <1>2, <2>1
<1>4. 1 \in 1..(DgMaxDepth + 2) /\ 1 <= DgMaxDepth + 1
  BY DgBoundsAssumption
<1>5. dgDepth' \in [DOMAIN dgPlan' -> 1..(DgMaxDepth + 2)]
  BY <1>1, <1>4
<1>6. \A t \in DOMAIN dgPlan' : dgDepth'[t] <= DgMaxDepth + 1
  BY <1>1, <1>4
<1> QED BY <1>1, <1>2, <1>3, <1>5, <1>6 DEF DgTyped, DgTypeOK, DgTasks

\* A visit deepens a dependent by one at most.
LEMMA DgVisitTyped ==
    ASSUME DgTyped, NEW t \in dgQueue, DgVisit(t)
    PROVE  DgTyped'
<1> USE DEF DgTyped, DgTypeOK, DgTasks
<1>1. PICK deps : deps = DgDependents(dgPlan, t)
  OBVIOUS
<1>2. /\ dgVerdict = "running" /\ dgPlan' = dgPlan
      /\ dgVisited' = dgVisited \cup {t}
      /\ dgDepth' = [u \in DOMAIN dgPlan |-> IF u \in deps THEN DgDeeper(t, u) ELSE dgDepth[u]]
      /\ dgPending' = [u \in DOMAIN dgPlan |-> dgPending[u] \ {t}]
      /\ dgQueue' = (dgQueue \ {t}) \cup {u \in deps : dgPending[u] = {t}}
      /\ dgVerdict' = IF dgDepth[t] > DgMaxDepth \/ \E u \in deps : DgDeeper(t, u) > DgMaxDepth
                      THEN "refused" ELSE "running"
  BY <1>1 DEF DgVisit
<1>3. deps \subseteq DOMAIN dgPlan /\ t \in DOMAIN dgPlan
  BY <1>1 DEF DgDependents
<1>4. ASSUME NEW u \in DOMAIN dgPlan
      PROVE  /\ DgDeeper(t, u) \in 1..(DgMaxDepth + 2) /\ dgDepth[u] \in 1..(DgMaxDepth + 2)
             /\ dgDepth[u] <= DgMaxDepth + 1
  <2>1. dgDepth[u] \in 1..(DgMaxDepth + 2) /\ dgDepth[t] \in 1..(DgMaxDepth + 2)
    BY <1>3
  <2>2. dgDepth[u] <= DgMaxDepth + 1 /\ dgDepth[t] <= DgMaxDepth + 1
    BY <1>2, <1>3
  <2> QED BY <2>1, <2>2, DgBoundsAssumption DEF DgDeeper
<1>5. dgDepth' \in [DOMAIN dgPlan -> 1..(DgMaxDepth + 2)]
  BY <1>2, <1>4
<1>6. dgPending' \in [DOMAIN dgPlan -> SUBSET UNION {dgPlan[u] : u \in DOMAIN dgPlan}]
  BY <1>2
<1>7. ASSUME dgVerdict' = "running", NEW u \in DOMAIN dgPlan PROVE dgDepth'[u] <= DgMaxDepth + 1
  <2>1. CASE u \in deps
    <3>1. ~(DgDeeper(t, u) > DgMaxDepth) /\ dgDepth'[u] = DgDeeper(t, u)
      BY <1>2, <1>7, <2>1
    <3> QED BY <1>4, <3>1, DgBoundsAssumption
  <2>2. CASE u \notin deps
    BY <1>2, <1>4, <2>2
  <2> QED BY <2>1, <2>2
<1>8. dgVerdict' \in {"running", "refused"}
  BY <1>2
<1> QED BY <1>2, <1>3, <1>5, <1>6, <1>7, <1>8

\* The types of a validation hold in every state.
LEMMA DgTypeInvariant == DgSpec => []DgTyped
<1>1. DgInit => DgTyped
  <2> SUFFICES ASSUME DgInit PROVE DgTyped
    OBVIOUS
  <2>1. DOMAIN dgPlan = {} /\ dgPending = [t \in {} |-> {}] /\ dgDepth = [t \in {} |-> {}]
    BY DEF DgInit, DgNoPlan
  <2> QED BY <2>1, FS_EmptySet DEF DgInit, DgTyped, DgTypeOK, DgTasks
<1>2. DgTyped /\ [DgNext]_dgVars => DgTyped'
  <2> SUFFICES ASSUME DgTyped, [DgNext]_dgVars PROVE DgTyped'
    OBVIOUS
  <2>1. CASE DgDecide
    BY <2>1 DEF DgDecide, DgTyped, DgTypeOK, DgTasks
  <2>2. CASE UNCHANGED dgVars
    BY <2>2 DEF dgVars, DgTyped, DgTypeOK, DgTasks
  <2> QED BY <2>1, <2>2, DgSubmitTyped, DgVisitTyped DEF DgNext
<1> QED BY <1>1, <1>2, PTL DEF DgSpec
=============================================================================
