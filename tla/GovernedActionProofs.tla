------------------------ MODULE GovernedActionProofs ------------------------
(***************************************************************************)
(* Proofs about GovernedAction for all sets of approvals, intents,         *)
(* attempts, keys, payloads and approvers.                                 *)
(***************************************************************************)
EXTENDS GovernedAction, FiniteSetTheorems, TLAPS

-----------------------------------------------------------------------------
(* The inductive invariant of the two services.                            *)

\* A stored request asks for the tier of its payload.
TiersAreCurrent ==
    \A a \in DOMAIN approvals : approvals[a].tier = RequiredTier[approvals[a].payload]

\* Whoever holds a copy that says APPROVED holds one that was signed, whatever has
\* become of the stored request.
GrantsAreSigned ==
    \A a \in granted :
        /\ approvals[a].status /= "PENDING"
        /\ approvals[a].approver \in Humans
        /\ Tier[approvals[a].approver] >= approvals[a].tier

\* An intent carries what its approval binds, and a real one was given such a copy.
IntentsAreBound ==
    \A i \in DOMAIN intents :
        /\ intents[i].payload = approvals[intents[i].approval].payload
        /\ ~intents[i].dryRun => intents[i].approval \in granted

\* An amendment names a stored request that it has put out of force.
AmendmentsReplace ==
    \A b \in DOMAIN approvals : approvals[b].causation /= Nobody =>
        /\ approvals[b].causation \in DOMAIN approvals
        /\ approvals[approvals[b].causation].status \in {"SUPERSEDED", "REVOKED"}

Inductive ==
    /\ TypeOK
    /\ TiersAreCurrent
    /\ GrantsAreSigned
    /\ IntentsAreBound
    /\ AmendmentsReplace
    /\ OneIntentPerKey
    /\ IsFiniteSet(DOMAIN attempts)

-----------------------------------------------------------------------------
(* Lemmas.                                                                 *)

\* A store of records of a type stays one.
LEMMA PutType ==
    ASSUME NEW S, NEW store, store \in [DOMAIN store -> S], NEW id, NEW record \in S
    PROVE  Put(store, id, record) \in [DOMAIN Put(store, id, record) -> S]
  BY DEF Put

\* Requests may come, be decided or withdrawn, as long as what they bind stays, new
\* ones are sound and new copies are signed.
LEMMA Evolution ==
    ASSUME Inductive,
           UNCHANGED <<expired, intents, attempts>>,
           approvals' \in [DOMAIN approvals' -> ApprovalRecord],
           DOMAIN approvals \subseteq DOMAIN approvals', DOMAIN approvals' \subseteq Approvals,
           \A a \in DOMAIN approvals :
              /\ approvals'[a].payload = approvals[a].payload
              /\ approvals'[a].tier = approvals[a].tier
              /\ approvals'[a].causation = approvals[a].causation
              /\ approvals[a].status \in {"SUPERSEDED", "REVOKED"} =>
                    approvals'[a].status \in {"SUPERSEDED", "REVOKED"}
              /\ a \in granted => /\ approvals'[a].approver = approvals[a].approver
                                  /\ approvals'[a].status /= "PENDING",
           \A b \in DOMAIN approvals' \ DOMAIN approvals :
              /\ approvals'[b].tier = RequiredTier[approvals'[b].payload]
              /\ approvals'[b].causation /= Nobody =>
                    /\ approvals'[b].causation \in DOMAIN approvals'
                    /\ approvals'[approvals'[b].causation].status \in {"SUPERSEDED", "REVOKED"},
           granted \subseteq granted',
           \A a \in granted' \ granted :
              /\ a \in DOMAIN approvals
              /\ approvals'[a].status /= "PENDING"
              /\ approvals'[a].approver \in Humans
              /\ Tier[approvals'[a].approver] >= approvals'[a].tier
    PROVE  Inductive'
<1>1. TypeOK'
  BY DEF Inductive, TypeOK
<1>2. TiersAreCurrent'
  BY DEF Inductive, TiersAreCurrent
<1>3. GrantsAreSigned'
  BY DEF Inductive, TypeOK, GrantsAreSigned
<1>4. IntentsAreBound'
  BY DEF Inductive, TypeOK, IntentsAreBound
<1>5. AmendmentsReplace'
  BY DEF Inductive, TypeOK, AmendmentsReplace
<1>6. OneIntentPerKey'
  BY DEF Inductive, OneIntentPerKey
<1> QED
  BY <1>1, <1>2, <1>3, <1>4, <1>5, <1>6 DEF Inductive

\* A decision on one stored request: it changes status and approver only, and leaves
\* no request pending or restored.
LEMMA Decision ==
    ASSUME Inductive,
           UNCHANGED <<expired, intents, attempts>>,
           NEW a \in DOMAIN approvals,
           NEW record \in ApprovalRecord,
           approvals' = Put(approvals, a, record),
           record.payload = approvals[a].payload,
           record.tier = approvals[a].tier,
           record.causation = approvals[a].causation,
           record.status /= "PENDING",
           approvals[a].status \in {"SUPERSEDED", "REVOKED"} => record.status \in {"SUPERSEDED", "REVOKED"},
           a \in granted => record.approver = approvals[a].approver,
           \/ granted' = granted
           \/ /\ granted' = granted \cup {a}
              /\ record.approver \in Humans
              /\ Tier[record.approver] >= record.tier
    PROVE  Inductive'
<1>1. approvals \in [DOMAIN approvals -> ApprovalRecord] /\ DOMAIN approvals \subseteq Approvals
  BY DEF Inductive, TypeOK
<1>2. /\ DOMAIN approvals' = DOMAIN approvals
      /\ approvals'[a] = record
      /\ \A x \in DOMAIN approvals : x /= a => approvals'[x] = approvals[x]
  BY DEF Put
<1>3. approvals' \in [DOMAIN approvals' -> ApprovalRecord]
  BY <1>1, PutType
<1>4. \A x \in DOMAIN approvals :
        /\ approvals'[x].payload = approvals[x].payload
        /\ approvals'[x].tier = approvals[x].tier
        /\ approvals'[x].causation = approvals[x].causation
        /\ approvals[x].status \in {"SUPERSEDED", "REVOKED"} =>
              approvals'[x].status \in {"SUPERSEDED", "REVOKED"}
        /\ x \in granted => /\ approvals'[x].approver = approvals[x].approver
                            /\ approvals'[x].status /= "PENDING"
  BY <1>2 DEF Inductive, GrantsAreSigned
<1>5. \A x \in granted' \ granted :
        /\ x \in DOMAIN approvals
        /\ approvals'[x].status /= "PENDING"
        /\ approvals'[x].approver \in Humans
        /\ Tier[approvals'[x].approver] >= approvals'[x].tier
  BY <1>2
<1>6. granted \subseteq granted'
  OBVIOUS
<1> QED
  BY <1>1, <1>2, <1>3, <1>4, <1>5, <1>6, Evolution

\* What a new request is stored as.
LEMMA FreshFacts ==
    ASSUME NEW payload \in Payloads, NEW origin \in Approvals \cup {Nobody}
    PROVE  /\ Fresh(payload, origin) \in ApprovalRecord
           /\ Fresh(payload, origin).tier = RequiredTier[payload]
           /\ Fresh(payload, origin).payload = payload
           /\ Fresh(payload, origin).causation = origin
  BY DirectoryAssumption DEF Fresh, ApprovalRecord, ApprovalStatuses

\* The attempts of an intent can be counted.
LEMMA AttemptsFinite ==
    ASSUME Inductive, NEW i
    PROVE  IsFiniteSet(AttemptsOf(i)) /\ Cardinality(AttemptsOf(i)) \in Nat
<1>1. AttemptsOf(i) \subseteq DOMAIN attempts
  BY DEF AttemptsOf
<1> QED
  BY <1>1, FS_Subset, FS_CardinalityType DEF Inductive

\* A stored request is an approval record.
LEMMA Stored ==
    ASSUME Inductive, NEW a \in DOMAIN approvals
    PROVE  approvals[a] \in ApprovalRecord /\ a \in Approvals
  BY DEF Inductive, TypeOK

-----------------------------------------------------------------------------
(* The invariant is inductive.                                             *)

LEMMA Initially == Init => Inductive
<1> SUFFICES ASSUME Init PROVE Inductive
  OBVIOUS
<1>1. DOMAIN approvals = {} /\ DOMAIN intents = {} /\ DOMAIN attempts = {} /\ granted = {} /\ expired = {}
  BY DEF Init, Empty
<1>2. approvals \in [{} -> ApprovalRecord] /\ intents \in [{} -> IntentRecord] /\ attempts \in [{} -> AttemptRecord]
  BY DEF Init, Empty
<1> QED
  BY <1>1, <1>2, FS_EmptySet DEF Inductive, TypeOK, TiersAreCurrent, GrantsAreSigned, IntentsAreBound,
     AmendmentsReplace, OneIntentPerKey

\* The calls of ApprovalService.
LEMMA DecideStep ==
    ASSUME Inductive, Decide
    PROVE  Inductive'
<1>1. ASSUME NEW a \in Approvals, NEW payload \in Payloads, CreateRequest(a, payload)
      PROVE  Inductive'
  <2> DEFINE record == Fresh(payload, Nobody)
  <2>1. record \in ApprovalRecord /\ record.tier = RequiredTier[record.payload] /\ record.causation = Nobody
    BY FreshFacts
  <2> HIDE DEF record
  <2>2. approvals' = Put(approvals, a, record) /\ granted' = granted
    BY <1>1 DEF CreateRequest, Store, record
  <2>3. /\ DOMAIN approvals' = DOMAIN approvals \cup {a}
        /\ approvals'[a] = record
        /\ \A x \in DOMAIN approvals : approvals'[x] = approvals[x]
    BY <1>1, <2>2 DEF CreateRequest, Put
  <2>4. approvals' \in [DOMAIN approvals' -> ApprovalRecord]
    BY <2>1, <2>2, PutType DEF Inductive, TypeOK
  <2>5. DOMAIN approvals' \subseteq Approvals /\ DOMAIN approvals \subseteq DOMAIN approvals'
    BY <2>3 DEF Inductive, TypeOK
  <2>6. \A b \in DOMAIN approvals' \ DOMAIN approvals : b = a
    BY <2>3
  <2>7. UNCHANGED <<expired, intents, attempts>>
    BY <1>1 DEF CreateRequest
  <2> QED
    BY <2>1, <2>2, <2>3, <2>4, <2>5, <2>6, <2>7, Evolution DEF Inductive, GrantsAreSigned, TypeOK
<1>2. ASSUME NEW a \in Approvals, NEW approver \in Approvers, NEW payload \in Payloads,
             GrantApproval(a, approver, payload)
      PROVE  Inductive'
  <2> DEFINE record == [approvals[a] EXCEPT !.status = "APPROVED", !.approver = approver]
  <2>1. a \in DOMAIN approvals /\ approvals[a] \in ApprovalRecord
    BY <1>2, Stored DEF GrantApproval
  <2>2. /\ record \in ApprovalRecord
        /\ record.status = "APPROVED" /\ record.approver = approver
        /\ record.payload = approvals[a].payload /\ record.tier = approvals[a].tier
        /\ record.causation = approvals[a].causation
    BY <2>1 DEF ApprovalRecord, ApprovalStatuses
  <2> HIDE DEF record
  <2>3. /\ approvals' = Put(approvals, a, record) /\ granted' = granted \cup {a}
        /\ approver \in Humans /\ Tier[approver] >= approvals[a].tier
        /\ approvals[a].status = "PENDING"
        /\ UNCHANGED <<expired, intents, attempts>>
    BY <1>2 DEF GrantApproval, MayBeGranted, Sufficient, record
  <2>4. a \notin granted
    BY <2>3 DEF Inductive, GrantsAreSigned
  <2> QED
    BY <2>1, <2>2, <2>3, <2>4, Decision
<1>3. ASSUME NEW a \in Approvals, NEW approver \in Approvers, GrantTooLate(a, approver)
      PROVE  Inductive'
  <2> DEFINE record == [approvals[a] EXCEPT !.status = "EXPIRED"]
  <2>1. a \in DOMAIN approvals /\ approvals[a] \in ApprovalRecord
    BY <1>3, Stored DEF GrantTooLate
  <2>2. /\ record \in ApprovalRecord
        /\ record.status = "EXPIRED" /\ record.approver = approvals[a].approver
        /\ record.payload = approvals[a].payload /\ record.tier = approvals[a].tier
        /\ record.causation = approvals[a].causation
    BY <2>1 DEF ApprovalRecord, ApprovalStatuses
  <2> HIDE DEF record
  <2>3. /\ approvals' = Put(approvals, a, record) /\ granted' = granted
        /\ approvals[a].status = "PENDING"
        /\ UNCHANGED <<expired, intents, attempts>>
    BY <1>3 DEF GrantTooLate, MayBeGranted, Store, record
  <2> QED
    BY <2>1, <2>2, <2>3, Decision
<1>4. ASSUME NEW a \in Approvals, NEW approver \in Approvers, RejectRequest(a, approver)
      PROVE  Inductive'
  <2> DEFINE record == [approvals[a] EXCEPT !.status = "REJECTED", !.approver = approver]
  <2>1. a \in DOMAIN approvals /\ approvals[a] \in ApprovalRecord
    BY <1>4, Stored DEF RejectRequest
  <2>2. /\ record \in ApprovalRecord
        /\ record.status = "REJECTED" /\ record.approver = approver
        /\ record.payload = approvals[a].payload /\ record.tier = approvals[a].tier
        /\ record.causation = approvals[a].causation
    BY <2>1 DEF ApprovalRecord, ApprovalStatuses
  <2> HIDE DEF record
  <2>3. /\ approvals' = Put(approvals, a, record) /\ granted' = granted
        /\ approvals[a].status = "PENDING"
        /\ UNCHANGED <<expired, intents, attempts>>
    BY <1>4 DEF RejectRequest, Store, record
  <2>4. a \notin granted
    BY <2>3 DEF Inductive, GrantsAreSigned
  <2> QED
    BY <2>1, <2>2, <2>3, <2>4, Decision
<1>5. ASSUME NEW a \in Approvals, RevokeApproval(a)
      PROVE  Inductive'
  <2> DEFINE record == [approvals[a] EXCEPT !.status = "REVOKED"]
  <2>1. a \in DOMAIN approvals /\ approvals[a] \in ApprovalRecord
    BY <1>5, Stored DEF RevokeApproval
  <2>2. /\ record \in ApprovalRecord
        /\ record.status = "REVOKED" /\ record.approver = approvals[a].approver
        /\ record.payload = approvals[a].payload /\ record.tier = approvals[a].tier
        /\ record.causation = approvals[a].causation
    BY <2>1 DEF ApprovalRecord, ApprovalStatuses
  <2> HIDE DEF record
  <2>3. /\ approvals' = Put(approvals, a, record) /\ granted' = granted
        /\ UNCHANGED <<expired, intents, attempts>>
    BY <1>5 DEF RevokeApproval, Store, record
  <2> QED
    BY <2>1, <2>2, <2>3, Decision
<1>6. ASSUME NEW a \in Approvals, NEW b \in Approvals, NEW payload \in Payloads, AmendRequest(a, b, payload)
      PROVE  Inductive'
  <2> DEFINE old == [approvals[a] EXCEPT !.status = "SUPERSEDED"]
             new == Fresh(payload, a)
             half == Put(approvals, a, old)
  <2>1. /\ a \in DOMAIN approvals /\ approvals[a] \in ApprovalRecord
        /\ b \in Approvals \ DOMAIN approvals
    BY <1>6, Stored DEF AmendRequest
  <2>2. /\ old \in ApprovalRecord
        /\ old.status = "SUPERSEDED" /\ old.approver = approvals[a].approver
        /\ old.payload = approvals[a].payload /\ old.tier = approvals[a].tier
        /\ old.causation = approvals[a].causation
    BY <2>1 DEF ApprovalRecord, ApprovalStatuses
  <2>3. new \in ApprovalRecord /\ new.tier = RequiredTier[new.payload] /\ new.causation = a
    BY FreshFacts
  <2>4. approvals' = Put(half, b, new) /\ UNCHANGED <<granted, expired, intents, attempts>>
    BY <1>6 DEF AmendRequest
  <2> HIDE DEF old, new
  <2>5. half \in [DOMAIN half -> ApprovalRecord]
    BY <2>2, PutType DEF Inductive, TypeOK
  <2>6. approvals' \in [DOMAIN approvals' -> ApprovalRecord]
    BY <2>3, <2>4, <2>5, PutType
  <2>7. /\ DOMAIN half = DOMAIN approvals
        /\ half[a] = old
        /\ \A x \in DOMAIN approvals : x /= a => half[x] = approvals[x]
    BY <2>1 DEF Put
  <2> HIDE DEF half
  <2>8. /\ DOMAIN approvals' = DOMAIN approvals \cup {b}
        /\ approvals'[b] = new
        /\ approvals'[a] = old
        /\ \A x \in DOMAIN approvals : x /= a => approvals'[x] = approvals[x]
    BY <2>1, <2>4, <2>7 DEF Put
  <2>9. DOMAIN approvals' \subseteq Approvals /\ DOMAIN approvals \subseteq DOMAIN approvals'
    BY <2>8 DEF Inductive, TypeOK
  <2>10. \A x \in DOMAIN approvals :
            /\ approvals'[x].payload = approvals[x].payload
            /\ approvals'[x].tier = approvals[x].tier
            /\ approvals'[x].causation = approvals[x].causation
            /\ approvals[x].status \in {"SUPERSEDED", "REVOKED"} =>
                  approvals'[x].status \in {"SUPERSEDED", "REVOKED"}
            /\ x \in granted => /\ approvals'[x].approver = approvals[x].approver
                                /\ approvals'[x].status /= "PENDING"
    BY <2>2, <2>8 DEF Inductive, GrantsAreSigned
  <2>11. \A x \in DOMAIN approvals' \ DOMAIN approvals :
            /\ approvals'[x].tier = RequiredTier[approvals'[x].payload]
            /\ approvals'[x].causation \in DOMAIN approvals'
            /\ approvals'[approvals'[x].causation].status \in {"SUPERSEDED", "REVOKED"}
    BY <2>1, <2>2, <2>3, <2>8
  <2> QED
    BY <2>4, <2>6, <2>9, <2>10, <2>11, Evolution
<1>7. ASSUME NEW a \in Approvals, TimeToLiveEnds(a)
      PROVE  Inductive'
  <2>1. expired' \subseteq DOMAIN approvals /\ UNCHANGED <<approvals, granted, intents, attempts>>
    BY <1>7 DEF TimeToLiveEnds, Inductive, TypeOK
  <2> QED
    BY <2>1 DEF Inductive, TypeOK, TiersAreCurrent, GrantsAreSigned, IntentsAreBound,
       AmendmentsReplace, OneIntentPerKey
<1> QED
  BY <1>1, <1>2, <1>3, <1>4, <1>5, <1>6, <1>7 DEF Decide

\* The sweep over stored requests.
LEMMA ExpireStep ==
    ASSUME Inductive, ExpireStaleRequests
    PROVE  Inductive'
<1>1. UNCHANGED <<granted, expired, intents, attempts>>
  BY DEF ExpireStaleRequests
<1>2. ASSUME NEW a \in DOMAIN approvals
      PROVE  /\ approvals'[a] \in ApprovalRecord
             /\ approvals'[a].payload = approvals[a].payload
             /\ approvals'[a].tier = approvals[a].tier
             /\ approvals'[a].causation = approvals[a].causation
             /\ approvals[a].status /= "PENDING" => approvals'[a] = approvals[a]
  <2>1. approvals[a] \in ApprovalRecord
    BY Stored
  <2>2. /\ [approvals[a] EXCEPT !.status = "EXPIRED"] \in ApprovalRecord
        /\ [approvals[a] EXCEPT !.status = "EXPIRED"].payload = approvals[a].payload
        /\ [approvals[a] EXCEPT !.status = "EXPIRED"].tier = approvals[a].tier
        /\ [approvals[a] EXCEPT !.status = "EXPIRED"].causation = approvals[a].causation
    BY <2>1 DEF ApprovalRecord, ApprovalStatuses
  <2>3. approvals'[a] = IF approvals[a].status = "PENDING" /\ a \in expired
                        THEN [approvals[a] EXCEPT !.status = "EXPIRED"] ELSE approvals[a]
    BY DEF ExpireStaleRequests
  <2> QED
    BY <2>1, <2>2, <2>3
<1>3. DOMAIN approvals' = DOMAIN approvals /\ approvals' \in [DOMAIN approvals' -> ApprovalRecord]
  BY <1>2 DEF ExpireStaleRequests
<1>4. DOMAIN approvals \subseteq Approvals
  BY DEF Inductive, TypeOK
<1> QED
  BY <1>1, <1>2, <1>3, <1>4, Evolution DEF Inductive, GrantsAreSigned

\* The calls of ActionLedgerService.
LEMMA ExecuteStep ==
    ASSUME Inductive, Execute
    PROVE  Inductive'
<1>1. ASSUME NEW i \in Intents, NEW a \in Approvals, NEW key \in Keys, NEW dryRun \in BOOLEAN,
             CreateIntent(i, a, key, dryRun)
      PROVE  Inductive'
  <2> DEFINE record == [approval |-> a, key |-> key, payload |-> approvals[a].payload,
                        dryRun |-> dryRun, status |-> "INITIALIZED"]
  <2>1. a \in DOMAIN approvals /\ (~dryRun => a \in granted)
    BY <1>1 DEF CreateIntent, Inductive, TypeOK
  <2>2. /\ record \in IntentRecord
        /\ record.approval = a /\ record.key = key /\ record.dryRun = dryRun
        /\ record.payload = approvals[a].payload
    BY <2>1, Stored DEF IntentRecord, IntentStatuses, ApprovalRecord
  <2> HIDE DEF record
  <2>3. intents' = Put(intents, i, record) /\ UNCHANGED <<approvals, granted, expired, attempts>>
    BY <1>1 DEF CreateIntent, record
  <2>4. /\ DOMAIN intents' = DOMAIN intents \cup {i}
        /\ intents'[i] = record
        /\ \A x \in DOMAIN intents : intents'[x] = intents[x]
    BY <1>1, <2>3 DEF CreateIntent, Put
  <2>5. intents' \in [DOMAIN intents' -> IntentRecord]
    BY <2>2, <2>3, PutType DEF Inductive, TypeOK
  <2>6. TypeOK'
    BY <2>1, <2>2, <2>3, <2>4, <2>5 DEF Inductive, TypeOK
  <2>7. IntentsAreBound'
    BY <2>1, <2>2, <2>3, <2>4 DEF Inductive, IntentsAreBound
  <2>8. OneIntentPerKey'
    BY <1>1, <2>2, <2>4 DEF Inductive, OneIntentPerKey, CreateIntent, KeyIsUsed
  <2> QED
    BY <2>3, <2>6, <2>7, <2>8 DEF Inductive, TiersAreCurrent, GrantsAreSigned, AmendmentsReplace
<1>2. ASSUME UNCHANGED <<approvals, granted, expired>>,
             NEW i \in DOMAIN intents, intents[i] \in IntentRecord,
             NEW status \in IntentStatuses,
             intents' = [intents EXCEPT ![i].status = status],
             DOMAIN attempts' \subseteq Attempts, IsFiniteSet(DOMAIN attempts'),
             attempts' \in [DOMAIN attempts' -> AttemptRecord],
             \A x \in DOMAIN attempts' : attempts'[x].intent \in DOMAIN intents
      PROVE  Inductive'
  <2>1. /\ DOMAIN intents' = DOMAIN intents
        /\ \A x \in DOMAIN intents :
              /\ intents'[x] \in IntentRecord
              /\ intents'[x].approval = intents[x].approval
              /\ intents'[x].payload = intents[x].payload
              /\ intents'[x].dryRun = intents[x].dryRun
              /\ intents'[x].key = intents[x].key
    BY <1>2 DEF Inductive, TypeOK, IntentRecord
  <2>2. intents' \in [DOMAIN intents' -> IntentRecord]
    BY <1>2, <2>1
  <2>3. TypeOK'
    BY <1>2, <2>1, <2>2 DEF Inductive, TypeOK
  <2>4. TiersAreCurrent' /\ GrantsAreSigned' /\ AmendmentsReplace'
    BY <1>2 DEF Inductive, TiersAreCurrent, GrantsAreSigned, AmendmentsReplace
  <2>5. IntentsAreBound' /\ OneIntentPerKey'
    BY <1>2, <2>1 DEF Inductive, IntentsAreBound, OneIntentPerKey
  <2> QED
    BY <1>2, <2>3, <2>4, <2>5 DEF Inductive
<1>3. ASSUME NEW t \in Attempts, NEW i \in Intents, RecordAttemptStart(t, i)
      PROVE  Inductive'
  <2> DEFINE record == [intent |-> i, number |-> Cardinality(AttemptsOf(i)) + 1, status |-> "STARTED"]
  <2>1. i \in DOMAIN intents /\ intents[i] \in IntentRecord
    BY <1>3 DEF RecordAttemptStart, Inductive, TypeOK
  <2>2. Cardinality(AttemptsOf(i)) \in Nat
    BY AttemptsFinite
  <2>3. record \in AttemptRecord /\ record.intent = i
    BY <2>2 DEF AttemptRecord
  <2> HIDE DEF record
  <2>4. attempts' = Put(attempts, t, record)
    BY <1>3 DEF RecordAttemptStart, record
  <2>5. /\ DOMAIN attempts' = DOMAIN attempts \cup {t}
        /\ attempts'[t] = record
        /\ \A x \in DOMAIN attempts : attempts'[x] = attempts[x]
    BY <1>3, <2>4 DEF RecordAttemptStart, Put
  <2>6. attempts' \in [DOMAIN attempts' -> AttemptRecord]
    BY <2>3, <2>4, PutType DEF Inductive, TypeOK
  <2>7. intents' = [intents EXCEPT ![i].status = Started(@)] /\ Started(intents[i].status) \in IntentStatuses
    BY <1>3, <2>1 DEF RecordAttemptStart, Started, IntentRecord, IntentStatuses
  <2>8. IsFiniteSet(DOMAIN attempts')
    BY <2>5, FS_AddElement DEF Inductive
  <2>9. UNCHANGED <<approvals, granted, expired>> /\ DOMAIN intents' = DOMAIN intents
    BY <1>3, <2>7 DEF RecordAttemptStart
  <2>10. \A x \in DOMAIN attempts' : attempts'[x].intent \in DOMAIN intents
    BY <2>1, <2>3, <2>5 DEF Inductive, TypeOK
  <2>11. DOMAIN attempts' \subseteq Attempts
    BY <2>5 DEF Inductive, TypeOK
  <2> QED
    BY <1>2, <2>1, <2>6, <2>7, <2>8, <2>9, <2>10, <2>11
<1>4. ASSUME NEW t \in Attempts, NEW outcome \in Outcomes, RecordAttemptCompletion(t, outcome)
      PROVE  Inductive'
  <2> DEFINE i == attempts[t].intent
  <2>1. t \in DOMAIN attempts /\ i \in DOMAIN intents /\ intents[i] \in IntentRecord
    BY <1>4 DEF RecordAttemptCompletion, Inductive, TypeOK
  <2>2. \A x \in DOMAIN attempts : attempts[x] \in AttemptRecord /\ attempts[x].intent \in DOMAIN intents
    BY DEF Inductive, TypeOK
  <2>3. /\ DOMAIN attempts' = DOMAIN attempts
        /\ \A x \in DOMAIN attempts :
              attempts'[x] \in AttemptRecord /\ attempts'[x].intent = attempts[x].intent
    BY <1>4, <2>1, <2>2 DEF RecordAttemptCompletion, AttemptRecord
  <2>4. attempts' \in [DOMAIN attempts' -> AttemptRecord]
    BY <1>4, <2>3 DEF RecordAttemptCompletion
  <2>5. Propagated(outcome, intents[i].status) \in IntentStatuses
    BY <2>1 DEF Propagated, Outcomes, IntentRecord, IntentStatuses
  <2>6. intents' = [intents EXCEPT ![i].status = Propagated(outcome, @)]
    BY <1>4 DEF RecordAttemptCompletion
  <2>7. UNCHANGED <<approvals, granted, expired>> /\ DOMAIN intents' = DOMAIN intents
    BY <1>4, <2>6 DEF RecordAttemptCompletion
  <2>8. \A x \in DOMAIN attempts' : attempts'[x].intent \in DOMAIN intents
    BY <2>2, <2>3
  <2> HIDE DEF i
  <2>9. IsFiniteSet(DOMAIN attempts') /\ DOMAIN attempts' \subseteq Attempts
    BY <2>3 DEF Inductive, TypeOK
  <2> QED
    BY <1>2, <2>1, <2>4, <2>5, <2>6, <2>7, <2>8, <2>9
<1> QED
  BY <1>1, <1>3, <1>4 DEF Execute

LEMMA Step == Inductive /\ [Next]_vars => Inductive'
<1> SUFFICES ASSUME Inductive, [Next]_vars PROVE Inductive'
  OBVIOUS
<1>1. CASE UNCHANGED vars
  BY <1>1 DEF vars, Inductive, TypeOK, TiersAreCurrent, GrantsAreSigned, IntentsAreBound,
     AmendmentsReplace, OneIntentPerKey
<1> QED
  BY <1>1, DecideStep, ExpireStep, ExecuteStep DEF Next

-----------------------------------------------------------------------------
(* The theorems.                                                           *)

LEMMA InductiveHolds == Spec => []Inductive
  BY Initially, Step, PTL DEF Spec

\* Types, for any number of requests, intents and attempts: an intent names a stored
\* request and an attempt a stored intent (action/ledger.py:75-87, :130-142).
THEOREM TypeCorrect == Spec => []TypeOK
<1>1. Inductive => TypeOK
  BY DEF Inductive
<1> QED
  BY <1>1, InductiveHolds, PTL

\* A real intent was signed by a human with the tier of the payload it carries,
\* although create_intent works on the caller's copy (action/ledger.py:68-87).
THEOREM IntentsSigned == Spec => []IntentsAreSigned
<1>1. Inductive => IntentsAreSigned
  <2> SUFFICES ASSUME Inductive, NEW i \in DOMAIN intents, ~intents[i].dryRun
               PROVE  /\ approvals[intents[i].approval].approver \in Humans
                      /\ Tier[approvals[intents[i].approval].approver] >= RequiredTier[intents[i].payload]
                      /\ intents[i].payload = approvals[intents[i].approval].payload
    BY DEF IntentsAreSigned
  <2>1. /\ intents[i].payload = approvals[intents[i].approval].payload
        /\ intents[i].approval \in granted
        /\ intents[i].approval \in DOMAIN approvals
    BY DEF Inductive, TypeOK, IntentsAreBound
  <2> QED
    BY <2>1 DEF Inductive, TiersAreCurrent, GrantsAreSigned
<1> QED
  BY <1>1, InductiveHolds, PTL

\* An amended request stays out of force (approval/service.py:283-302).
THEOREM AmendedOut == Spec => []AmendedRequestsAreOut
<1>1. Inductive => AmendedRequestsAreOut
  BY DEF Inductive, AmendmentsReplace, AmendedRequestsAreOut
<1> QED
  BY <1>1, InductiveHolds, PTL

\* A key leads to one intent (action/ledger.py:60-66).
THEOREM OnePerKey == Spec => []OneIntentPerKey
<1>1. Inductive => OneIntentPerKey
  BY DEF Inductive
<1> QED
  BY <1>1, InductiveHolds, PTL

\* What a step does to the status of a stored request.
LEMMA StatusStep ==
    ASSUME Inductive, [Next]_vars, NEW x \in DOMAIN approvals
    PROVE  /\ approvals[x].status /= "PENDING" => approvals'[x].status /= "PENDING"
           /\ approvals'[x].status = "APPROVED" => approvals[x].status \in {"PENDING", "APPROVED"}
<1>1. approvals[x] \in ApprovalRecord
  BY Stored
<1>2. CASE \E a \in Approvals, payload \in Payloads : CreateRequest(a, payload)
  BY <1>2 DEF CreateRequest, Store, Put
<1>3. CASE \E a \in Approvals, approver \in Approvers, payload \in Payloads : GrantApproval(a, approver, payload)
  BY <1>1, <1>3 DEF GrantApproval, MayBeGranted, Put, ApprovalRecord
<1>4. CASE \E a \in Approvals, approver \in Approvers : GrantTooLate(a, approver)
  BY <1>1, <1>4 DEF GrantTooLate, Store, Put, ApprovalRecord
<1>5. CASE \E a \in Approvals, approver \in Approvers : RejectRequest(a, approver)
  BY <1>1, <1>5 DEF RejectRequest, Store, Put, ApprovalRecord
<1>6. CASE \E a \in Approvals : RevokeApproval(a)
  BY <1>1, <1>6 DEF RevokeApproval, Store, Put, ApprovalRecord
<1>7. CASE \E a, b \in Approvals, payload \in Payloads : AmendRequest(a, b, payload)
  BY <1>1, <1>7 DEF AmendRequest, Put, ApprovalRecord
<1>8. CASE ExpireStaleRequests
  BY <1>1, <1>8 DEF ExpireStaleRequests, ApprovalRecord
<1>9. CASE UNCHANGED approvals
  BY <1>9
<1> QED
  BY <1>2, <1>3, <1>4, <1>5, <1>6, <1>7, <1>8, <1>9
     DEF Next, Decide, Execute, TimeToLiveEnds, CreateIntent, RecordAttemptStart, RecordAttemptCompletion, vars

\* A decision that was taken, or taken back, never comes into force again
\* (approval/service.py:142-166, :225, :252, :283).
THEOREM WithdrawnForGood == Spec => WithdrawnStaysWithdrawn
<1>1. Inductive /\ [Next]_vars =>
        [\A a \in DOMAIN approvals :
            /\ approvals[a].status /= "PENDING" => approvals'[a].status /= "PENDING"
            /\ approvals'[a].status = "APPROVED" => approvals[a].status \in {"PENDING", "APPROVED"}]_vars
  BY StatusStep
<1> QED
  BY <1>1, InductiveHolds, PTL DEF Spec, WithdrawnStaysWithdrawn

-----------------------------------------------------------------------------
(* The journal.  Explained says of one intent what IntentFollowsAttempts   *)
(* says of all of them; Numbered is JournalIsNumbered for one.             *)

Settled == {"RECONCILED", "COMPENSATED"}

Explained(i) ==
    /\ intents[i].status = "INITIALIZED" => AttemptsOf(i) = {}
    /\ intents[i].status = "DISPATCHED" =>
          /\ AttemptsOf(i) /= {}
          /\ \A t \in AttemptsOf(i) : attempts[t].status \in Settled \cup {"STARTED"}
    /\ intents[i].status = "COMPLETED" =>
          \E t \in AttemptsOf(i) : attempts[t].status \in Settled \cup {"SUCCESS"}
    /\ intents[i].status = "FAILED" =>
          \E t \in AttemptsOf(i) : attempts[t].status \in Settled \cup {"PROVIDER_ERROR"}
    /\ intents[i].status = "RECONCILING" =>
          \E t \in AttemptsOf(i) : attempts[t].status \in Settled \cup {"TIMEOUT_UNKNOWN"}

Numbered(i) == {attempts[t].number : t \in AttemptsOf(i)} = 1..Cardinality(AttemptsOf(i))

Journal == \A i \in DOMAIN intents : Explained(i) /\ Numbered(i)

\* An intent whose attempts and status are left alone stays explained and numbered.
LEMMA JournalKept ==
    ASSUME NEW i, Explained(i), Numbered(i),
           intents'[i].status = intents[i].status,
           AttemptsOf(i)' = AttemptsOf(i),
           \A t \in AttemptsOf(i) : attempts'[t] = attempts[t]
    PROVE  Explained(i)' /\ Numbered(i)'
<1>1. Explained(i)'
  BY DEF Explained
<1>2. {attempts'[t].number : t \in AttemptsOf(i)} = {attempts[t].number : t \in AttemptsOf(i)}
  OBVIOUS
<1>3. Numbered(i)'
  BY <1>2 DEF Numbered
<1> QED
  BY <1>1, <1>3

\* A new attempt is the next number and dispatches an intent that was initialised.
LEMMA StartStep ==
    ASSUME Inductive, Journal, NEW t \in Attempts, NEW i \in Intents, RecordAttemptStart(t, i)
    PROVE  Journal'
<1> DEFINE n == Cardinality(AttemptsOf(i))
           record == [intent |-> i, number |-> n + 1, status |-> "STARTED"]
<1>1. /\ i \in DOMAIN intents
      /\ t \notin DOMAIN attempts
      /\ DOMAIN attempts' = DOMAIN attempts \cup {t}
      /\ attempts'[t] = record
      /\ \A x \in DOMAIN attempts : attempts'[x] = attempts[x]
  BY DEF RecordAttemptStart, Put
<1>2. intents[i] \in IntentRecord
  BY <1>1 DEF Inductive, TypeOK
<1>3. /\ DOMAIN intents' = DOMAIN intents
      /\ intents'[i].status = Started(intents[i].status)
      /\ \A j \in DOMAIN intents : j /= i => intents'[j] = intents[j]
  BY <1>1, <1>2 DEF RecordAttemptStart, IntentRecord
<1>4. AttemptsOf(i)' = AttemptsOf(i) \cup {t} /\ t \notin AttemptsOf(i)
  BY <1>1 DEF AttemptsOf
<1>5. IsFiniteSet(AttemptsOf(i)) /\ n \in Nat /\ Cardinality(AttemptsOf(i)') = n + 1
  BY <1>4, AttemptsFinite, FS_AddElement
<1>6. Explained(i)'
  <2>1. attempts'[t].status = "STARTED" /\ \A x \in AttemptsOf(i) : attempts'[x] = attempts[x]
    BY <1>1 DEF AttemptsOf
  <2>2. Explained(i)
    BY <1>1 DEF Journal
  <2> QED
    BY <1>2, <1>3, <1>4, <2>1, <2>2 DEF Explained, Started, Settled, IntentRecord, IntentStatuses
<1>7. Numbered(i)'
  <2>1. {attempts[x].number : x \in AttemptsOf(i)} = 1..n
    BY <1>1 DEF Journal, Numbered
  <2>2. attempts'[t].number = n + 1 /\ \A x \in AttemptsOf(i) : attempts'[x].number = attempts[x].number
    BY <1>1 DEF AttemptsOf
  <2>3. {attempts'[x].number : x \in AttemptsOf(i)'} = {attempts[x].number : x \in AttemptsOf(i)} \cup {n + 1}
    BY <1>4, <2>2
  <2>4. (1..n) \cup {n + 1} = 1..(n + 1)
    BY <1>5
  <2> QED
    BY <1>5, <2>1, <2>3, <2>4 DEF Numbered
<1>8. ASSUME NEW j \in DOMAIN intents, j /= i
      PROVE  Explained(j)' /\ Numbered(j)'
  <2>1. AttemptsOf(j)' = AttemptsOf(j) /\ \A x \in AttemptsOf(j) : attempts'[x] = attempts[x]
    BY <1>1, <1>8 DEF AttemptsOf
  <2> QED
    BY <1>3, <1>8, <2>1, JournalKept DEF Journal
<1> QED
  BY <1>3, <1>6, <1>7, <1>8 DEF Journal

\* A completed attempt gives its intent the status its outcome asks for.
LEMMA CompletionStep ==
    ASSUME Inductive, Journal, NEW t \in Attempts, NEW outcome \in Outcomes,
           RecordAttemptCompletion(t, outcome)
    PROVE  Journal'
<1>0. PICK i \in Intents : i = attempts[t].intent
  BY DEF RecordAttemptCompletion, Inductive, TypeOK
<1>1. /\ t \in DOMAIN attempts /\ i \in DOMAIN intents /\ intents[i] \in IntentRecord
      /\ attempts[t] \in AttemptRecord
  BY <1>0 DEF RecordAttemptCompletion, Inductive, TypeOK
<1>2. /\ DOMAIN attempts' = DOMAIN attempts
      /\ attempts'[t].status = outcome
      /\ attempts'[t].intent = i /\ attempts'[t].number = attempts[t].number
      /\ \A x \in DOMAIN attempts : x /= t => attempts'[x] = attempts[x]
  BY <1>0, <1>1 DEF RecordAttemptCompletion, AttemptRecord
<1>3. /\ DOMAIN intents' = DOMAIN intents
      /\ intents'[i].status = Propagated(outcome, intents[i].status)
      /\ \A j \in DOMAIN intents : j /= i => intents'[j] = intents[j]
  BY <1>0, <1>1 DEF RecordAttemptCompletion, IntentRecord
<1>4. \A j : AttemptsOf(j)' = AttemptsOf(j)
  BY <1>0, <1>2 DEF AttemptsOf
<1>5. t \in AttemptsOf(i)
  BY <1>0, <1>1 DEF AttemptsOf
<1>6. Explained(i)'
  <2>1. Explained(i)
    BY <1>1 DEF Journal
  <2>2. \A x \in AttemptsOf(i) : x /= t => attempts'[x].status = attempts[x].status
    BY <1>2 DEF AttemptsOf
  <2>3. CASE outcome \in Settled
    <3>1. Propagated(outcome, intents[i].status) = intents[i].status
      BY <2>3 DEF Propagated, Settled
    <3> QED
      BY <1>1, <1>2, <1>3, <1>4, <1>5, <2>1, <2>2, <2>3, <3>1 DEF Explained
  <2>4. CASE outcome \notin Settled
    BY <1>2, <1>3, <1>4, <1>5, <2>4 DEF Explained, Propagated, Outcomes, Settled
  <2> QED
    BY <2>3, <2>4
<1>7. Numbered(i)'
  <2>1. \A x \in AttemptsOf(i) : attempts'[x].number = attempts[x].number
    BY <1>2 DEF AttemptsOf
  <2>2. {attempts'[x].number : x \in AttemptsOf(i)} = {attempts[x].number : x \in AttemptsOf(i)}
    BY <2>1
  <2> QED
    BY <1>1, <1>4, <2>2 DEF Journal, Numbered
<1>8. ASSUME NEW j \in DOMAIN intents, j /= i
      PROVE  Explained(j)' /\ Numbered(j)'
  <2>1. \A x \in AttemptsOf(j) : attempts'[x] = attempts[x]
    BY <1>0, <1>2, <1>8 DEF AttemptsOf
  <2> QED
    BY <1>3, <1>4, <1>8, <2>1, JournalKept DEF Journal
<1> QED
  BY <1>3, <1>6, <1>7, <1>8 DEF Journal

LEMMA JournalStep == Inductive /\ Journal /\ [Next]_vars => Journal'
<1> SUFFICES ASSUME Inductive, Journal, [Next]_vars PROVE Journal'
  OBVIOUS
<1>1. CASE \E i \in Intents, a \in Approvals, key \in Keys, dryRun \in BOOLEAN : CreateIntent(i, a, key, dryRun)
  <2>1. PICK i \in Intents, a \in Approvals, key \in Keys, dryRun \in BOOLEAN : CreateIntent(i, a, key, dryRun)
    BY <1>1
  <2>2. /\ DOMAIN intents' = DOMAIN intents \cup {i} /\ i \notin DOMAIN intents
        /\ intents'[i].status = "INITIALIZED"
        /\ \A j \in DOMAIN intents : intents'[j] = intents[j]
        /\ attempts' = attempts
    BY <2>1 DEF CreateIntent, Put
  <2>3. AttemptsOf(i)' = {}
    BY <2>2 DEF AttemptsOf, Inductive, TypeOK
  <2>4. Explained(i)'
    BY <2>2, <2>3 DEF Explained
  <2>5. Numbered(i)'
    BY <2>3, FS_EmptySet DEF Numbered
  <2>6. ASSUME NEW j \in DOMAIN intents
        PROVE  Explained(j)' /\ Numbered(j)'
    <3>1. AttemptsOf(j)' = AttemptsOf(j)
      BY <2>2 DEF AttemptsOf
    <3> QED
      BY <2>2, <2>6, <3>1, JournalKept DEF Journal
  <2> QED
    BY <2>2, <2>4, <2>5, <2>6 DEF Journal
<1>2. CASE UNCHANGED <<intents, attempts>>
  <2>1. ASSUME NEW i \in DOMAIN intents
        PROVE  Explained(i)' /\ Numbered(i)'
    <3>1. AttemptsOf(i)' = AttemptsOf(i)
      BY <1>2 DEF AttemptsOf
    <3> QED
      BY <1>2, <2>1, <3>1, JournalKept DEF Journal
  <2> QED
    BY <1>2, <2>1 DEF Journal
<1> QED
  BY <1>1, <1>2, StartStep, CompletionStep
     DEF Next, Decide, Execute, ExpireStaleRequests, CreateRequest, GrantApproval, GrantTooLate,
         RejectRequest, RevokeApproval, AmendRequest, TimeToLiveEnds, vars

LEMMA JournalHolds == Spec => [](Inductive /\ Journal)
<1>1. Init => Journal
  BY DEF Init, Empty, Journal
<1> QED
  BY <1>1, JournalStep, InductiveHolds, PTL DEF Spec

\* The status of an intent is explained by its attempts (action/ledger.py:144-147, :181-189).
THEOREM IntentsFollow == Spec => []IntentFollowsAttempts
<1>1. Inductive /\ Journal => IntentFollowsAttempts
  <2> SUFFICES ASSUME Inductive, Journal PROVE IntentFollowsAttempts
    OBVIOUS
  <2>1. \A i \in DOMAIN intents : Explained(i) /\ intents[i].status \in IntentStatuses
    BY DEF Journal, Inductive, TypeOK, IntentRecord
  <2> QED
    BY <2>1 DEF IntentFollowsAttempts, Explained, Settled, IntentStatuses
<1> QED
  BY <1>1, JournalHolds, PTL

\* The attempts of an intent are numbered without gap (action/ledger.py:127-142).
THEOREM JournalNumbered == Spec => []JournalIsNumbered
<1>1. Journal => JournalIsNumbered
  BY DEF Journal, Numbered, JournalIsNumbered
<1> QED
  BY <1>1, JournalHolds, PTL

=============================================================================
