--------------------------- MODULE GovernedAction ---------------------------
(***************************************************************************)
(* The two domain services behind a governed action, over the repositories *)
(* they share within a tenant: ApprovalService (approval/service.py), which*)
(* takes a request from PENDING to a decision, and ActionLedgerService     *)
(* (action/ledger.py), which turns an approved request into an intent and  *)
(* journals the attempts to execute it.                                    *)
(*                                                                         *)
(* The in-memory repositories never suspend while they hold their lock, so *)
(* a service call is one step.  What crosses calls are the records the     *)
(* callers keep: create_intent is given an approval record, not its id,    *)
(* and that copy may be older than the stored one.                         *)
(*                                                                         *)
(* All identifiers belong to one tenant; calls for a foreign one find      *)
(* nothing.  create_request sets no requester, so the check that requester *)
(* and approver differ (service.py:135) never applies here.                *)
(***************************************************************************)
EXTENDS Naturals, FiniteSets

CONSTANTS
    Approvals, Intents, Attempts,  \* identifiers to be generated
    Keys,                          \* idempotency keys
    Payloads,                      \* what an approval binds: action, targets, payload and cost
    Approvers,                     \* principals and agents
    RequiredTier,                  \* _compute_required_tier of each payload
    Tier,                          \* approver_tier of each approver
    Humans                         \* the approvers that are human

ASSUME DirectoryAssumption ==
    /\ RequiredTier \in [Payloads -> 1..3]
    /\ Tier \in [Approvers -> Nat]
    /\ Humans \subseteq Approvers

VARIABLES
    approvals,   \* stored approval requests, by id
    granted,     \* approvals of which callers hold a copy that says APPROVED
    expired,     \* approvals whose expiry_time is over
    intents,     \* stored action intents, by id
    attempts     \* stored ledger records, by id

vars == <<approvals, granted, expired, intents, attempts>>

Nobody == "nobody"

ApprovalStatuses == {"PENDING", "APPROVED", "REJECTED", "EXPIRED", "REVOKED", "SUPERSEDED"}
IntentStatuses == {"INITIALIZED", "DISPATCHED", "COMPLETED", "FAILED", "RECONCILING"}

\* What record_attempt_completion is called with: every ActionLedgerStatus but STARTED.
Outcomes == {"SUCCESS", "PROVIDER_ERROR", "TIMEOUT_UNKNOWN", "RECONCILED", "COMPENSATED"}

ApprovalRecord ==
    [status : ApprovalStatuses, payload : Payloads, tier : 1..3,
     approver : Approvers \cup {Nobody}, causation : Approvals \cup {Nobody}]
IntentRecord ==
    [approval : Approvals, key : Keys, payload : Payloads, dryRun : BOOLEAN, status : IntentStatuses]
AttemptRecord ==
    [intent : Intents, number : Nat \ {0}, status : Outcomes \cup {"STARTED"}]

\* Types; in particular an intent names a stored approval and an attempt a stored intent.
TypeOK ==
    /\ DOMAIN approvals \subseteq Approvals
    /\ approvals \in [DOMAIN approvals -> ApprovalRecord]
    /\ granted \subseteq DOMAIN approvals
    /\ expired \subseteq DOMAIN approvals
    /\ DOMAIN intents \subseteq Intents
    /\ intents \in [DOMAIN intents -> IntentRecord]
    /\ \A i \in DOMAIN intents : intents[i].approval \in DOMAIN approvals
    /\ DOMAIN attempts \subseteq Attempts
    /\ attempts \in [DOMAIN attempts -> AttemptRecord]
    /\ \A t \in DOMAIN attempts : attempts[t].intent \in DOMAIN intents

Empty == [x \in {} |-> x]

Init ==
    /\ approvals = Empty
    /\ granted = {}
    /\ expired = {}
    /\ intents = Empty
    /\ attempts = Empty

-----------------------------------------------------------------------------
(* ApprovalService.                                                        *)

\* save and update of the repositories are the same assignment.
Put(store, id, record) ==
    [x \in DOMAIN store \cup {id} |-> IF x = id THEN record ELSE store[x]]

\* The repository is updated; nobody is given an approved copy.
Store(a, record) ==
    /\ approvals' = Put(approvals, a, record)
    /\ UNCHANGED granted

\* Faulty variant: an amendment keeps the tier of the original.
FreshWithOldTier(payload, origin) ==
    [status |-> "PENDING", payload |-> payload,
     tier |-> IF origin = Nobody THEN RequiredTier[payload] ELSE approvals[origin].tier,
     approver |-> Nobody, causation |-> origin]

Fresh(payload, origin) ==
    [status |-> "PENDING", payload |-> payload, tier |-> RequiredTier[payload],
     approver |-> Nobody, causation |-> origin]

\* causation is what amend_request writes, the amended request. create_request stores what its
\* caller passes (service.py:47, :60; the decision by default), which nothing reads: Nobody here.
CreateRequest(a, payload) ==
    /\ a \notin DOMAIN approvals
    /\ Store(a, Fresh(payload, Nobody))
    /\ UNCHANGED <<expired, intents, attempts>>

\* The approver has read the payload whose digest she sends.
Sufficient(a, approver, payload) ==
    /\ Tier[approver] >= approvals[a].tier
    /\ payload = approvals[a].payload

\* Faulty variants: only a replay is refused; a rejection may be reconsidered.
UnlessApproved(a, approver) ==
    /\ approver \in Humans
    /\ approvals[a].status /= "APPROVED"

MayBeReconsidered(a, approver) ==
    /\ approver \in Humans
    /\ approvals[a].status \in {"PENDING", "REJECTED"}

\* What the checks before the expiry leave of the callers and the requests.
MayBeGranted(a, approver) ==
    /\ approver \in Humans
    /\ approvals[a].status = "PENDING"

GrantApproval(a, approver, payload) ==
    /\ a \in DOMAIN approvals
    /\ MayBeGranted(a, approver)
    /\ a \notin expired
    /\ Sufficient(a, approver, payload)
    /\ approvals' = Put(approvals, a, [approvals[a] EXCEPT !.status = "APPROVED", !.approver = approver])
    /\ granted' = granted \cup {a}
    /\ UNCHANGED <<expired, intents, attempts>>

\* The call is refused, but the expiry is stored.
GrantTooLate(a, approver) ==
    /\ a \in DOMAIN approvals
    /\ MayBeGranted(a, approver)
    /\ a \in expired
    /\ Store(a, [approvals[a] EXCEPT !.status = "EXPIRED"])
    /\ UNCHANGED <<expired, intents, attempts>>

RejectRequest(a, approver) ==
    /\ a \in DOMAIN approvals
    /\ approvals[a].status = "PENDING"
    /\ Store(a, [approvals[a] EXCEPT !.status = "REJECTED", !.approver = approver])
    /\ UNCHANGED <<expired, intents, attempts>>

\* EXECUTING and COMPLETED would be refused, but no call stores them.
RevokeApproval(a) ==
    /\ a \in DOMAIN approvals
    /\ Store(a, [approvals[a] EXCEPT !.status = "REVOKED"])
    /\ UNCHANGED <<expired, intents, attempts>>

AmendRequest(a, b, payload) ==
    /\ a \in DOMAIN approvals
    /\ approvals[a].status /= "SUPERSEDED"
    /\ b \notin DOMAIN approvals
    /\ approvals' = Put(Put(approvals, a, [approvals[a] EXCEPT !.status = "SUPERSEDED"]),
                        b, Fresh(payload, a))
    /\ UNCHANGED <<granted, expired, intents, attempts>>

ExpireStaleRequests ==
    /\ approvals' = [a \in DOMAIN approvals |->
                        IF approvals[a].status = "PENDING" /\ a \in expired
                        THEN [approvals[a] EXCEPT !.status = "EXPIRED"] ELSE approvals[a]]
    /\ UNCHANGED <<granted, expired, intents, attempts>>

\* Time passes.
TimeToLiveEnds(a) ==
    /\ a \in DOMAIN approvals \ expired
    /\ expired' = expired \cup {a}
    /\ UNCHANGED <<approvals, granted, intents, attempts>>

-----------------------------------------------------------------------------
(* ActionLedgerService.                                                    *)

\* Faulty variant: a dry run does not take its key.
KeyIsUsedForReal(key) == \E i \in DOMAIN intents : intents[i].key = key /\ ~intents[i].dryRun

KeyIsUsed(key) == \E i \in DOMAIN intents : intents[i].key = key

\* An intent is created from the copy of the approval that the caller holds; a dry
\* run takes any.  With a key that is in use the call returns the stored intent and
\* changes nothing.
CreateIntent(i, a, key, dryRun) ==
    /\ i \notin DOMAIN intents
    /\ ~KeyIsUsed(key)
    /\ a \in IF dryRun THEN DOMAIN approvals ELSE granted
    /\ intents' = Put(intents, i,
          [approval |-> a, key |-> key, payload |-> approvals[a].payload,
           dryRun |-> dryRun, status |-> "INITIALIZED"])
    /\ UNCHANGED <<approvals, granted, expired, attempts>>

AttemptsOf(i) == {t \in DOMAIN attempts : attempts[t].intent = i}

\* Faulty variant: the status is not looked at.
AlwaysDispatched(status) == "DISPATCHED"

Started(status) == IF status = "INITIALIZED" THEN "DISPATCHED" ELSE status

\* Faulty variant: the attempts of all intents are counted.
RecordAnyAttemptStart(t, i) ==
    /\ t \notin DOMAIN attempts
    /\ i \in DOMAIN intents
    /\ attempts' = Put(attempts, t,
          [intent |-> i, number |-> Cardinality(DOMAIN attempts) + 1, status |-> "STARTED"])
    /\ intents' = [intents EXCEPT ![i].status = Started(@)]
    /\ UNCHANGED <<approvals, granted, expired>>

RecordAttemptStart(t, i) ==
    /\ t \notin DOMAIN attempts
    /\ i \in DOMAIN intents
    /\ attempts' = Put(attempts, t,
          [intent |-> i, number |-> Cardinality(AttemptsOf(i)) + 1, status |-> "STARTED"])
    /\ intents' = [intents EXCEPT ![i].status = Started(@)]
    /\ UNCHANGED <<approvals, granted, expired>>

\* Faulty variant: a settled attempt gives its status to the intent.
PropagatedAsIs(outcome, status) ==
    CASE outcome = "SUCCESS" -> "COMPLETED"
      [] outcome = "PROVIDER_ERROR" -> "FAILED"
      [] outcome = "TIMEOUT_UNKNOWN" -> "RECONCILING"
      [] OTHER -> outcome

\* The status of the intent after an attempt of it has completed.
Propagated(outcome, status) ==
    CASE outcome = "SUCCESS" -> "COMPLETED"
      [] outcome = "PROVIDER_ERROR" -> "FAILED"
      [] outcome = "TIMEOUT_UNKNOWN" -> "RECONCILING"
      [] OTHER -> status

RecordAttemptCompletion(t, outcome) ==
    /\ t \in DOMAIN attempts
    /\ attempts' = [attempts EXCEPT ![t].status = outcome]
    /\ intents' = [intents EXCEPT ![attempts[t].intent].status = Propagated(outcome, @)]
    /\ UNCHANGED <<approvals, granted, expired>>

Decide ==
    \E a \in Approvals :
        \/ \E approver \in Approvers :
              \/ \E payload \in Payloads : GrantApproval(a, approver, payload)
              \/ GrantTooLate(a, approver)
              \/ RejectRequest(a, approver)
        \/ RevokeApproval(a)
        \/ TimeToLiveEnds(a)
        \/ \E payload \in Payloads :
              \/ CreateRequest(a, payload)
              \/ \E b \in Approvals : AmendRequest(a, b, payload)

Execute ==
    \/ \E i \in Intents, a \in Approvals, key \in Keys, dryRun \in BOOLEAN :
          CreateIntent(i, a, key, dryRun)
    \/ \E t \in Attempts :
          \/ \E i \in Intents : RecordAttemptStart(t, i)
          \/ \E outcome \in Outcomes : RecordAttemptCompletion(t, outcome)

Next == Decide \/ ExpireStaleRequests \/ Execute

Spec == Init /\ [][Next]_vars

-----------------------------------------------------------------------------
(* Properties.                                                             *)

\* An intent that is not a dry run was signed by a human whose tier suffices for
\* the very payload it carries, through amendments that change payload and tier
\* and through copies that are out of date (service.py:177-213, :289-335, ledger.py:68-87).
IntentsAreSigned ==
    \A i \in DOMAIN intents : ~intents[i].dryRun =>
        LET request == approvals[intents[i].approval] IN
        /\ request.approver \in Humans
        /\ Tier[request.approver] >= RequiredTier[intents[i].payload]
        /\ intents[i].payload = request.payload

\* A request that was amended is out of force for good: no copy of the original can
\* be signed beside the request that amend_request put in its place (service.py:157-166,
\* :283-302). It says nothing of a causation that the caller of create_request chose.
AmendedRequestsAreOut ==
    \A b \in DOMAIN approvals : approvals[b].causation /= Nobody =>
        approvals[approvals[b].causation].status \in {"SUPERSEDED", "REVOKED"}

\* A decision that has been taken or taken back never comes into force again,
\* whatever is called on the request afterwards (service.py:142-166, :225, :252, :283).
WithdrawnStaysWithdrawn ==
    [][\A a \in DOMAIN approvals :
          /\ approvals[a].status /= "PENDING" => approvals'[a].status /= "PENDING"
          /\ approvals'[a].status = "APPROVED" => approvals[a].status \in {"PENDING", "APPROVED"}]_vars

\* A key leads to one intent, whoever submits it how often (ledger.py:60-66).
OneIntentPerKey ==
    \A i, j \in DOMAIN intents : intents[i].key = intents[j].key => i = j

\* The status of an intent is explained by its journal, whichever attempts overlap
\* and however often one is completed (ledger.py:144-147, :181-189).
IntentFollowsAttempts ==
    \A i \in DOMAIN intents :
        LET statuses == {attempts[t].status : t \in AttemptsOf(i)}
            settled == {"RECONCILED", "COMPENSATED"}
        IN  CASE intents[i].status = "INITIALIZED" -> statuses = {}
              [] intents[i].status = "DISPATCHED" -> statuses # {} /\ statuses \subseteq settled \cup {"STARTED"}
              [] intents[i].status = "COMPLETED" -> statuses \cap (settled \cup {"SUCCESS"}) # {}
              [] intents[i].status = "FAILED" -> statuses \cap (settled \cup {"PROVIDER_ERROR"}) # {}
              [] OTHER -> statuses \cap (settled \cup {"TIMEOUT_UNKNOWN"}) # {}

\* The attempts of an intent are numbered 1, 2, 3 ... without gap or repetition
\* (ledger.py:127-129).
JournalIsNumbered ==
    \A i \in DOMAIN intents :
        {attempts[t].number : t \in AttemptsOf(i)} = 1..Cardinality(AttemptsOf(i))

\* Documented (TEST-STRATEGY.md:255): "Revoked approval request rejects subsequent
\* action intents."
RevokedRejectsIntents ==
    [][\A i \in DOMAIN intents' \ DOMAIN intents :
          ~intents'[i].dryRun => approvals[intents'[i].approval].status /= "REVOKED"]_vars
=============================================================================
