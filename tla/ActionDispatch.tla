--------------------------- MODULE ActionDispatch ---------------------------
(***************************************************************************)
(* The approval and dispatch path of the HTTP API: the handlers of         *)
(* apps/api/routers/approvals.py over the PostgreSQL adapters they await.  *)
(*                                                                         *)
(* The API runs as several worker processes (apps/api/Dockerfile starts    *)
(* uvicorn with two).  Each worker keeps its own dictionary of approval    *)
(* records and its own dictionary of action responses; the approval rows,  *)
(* the intent rows and the kill switches are in the database all workers   *)
(* share.  A handler runs without interruption from one await to the next, *)
(* so it is one action per segment: a statement executed by the database   *)
(* and the code that resumes after its answer are separate actions, and    *)
(* anything may happen in between.                                         *)
(*                                                                         *)
(* A request that a handler refuses without changing any state is a        *)
(* stuttering step.  The response bodies, digests and policy versions are  *)
(* not represented: every record is created by the handler modelled here,  *)
(* whose digest and policy digest match by construction.                   *)
(***************************************************************************)
EXTENDS Naturals

CONSTANTS
    Workers,       \* API worker processes
    Slots,         \* requests that may be in flight at the same time
    Approvals,     \* approval identifiers
    Keys,          \* idempotency keys chosen by clients
    Principals,    \* authenticated callers
    Tenants,
    Operators,     \* the principals with role OPERATOR or SYSTEM_ADMIN
    TenantOf,      \* tenant of each principal
    Level,         \* approval authority of each principal, 0 (none or an agent) to 3
    Requester,     \* principal who asks for each approval
    RequiredTier,  \* tier each approval asks for, 1 to 3
    Cost,          \* estimated cost of each approval, in USD
    Global,        \* kill switch scope GLOBAL; a tenant is its own scope
    SwitchScopes,  \* the kill switches that may be engaged: the scopes each one closes
    None           \* no approval, no key, no principal

ASSUME ConstantsAssumption ==
    /\ Operators \subseteq Principals
    /\ TenantOf \in [Principals -> Tenants]
    /\ Level \in [Principals -> 0..3]
    /\ Requester \in [Approvals -> Principals]
    /\ RequiredTier \in [Approvals -> 1..3]
    /\ Cost \in [Approvals -> Nat]
    /\ Global \notin Tenants
    /\ SwitchScopes \subseteq SUBSET (Tenants \cup {Global})
    /\ None \notin Approvals \cup Keys \cup Principals

VARIABLES
    row,          \* revpilot.approval_requests: status of each approval
    cache,        \* _pending_approvals_cache of each worker: status of its record
    expired,      \* the approvals whose 24 hours are over
    switches,     \* scopes with an active row in revpilot.kill_switches
    intentRow,    \* revpilot.action_intents: approval of each (tenant, key)
    intentCache,  \* _action_intents_cache of each worker: approval of the stored response
    slot,         \* the requests in flight
    signed,       \* history: who made each approval APPROVED, in a cache or in its row
    cacheCalls,   \* history: provider calls made from a cached record (0, 1, 2 = many)
    rowCalls      \* history: provider calls made from a record read from the row

history == <<signed, cacheCalls, rowCalls>>
database == <<row, intentRow, switches>>
memory == <<cache, intentCache>>
vars == <<row, cache, expired, switches, intentRow, intentCache, slot,
          signed, cacheCalls, rowCalls>>

RowStatus == {"ABSENT", "PENDING", "APPROVED", "REJECTED"}

CacheStatus == RowStatus \cup {"EXPIRED", "DISPATCHING", "SUCCEEDED", "PROVIDER_FAILED"}

Phases == {"grantFetch", "grantDecide", "grantUpdate", "rejectUpdate",
           "ksGlobal", "ksTenant", "admitted", "fetch", "dispatch",
           "intent", "respond"}

Idle == [pc |-> "idle"]

Request == [pc : Phases, w : Workers, p : Principals, a : Approvals,
            k : Keys \cup {None}, rec : RowStatus, halted : BOOLEAN]

KeyIds == Tenants \X Keys

TypeOK ==
    /\ row \in [Approvals -> RowStatus]
    /\ cache \in [Workers -> [Approvals -> CacheStatus]]
    /\ expired \in SUBSET Approvals
    /\ switches \in SUBSET (Tenants \cup {Global})
    /\ intentRow \in [KeyIds -> Approvals \cup {None}]
    /\ intentCache \in [Workers -> [KeyIds -> Approvals \cup {None}]]
    /\ slot \in [Slots -> Request \cup {Idle}]
    /\ signed \in [Approvals -> SUBSET Principals]
    /\ cacheCalls \in [Approvals -> 0..2]
    /\ rowCalls \in [Approvals -> 0..2]

Init ==
    /\ row = [a \in Approvals |-> "ABSENT"]
    /\ cache = [w \in Workers |-> [a \in Approvals |-> "ABSENT"]]
    /\ expired = {}
    /\ switches = {}
    /\ intentRow = [i \in KeyIds |-> None]
    /\ intentCache = [w \in Workers |-> [i \in KeyIds |-> None]]
    /\ slot = [s \in Slots |-> Idle]
    /\ signed = [a \in Approvals |-> {}]
    /\ cacheCalls = [a \in Approvals |-> 0]
    /\ rowCalls = [a \in Approvals |-> 0]

-----------------------------------------------------------------------------
(* Requests and their place between two awaits.                            *)

Free(s) == slot' = [slot EXCEPT ![s] = Idle]

Goto(s, pc) == slot' = [slot EXCEPT ![s].pc = pc]

\* The handler of a new request has run up to its first await.  "halted" is
\* history: the kill switch was engaged for a dispatch before it arrived.
Begin(s, pc, w, p, a, k, halted) ==
    /\ slot[s] = Idle
    /\ slot' = [slot EXCEPT ![s] = [pc |-> pc, w |-> w, p |-> p, a |-> a, k |-> k,
                                   rec |-> "ABSENT", halted |-> halted]]

Engaged(p) == Global \in switches \/ TenantOf[p] \in switches

At(s, pc) == slot[s].pc = pc

InCache(w, a) == cache[w][a] # "ABSENT"

SetCache(w, a, status) == cache' = [cache EXCEPT ![w][a] = status]

Owner(a) == TenantOf[Requester[a]]

KeyOf(s) == <<TenantOf[slot[s].p], slot[s].k>>

\* Row-level security: a session sees the rows of its own tenant only.
Visible(p, a) == row[a] # "ABSENT" /\ TenantOf[p] = Owner(a)

\* What the history counters distinguish: no call, one call, more.
Tally(n) == IF n < 2 THEN n + 1 ELSE n

-----------------------------------------------------------------------------
(* POST /approvals.  The identifier is unknown to every client until the   *)
(* row is inserted, so the cache write and the insert are one step.        *)

CreateApproval(w, a) ==
    /\ row[a] = "ABSENT"
    /\ SetCache(w, a, "PENDING")
    /\ row' = [row EXCEPT ![a] = "PENDING"]
    /\ UNCHANGED <<expired, switches, intentRow, intentCache, slot>>
    /\ UNCHANGED history

-----------------------------------------------------------------------------
(* POST /approvals/{id}/approve                                            *)

SpendLimit(level) ==
    CASE level = 1 -> 250 [] level = 2 -> 1000 [] level = 3 -> 10000 [] OTHER -> 0

HasAuthority(p, a) ==
    /\ Level[p] >= RequiredTier[a]
    /\ Cost[a] <= SpendLimit(Level[p])

Authorised(p, a) == TenantOf[p] = Owner(a) /\ HasAuthority(p, a)

\* Faulty variant: the tier and the spend ceiling are not compared.
MayGrantAnyPending(w, p, a) == cache[w][a] = "PENDING" /\ p # Requester[a]

\* Only a cached record knows who asked for the approval: the row has no
\* column for it, so the check of the requester is skipped for a fetched record.
MayGrantCached(w, p, a) ==
    /\ cache[w][a] = "PENDING"
    /\ p # Requester[a]
    /\ Authorised(p, a)

GrantStart(s, w, p, a) ==
    /\ Level[p] >= 1
    /\ \/ /\ InCache(w, a)
          /\ a \notin expired
          /\ MayGrantCached(w, p, a)
          /\ SetCache(w, a, "APPROVED")
          /\ signed' = [signed EXCEPT ![a] = @ \cup {p}]
          /\ Begin(s, "grantUpdate", w, p, a, None, FALSE)
       \/ /\ cache[w][a] = "PENDING"
          /\ a \in expired
          /\ TenantOf[p] = Owner(a)
          /\ SetCache(w, a, "EXPIRED")
          /\ UNCHANGED <<signed, slot>>
       \/ /\ ~InCache(w, a)
          /\ Begin(s, "grantFetch", w, p, a, None, FALSE)
          /\ UNCHANGED <<signed, cache>>
    /\ UNCHANGED <<row, expired, switches, intentRow, intentCache, cacheCalls, rowCalls>>

\* SELECT by get_request: a private copy of the row.
FetchRow(s, here, next) ==
    /\ At(s, here)
    /\ IF Visible(slot[s].p, slot[s].a)
       THEN slot' = [slot EXCEPT ![s].pc = next, ![s].rec = row[slot[s].a]]
       ELSE Free(s)
    /\ UNCHANGED <<expired, database, memory, history>>

GrantFetch(s) == FetchRow(s, "grantFetch", "grantDecide")

\* The checks on a record read from the row.
GrantDecide(s) ==
    /\ At(s, "grantDecide")
    /\ IF /\ slot[s].rec = "PENDING"
          /\ slot[s].a \notin expired
          /\ Authorised(slot[s].p, slot[s].a)
       THEN Goto(s, "grantUpdate")
       ELSE Free(s)
    /\ UNCHANGED <<expired, database, memory, history>>

\* Faulty variant: the UPDATE has no WHERE status = 'PENDING'.
ApproveWhatever(p, a) == Visible(p, a)

\* UPDATE ... SET status = 'APPROVED' WHERE status = 'PENDING' AND expiry_time > now.
\* "now" is taken before the await of the session, where the handler has just found
\* the approval unexpired: one that expires while the statement waits is still approved.
ApprovableRow(p, a) == Visible(p, a) /\ row[a] = "PENDING"

GrantUpdate(s) ==
    /\ At(s, "grantUpdate")
    /\ IF ApprovableRow(slot[s].p, slot[s].a)
       THEN /\ row' = [row EXCEPT ![slot[s].a] = "APPROVED"]
            /\ signed' = [signed EXCEPT ![slot[s].a] = @ \cup {slot[s].p}]
       ELSE UNCHANGED <<row, signed>>
    /\ Free(s)
    /\ UNCHANGED <<cache, expired, switches, intentRow, intentCache, cacheCalls, rowCalls>>

-----------------------------------------------------------------------------
(* POST /approvals/{id}/reject.  An approval the worker has no record of   *)
(* is taken to be PENDING; the tenant of a cached record is not compared.  *)

RejectStart(s, w, p, a) ==
    /\ Level[p] >= 1
    /\ cache[w][a] \in {"ABSENT", "PENDING"}
    /\ cache' = IF InCache(w, a) THEN [cache EXCEPT ![w][a] = "REJECTED"] ELSE cache
    /\ Begin(s, "rejectUpdate", w, p, a, None, FALSE)
    /\ UNCHANGED <<row, expired, switches, intentRow, intentCache, history>>

\* Faulty variant: the UPDATE has no WHERE status = 'PENDING'.
RejectWhatever(p, a) == Visible(p, a)

\* UPDATE ... SET status = 'REJECTED' WHERE status = 'PENDING'.
RejectableRow(p, a) == Visible(p, a) /\ row[a] = "PENDING"

RejectUpdate(s) ==
    /\ At(s, "rejectUpdate")
    /\ row' = IF RejectableRow(slot[s].p, slot[s].a)
              THEN [row EXCEPT ![slot[s].a] = "REJECTED"]
              ELSE row
    /\ Free(s)
    /\ UNCHANGED <<expired, switches, intentRow, memory, history>>

-----------------------------------------------------------------------------
(* POST /actions/dispatch                                                  *)

DispatchStart(s, w, p, a, k) ==
    /\ Begin(s, "ksGlobal", w, p, a, k, Engaged(p))
    /\ UNCHANGED <<expired, database, memory, history>>

ReadGlobalSwitch(s) ==
    /\ At(s, "ksGlobal")
    /\ IF Global \in switches THEN Free(s) ELSE Goto(s, "ksTenant")
    /\ UNCHANGED <<expired, database, memory, history>>

\* Faulty variant: only the GLOBAL scope is read.
SkipTenantSwitch(s) ==
    /\ At(s, "ksTenant")
    /\ Goto(s, "admitted")
    /\ UNCHANGED <<expired, database, memory, history>>

ReadTenantSwitch(s) ==
    /\ At(s, "ksTenant")
    /\ IF TenantOf[slot[s].p] \in switches THEN Free(s) ELSE Goto(s, "admitted")
    /\ UNCHANGED <<expired, database, memory, history>>

\* The gateway runs without suspending: it refuses before the provider is
\* called, or the provider fails, or the provider accepts.  It is "absent" when
\* building it or its request raises: no handler catches that, and the status
\* stays at DISPATCHING.
GatewayOutcomes == {"absent", "refused", "failed", "accepted"}

Called(outcome) == outcome \in {"failed", "accepted"}

\* Faulty variants: the status after the gateway call is not written, or is
\* the status of the ledger record.
StatusKept(outcome) == "APPROVED"

StatusOfLedger(outcome) == IF outcome = "accepted" THEN "SUCCESS" ELSE "PROVIDER_ERROR"

AfterGateway(outcome) ==
    CASE outcome = "accepted" -> "SUCCEEDED"
      [] outcome = "absent" -> "DISPATCHING"
      [] OTHER -> "PROVIDER_FAILED"

\* A failure is answered with an error; a success goes on to record its intent.
AfterDispatch(s, outcome) == IF outcome = "accepted" THEN Goto(s, "intent") ELSE Free(s)

\* Faulty variant: the tenant of a cached record is not compared.
DispatchAnyTenant(s, w, a) ==
    /\ cache[w][a] = "APPROVED"
    /\ a \notin expired
    /\ SetCache(w, a, "SUCCEEDED")
    /\ cacheCalls' = [cacheCalls EXCEPT ![a] = Tally(@)]
    /\ Goto(s, "intent")

DispatchCached(s, w, a) ==
    /\ cache[w][a] = "APPROVED"
    /\ a \notin expired
    /\ TenantOf[slot[s].p] = Owner(a)
    /\ \E outcome \in GatewayOutcomes :
          /\ SetCache(w, a, AfterGateway(outcome))
          /\ cacheCalls' = [cacheCalls EXCEPT ![a] = IF Called(outcome) THEN Tally(@) ELSE @]
          /\ AfterDispatch(s, outcome)

\* The first segment after the kill switch reads: the stored response of the
\* key if there is one, then the record, then every check on a cached record
\* and the gateway call.
Admit(s) ==
    LET w == slot[s].w
        a == slot[s].a
        replayed == intentCache[w][KeyOf(s)] # None
        lapsed == cache[w][a] = "APPROVED" /\ a \in expired /\ TenantOf[slot[s].p] = Owner(a)
    IN
    /\ At(s, "admitted")
    /\ \/ /\ ~replayed
          /\ DispatchCached(s, w, a)
       \/ /\ ~replayed /\ ~InCache(w, a)
          /\ Goto(s, "fetch")
          /\ UNCHANGED <<cache, cacheCalls>>
       \/ /\ ~replayed /\ lapsed
          /\ SetCache(w, a, "EXPIRED")
          /\ Free(s)
          /\ UNCHANGED cacheCalls
       \/ /\ \/ replayed
             \/ InCache(w, a) /\ (cache[w][a] # "APPROVED" \/ TenantOf[slot[s].p] # Owner(a))
          /\ Free(s)
          /\ UNCHANGED <<cache, cacheCalls>>
    /\ UNCHANGED <<row, expired, switches, intentRow, intentCache, signed, rowCalls>>

DispatchFetch(s) == FetchRow(s, "fetch", "dispatch")

\* The checks and the gateway call on a private copy of the row: the new
\* status is written to the copy and is gone when the request ends.
DispatchFromRow(s) ==
    /\ At(s, "dispatch")
    /\ \/ /\ slot[s].rec = "APPROVED"
          /\ slot[s].a \notin expired
          /\ \E outcome \in GatewayOutcomes :
                /\ rowCalls' = [rowCalls EXCEPT ![slot[s].a] =
                                   IF Called(outcome) THEN Tally(@) ELSE @]
                /\ AfterDispatch(s, outcome)
       \/ /\ slot[s].rec # "APPROVED" \/ slot[s].a \in expired
          /\ Free(s)
          /\ UNCHANGED rowCalls
    /\ UNCHANGED <<expired, database, memory, signed, cacheCalls>>

\* INSERT ... ON CONFLICT (tenant_id, idempotency_key) keeps the first row.
InsertIntent(s) ==
    /\ At(s, "intent")
    /\ intentRow' = [intentRow EXCEPT ![KeyOf(s)] = IF @ = None THEN slot[s].a ELSE @]
    /\ Goto(s, "respond")
    /\ UNCHANGED <<row, expired, switches, memory, history>>

Respond(s) ==
    /\ At(s, "respond")
    /\ intentCache' = [intentCache EXCEPT ![slot[s].w][KeyOf(s)] = slot[s].a]
    /\ Free(s)
    /\ UNCHANGED <<cache, expired, database, history>>

-----------------------------------------------------------------------------
(* The environment.                                                        *)

\* The awaited statement raises, before or after it took effect: the handler
\* ends with an error and undoes nothing.
RequestFails(s) ==
    /\ slot[s] # Idle
    /\ Free(s)
    /\ UNCHANGED <<expired, database, memory, history>>

\* A worker process dies and comes back: its dictionaries and its requests are gone.
Restart(w) ==
    /\ cache' = [cache EXCEPT ![w] = [a \in Approvals |-> "ABSENT"]]
    /\ intentCache' = [intentCache EXCEPT ![w] = [i \in KeyIds |-> None]]
    /\ slot' = [s \in Slots |->
                   IF slot[s] # Idle /\ slot[s].w = w THEN Idle ELSE slot[s]]
    /\ UNCHANGED <<expired, database, history>>

Expire(a) ==
    /\ row[a] # "ABSENT"
    /\ expired' = expired \cup {a}
    /\ UNCHANGED <<database, memory, slot, history>>

\* POST /actions/kill-switch closes {Global}, or {t} for scope TENANT with target
\* t, or Tenants for TENANT without a target.  The API never disengages one.
EngageKillSwitch(scopes) ==
    /\ switches' = switches \cup scopes
    /\ UNCHANGED <<row, intentRow, expired, memory, slot, history>>

-----------------------------------------------------------------------------

SlotStep(s) ==
    \/ GrantFetch(s) \/ GrantDecide(s) \/ GrantUpdate(s)
    \/ RejectUpdate(s)
    \/ ReadGlobalSwitch(s) \/ ReadTenantSwitch(s) \/ Admit(s)
    \/ DispatchFetch(s) \/ DispatchFromRow(s) \/ InsertIntent(s) \/ Respond(s)
    \/ RequestFails(s)

Next ==
    \/ \E w \in Workers, a \in Approvals : CreateApproval(w, a)
    \/ \E s \in Slots, w \in Workers, p \in Principals, a \in Approvals :
          GrantStart(s, w, p, a) \/ RejectStart(s, w, p, a)
    \/ \E s \in Slots, w \in Workers, p \in Operators, a \in Approvals, k \in Keys :
          DispatchStart(s, w, p, a, k)
    \/ \E s \in Slots : SlotStep(s)
    \/ \E w \in Workers : Restart(w)
    \/ \E a \in Approvals : Expire(a)
    \/ \E scopes \in SwitchScopes : EngageKillSwitch(scopes)

Spec == Init /\ [][Next]_vars

-----------------------------------------------------------------------------
(* What the code promises.                                                 *)

ProviderCalled(a) == cacheCalls[a] + rowCalls[a] > 0

\* No provider call without a signature: whichever worker dispatches, from
\* whichever copy of the record, somebody of the approval's tenant with the
\* tier and the spend ceiling it needs has approved it before (steps 2, 6 of
\* grant_approval against step 3 of dispatch_action).
CallsAreSigned ==
    \A a \in Approvals : ProviderCalled(a) => \E p \in signed[a] : Authorised(p, a)

\* A cached record authorises one provider call at most, whatever requests,
\* failures and restarts surround it: the status written by dispatch_action
\* before its next await closes it for good.
CachedRecordCallsOnce == \A a \in Approvals : cacheCalls[a] <= 1

\* A call made from a fetched record is backed by the row for ever: no later
\* rejection can overtake it (the WHERE status = 'PENDING' of both UPDATEs).
RowCallsAreDurable ==
    \A a \in Approvals : rowCalls[a] > 0 => row[a] = "APPROVED"

\* A request that arrived when its tenant was halted never gets past the kill
\* switch reads, so it can neither call the provider nor record an intent.
HaltedRequestsStop ==
    \A s \in Slots :
        slot[s] # Idle /\ slot[s].halted =>
            slot[s].pc \notin {"admitted", "fetch", "dispatch", "intent", "respond"}

\* A response is only replayed for an action whose provider call was made, by
\* the tenant that owns the approval, and after the intent row was written.
ReplaysAreOfExecutedActions ==
    \A w \in Workers, i \in KeyIds :
        intentCache[w][i] # None =>
            /\ ProviderCalled(intentCache[w][i])
            /\ Owner(intentCache[w][i]) = i[1]
            /\ intentRow[i] # None

\* A decision is final: once a row is APPROVED or REJECTED no interleaving of
\* approvals, rejections and failures on any worker changes it.
DecisionsAreFinal ==
    [][\A a \in Approvals : row[a] \in {"APPROVED", "REJECTED"} => row'[a] = row[a]]_vars

-----------------------------------------------------------------------------
(* What the documents say, and the code does not do.                       *)

\* INV-ACT-002 and the idempotency contract of the dispatch endpoint: an
\* approval leads to one provider call at most.
ExecutedAtMostOnce == \A a \in Approvals : cacheCalls[a] + rowCalls[a] <= 1

\* "Separation of duties strictly enforced (requester != approver)".
SeparationOfDuties == \A a \in Approvals : Requester[a] \notin signed[a]

=============================================================================
