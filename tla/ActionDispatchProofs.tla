------------------------ MODULE ActionDispatchProofs ------------------------
(***************************************************************************)
(* Proofs about ActionDispatch for every set of workers, request slots,    *)
(* approvals, keys and principals.                                         *)
(***************************************************************************)
EXTENDS ActionDispatch, TLAPS

-----------------------------------------------------------------------------
(* Types.                                                                  *)

\* A slot in a phase holds a request.
LEMMA SlotIsRequest ==
    ASSUME TypeOK, NEW s \in Slots, slot[s].pc # "idle"
    PROVE  slot[s] \in Request
BY DEF TypeOK, Idle

\* A request that begins is a request.
LEMMA BeginType ==
    ASSUME TypeOK, NEW s \in Slots, NEW pc \in Phases, NEW w \in Workers, NEW p \in Principals,
           NEW a \in Approvals, NEW k \in Keys \cup {None}, NEW h \in BOOLEAN,
           Begin(s, pc, w, p, a, k, h)
    PROVE  slot' \in [Slots -> Request \cup {Idle}]
<1>1. [pc |-> pc, w |-> w, p |-> p, a |-> a, k |-> k, rec |-> "ABSENT", halted |-> h] \in Request
  BY DEF Request, RowStatus
<1> QED
  BY <1>1 DEF Begin, TypeOK

\* A request that moves on is a request.
LEMMA GotoType ==
    ASSUME TypeOK, NEW s \in Slots, NEW pc \in Phases, slot[s].pc # "idle", Goto(s, pc)
    PROVE  slot' \in [Slots -> Request \cup {Idle}]
<1>1. slot[s] \in Request
  BY SlotIsRequest
<1>2. [slot[s] EXCEPT !.pc = pc] \in Request
  BY <1>1 DEF Request
<1> QED
  BY <1>2 DEF Goto, TypeOK

\* A request that has read the row of its approval is a request.
LEMMA FetchType ==
    ASSUME TypeOK, NEW s \in Slots, NEW pc \in Phases, slot[s].pc # "idle",
           slot' = [slot EXCEPT ![s].pc = pc, ![s].rec = row[slot[s].a]]
    PROVE  slot' \in [Slots -> Request \cup {Idle}]
<1>1. slot[s] \in Request
  BY SlotIsRequest
<1>2. row[slot[s].a] \in RowStatus
  BY <1>1 DEF Request, TypeOK
<1>3. [slot[s] EXCEPT !.pc = pc, !.rec = row[slot[s].a]] \in Request
  BY <1>1, <1>2 DEF Request
<1> QED
  BY <1>3 DEF TypeOK

\* So is the slot of one that ends.
LEMMA FreeType ==
    ASSUME TypeOK, NEW s \in Slots, Free(s)
    PROVE  slot' \in [Slots -> Request \cup {Idle}]
BY DEF Free, TypeOK

\* A worker that writes the status of a record keeps a dictionary of statuses.
LEMMA CacheType ==
    ASSUME TypeOK, NEW w \in Workers, NEW a \in Approvals, NEW status \in CacheStatus,
           SetCache(w, a, status)
    PROVE  cache' \in [Workers -> [Approvals -> CacheStatus]]
<1>1. [cache[w] EXCEPT ![a] = status] \in [Approvals -> CacheStatus]
  BY DEF TypeOK
<1> QED
  BY <1>1 DEF SetCache, TypeOK

\* A principal who signs an approval joins its signatories.
LEMMA SignType ==
    ASSUME TypeOK, NEW a \in Approvals, NEW p \in Principals,
           signed' = [signed EXCEPT ![a] = @ \cup {p}]
    PROVE  signed' \in [Approvals -> SUBSET Principals]
<1>1. signed[a] \cup {p} \in SUBSET Principals
  BY DEF TypeOK
<1> QED
  BY <1>1 DEF TypeOK

\* The variables keep their types: every request in flight names a worker, a
\* caller and an approval that exist, and every status is one of the declared.
THEOREM TypeCorrect == Spec => []TypeOK
<1>1. Init => TypeOK
  BY DEF Init, TypeOK, KeyIds, RowStatus, CacheStatus
<1>2. TypeOK /\ [Next]_vars => TypeOK'
  <2> SUFFICES ASSUME TypeOK, [Next]_vars PROVE TypeOK'
    OBVIOUS
  <2> USE ConstantsAssumption DEF TypeOK
  <2>1. ASSUME NEW w \in Workers, NEW a \in Approvals, CreateApproval(w, a)
        PROVE  TypeOK'
    BY <2>1 DEF CreateApproval, SetCache, history, CacheStatus, RowStatus
  <2>2. ASSUME NEW s \in Slots, NEW w \in Workers, NEW p \in Principals, NEW a \in Approvals,
               GrantStart(s, w, p, a)
        PROVE  TypeOK'
    <3>1. slot' \in [Slots -> Request \cup {Idle}]
      BY <2>2, BeginType DEF GrantStart, Phases
    <3>2. /\ cache' \in [Workers -> [Approvals -> CacheStatus]]
          /\ signed' \in [Approvals -> SUBSET Principals]
      BY <2>2, CacheType, SignType DEF GrantStart, CacheStatus, RowStatus
    <3> QED
      BY <2>2, <3>1, <3>2 DEF GrantStart
  <2>3. ASSUME NEW s \in Slots, NEW w \in Workers, NEW p \in Principals, NEW a \in Approvals,
               RejectStart(s, w, p, a)
        PROVE  TypeOK'
    <3>1. slot' \in [Slots -> Request \cup {Idle}]
      BY <2>3, BeginType DEF RejectStart, Phases
    <3> QED
      BY <2>3, <3>1 DEF RejectStart, history, CacheStatus, RowStatus
  <2>4. ASSUME NEW s \in Slots, NEW w \in Workers, NEW p \in Operators, NEW a \in Approvals,
               NEW k \in Keys, DispatchStart(s, w, p, a, k)
        PROVE  TypeOK'
    <3>1. p \in Principals /\ Engaged(p) \in BOOLEAN
      BY DEF Engaged
    <3>2. slot' \in [Slots -> Request \cup {Idle}]
      BY <2>4, <3>1, BeginType DEF DispatchStart, Phases
    <3> QED
      BY <2>4, <3>2 DEF DispatchStart, history, database, memory
  <2>5. ASSUME NEW s \in Slots, SlotStep(s)
        PROVE  TypeOK'
    <3>1. CASE GrantFetch(s)
      BY <3>1, FetchType, FreeType DEF GrantFetch, FetchRow, Phases, At, history, database, memory
    <3>2. CASE GrantDecide(s)
      BY <3>2, GotoType, FreeType DEF GrantDecide, Phases, At, history, database, memory
    <3>3. CASE GrantUpdate(s)
      <4>1. slot[s] \in Request
        BY <3>3, SlotIsRequest DEF GrantUpdate, At
      <4>2. slot[s].a \in Approvals /\ slot[s].p \in Principals
        BY <4>1 DEF Request
      <4>3. slot' \in [Slots -> Request \cup {Idle}]
        BY <3>3, FreeType DEF GrantUpdate
      <4>4. row' \in [Approvals -> RowStatus]
        BY <3>3, <4>2 DEF GrantUpdate, RowStatus
      <4>5. signed' \in [Approvals -> SUBSET Principals]
        BY <3>3, <4>2, SignType DEF GrantUpdate
      <4> QED
        BY <3>3, <4>3, <4>4, <4>5 DEF GrantUpdate
    <3>4. CASE RejectUpdate(s)
      BY <3>4, FreeType DEF RejectUpdate, RowStatus, memory, history
    <3>5. CASE ReadGlobalSwitch(s)
      BY <3>5, GotoType, FreeType DEF ReadGlobalSwitch, Phases, At, history, database, memory
    <3>6. CASE ReadTenantSwitch(s)
      BY <3>6, GotoType, FreeType DEF ReadTenantSwitch, Phases, At, history, database, memory
    <3>7. CASE Admit(s)
      <4>1. slot[s] \in Request
        BY <3>7, SlotIsRequest DEF Admit, At
      <4>2. slot[s].a \in Approvals /\ slot[s].w \in Workers
        BY <4>1 DEF Request
      <4>3. slot' \in [Slots -> Request \cup {Idle}]
        BY <3>7, GotoType, FreeType DEF Admit, DispatchCached, AfterDispatch, At, Phases
      <4>4. cache' \in [Workers -> [Approvals -> CacheStatus]]
        BY <3>7, <4>2, CacheType DEF Admit, DispatchCached, AfterGateway, CacheStatus
      <4>5. cacheCalls' \in [Approvals -> 0..2]
        BY <3>7, <4>2 DEF Admit, DispatchCached, Tally
      <4> QED
        BY <3>7, <4>3, <4>4, <4>5 DEF Admit
    <3>8. CASE DispatchFetch(s)
      BY <3>8, FetchType, FreeType DEF DispatchFetch, FetchRow, Phases, At, history, database, memory
    <3>9. CASE DispatchFromRow(s)
      <4>1. slot' \in [Slots -> Request \cup {Idle}]
        BY <3>9, GotoType, FreeType DEF DispatchFromRow, AfterDispatch, At, Phases
      <4>2. rowCalls' \in [Approvals -> 0..2]
        BY <3>9 DEF DispatchFromRow, Tally
      <4> QED
        BY <3>9, <4>1, <4>2 DEF DispatchFromRow, database, memory
    <3>10. CASE InsertIntent(s)
      <4>1. slot[s] \in Request
        BY <3>10, SlotIsRequest DEF InsertIntent, At
      <4>2. slot[s].a \in Approvals
        BY <4>1 DEF Request
      <4>3. slot' \in [Slots -> Request \cup {Idle}]
        BY <3>10, GotoType DEF InsertIntent, At, Phases
      <4> QED
        BY <3>10, <4>2, <4>3 DEF InsertIntent, memory, history
    <3>11. CASE Respond(s)
      <4>1. slot[s] \in Request
        BY <3>11, SlotIsRequest DEF Respond, At
      <4>2. slot[s].a \in Approvals
        BY <4>1 DEF Request
      <4>3. slot' \in [Slots -> Request \cup {Idle}]
        BY <3>11, FreeType DEF Respond
      <4>4. intentCache' \in [Workers -> [KeyIds -> Approvals \cup {None}]]
        BY <3>11, <4>2 DEF Respond
      <4> QED
        BY <3>11, <4>3, <4>4 DEF Respond, database, history
    <3>12. CASE RequestFails(s)
      BY <3>12, FreeType DEF RequestFails, database, memory, history
    <3> QED
      BY <2>5, <3>1, <3>2, <3>3, <3>4, <3>5, <3>6, <3>7, <3>8, <3>9, <3>10, <3>11, <3>12
      DEF SlotStep
  <2>6. ASSUME NEW w \in Workers, Restart(w)
        PROVE  TypeOK'
    BY <2>6 DEF Restart, history, database, CacheStatus, RowStatus, KeyIds
  <2>7. ASSUME NEW a \in Approvals, Expire(a)
        PROVE  TypeOK'
    BY <2>7 DEF Expire, history, database, memory
  <2>8. ASSUME NEW scopes \in SwitchScopes, EngageKillSwitch(scopes)
        PROVE  TypeOK'
    BY <2>8 DEF EngageKillSwitch, history, memory
  <2>9. CASE UNCHANGED vars
    BY <2>9 DEF vars
  <2> QED
    BY <2>1, <2>2, <2>3, <2>4, <2>5, <2>6, <2>7, <2>8, <2>9 DEF Next
<1> QED
  BY <1>1, <1>2, PTL DEF Spec

-----------------------------------------------------------------------------
(* The strengthened invariants.                                            *)

SignedFor(a) == \E p \in signed[a] : Authorised(p, a)

\* Whatever may lead to a provider call has been signed: an approved row, an
\* approved cached record, a row about to be approved, a copy of an approved row.
Signatures ==
    /\ \A a \in Approvals : row[a] = "APPROVED" => SignedFor(a)
    /\ \A w \in Workers, a \in Approvals : cache[w][a] = "APPROVED" => SignedFor(a)
    /\ \A s \in Slots : At(s, "grantUpdate") => Authorised(slot[s].p, slot[s].a)
    /\ \A s \in Slots :
          At(s, "dispatch") /\ slot[s].rec = "APPROVED" => row[slot[s].a] = "APPROVED"
    /\ \A a \in Approvals : ProviderCalled(a) => SignedFor(a)
    /\ RowCallsAreDurable

\* A record lives in the cache of one worker, for an approval that has a row,
\* and is only PENDING or APPROVED while no call has been made from it.
OneRecord ==
    /\ \A a \in Approvals, v, w \in Workers : InCache(v, a) /\ InCache(w, a) => v = w
    /\ \A a \in Approvals, w \in Workers : InCache(w, a) => row[a] # "ABSENT"
    /\ \A a \in Approvals : row[a] = "ABSENT" => cacheCalls[a] = 0
    /\ \A a \in Approvals, w \in Workers :
          cache[w][a] \in {"PENDING", "APPROVED"} => cacheCalls[a] = 0
    /\ CachedRecordCallsOnce

\* The switches that were engaged when a request arrived are still engaged.
Halts ==
    /\ HaltedRequestsStop
    /\ \A s \in Slots :
          slot[s] # Idle /\ slot[s].halted =>
              \/ TenantOf[slot[s].p] \in switches
              \/ Global \in switches /\ slot[s].pc # "ksTenant"

\* What a dispatch request has established at each of its awaits.
Dispatches ==
    /\ ReplaysAreOfExecutedActions
    /\ \A s \in Slots :
          slot[s].pc \in {"ksGlobal", "ksTenant", "admitted", "fetch", "dispatch", "intent", "respond"}
              => slot[s].k \in Keys
    /\ \A s \in Slots :
          slot[s].pc \in {"dispatch", "intent", "respond"}
              => TenantOf[slot[s].p] = Owner(slot[s].a)
    /\ \A s \in Slots :
          slot[s].pc \in {"intent", "respond"} => ProviderCalled(slot[s].a)
    /\ \A s \in Slots : slot[s].pc = "respond" => intentRow[KeyOf(s)] # None

-----------------------------------------------------------------------------
(* What the slot helpers do to the requests.                               *)

\* Only the slot of the request changes when it begins.
LEMMA BeginEffect ==
    ASSUME TypeOK, NEW s \in Slots, NEW pc, NEW w, NEW p, NEW a, NEW k, NEW h,
           Begin(s, pc, w, p, a, k, h)
    PROVE  /\ slot'[s] = [pc |-> pc, w |-> w, p |-> p, a |-> a, k |-> k,
                          rec |-> "ABSENT", halted |-> h]
           /\ \A r \in Slots : r # s => slot'[r] = slot[r]
BY DEF Begin, TypeOK

\* A request that moves on keeps everything but its place.
LEMMA GotoEffect ==
    ASSUME TypeOK, NEW s \in Slots, NEW pc, slot[s].pc # "idle", Goto(s, pc)
    PROVE  /\ slot'[s].pc = pc
           /\ slot'[s].p = slot[s].p /\ slot'[s].a = slot[s].a /\ slot'[s].k = slot[s].k
           /\ slot'[s].w = slot[s].w /\ slot'[s].rec = slot[s].rec
           /\ slot'[s].halted = slot[s].halted
           /\ \A r \in Slots : r # s => slot'[r] = slot[r]
<1>1. slot[s] \in Request
  BY SlotIsRequest
<1> QED
  BY <1>1 DEF Goto, TypeOK, Request

\* A fetch that finds the row of the caller's tenant copies its status.
LEMMA FetchEffect ==
    ASSUME TypeOK, NEW s \in Slots, NEW here, here # "idle",
           NEW next, next # "idle", FetchRow(s, here, next)
    PROVE  /\ slot'[s].pc \in {"idle", next}
           /\ slot'[s].pc # "idle" =>
                 /\ slot'[s].p = slot[s].p /\ slot'[s].a = slot[s].a /\ slot'[s].k = slot[s].k
                 /\ slot'[s].halted = slot[s].halted
                 /\ slot'[s].rec = row[slot[s].a]
                 /\ TenantOf[slot[s].p] = Owner(slot[s].a)
           /\ slot'[s].pc = "idle" => slot'[s] = Idle
           /\ \A r \in Slots : r # s => slot'[r] = slot[r]
<1>1. slot[s] \in Request
  BY SlotIsRequest DEF FetchRow, At
<1> QED
  <2>1. CASE Visible(slot[s].p, slot[s].a)
    BY <1>1, <2>1 DEF FetchRow, Visible, TypeOK, Request
  <2>2. CASE ~Visible(slot[s].p, slot[s].a)
    BY <2>2 DEF FetchRow, Free, Idle, TypeOK
  <2> QED
    BY <2>1, <2>2

\* A request that ends leaves its slot idle.
LEMMA FreeEffect ==
    ASSUME TypeOK, NEW s \in Slots, Free(s)
    PROVE  /\ slot'[s] = Idle /\ slot'[s].pc = "idle"
           /\ \A r \in Slots : r # s => slot'[r] = slot[r]
BY DEF Free, Idle, TypeOK

-----------------------------------------------------------------------------
(* Provider calls are signed, and durable when made from the row.          *)

\* Steps that approve nothing and move no request to a place that matters.
SignsNothing ==
    /\ UNCHANGED <<row, signed, cacheCalls, rowCalls>>
    /\ \A w \in Workers, a \in Approvals : cache'[w][a] = "APPROVED" => cache[w][a] = "APPROVED"
    /\ \A s \in Slots : slot'[s].pc \in {"grantUpdate", "dispatch"} => slot'[s] = slot[s]

\* Such a step keeps every signature where it is needed.
LEMMA SignsNothingStep ==
    ASSUME Signatures, SignsNothing
    PROVE  Signatures'
<1>1. \A a \in Approvals : SignedFor(a)' <=> SignedFor(a)
  BY DEF SignsNothing, SignedFor, Authorised, HasAuthority, Owner, SpendLimit
<1>2. \A s \in Slots : At(s, "grantUpdate")' => Authorised(slot[s].p, slot[s].a)'
  BY DEF SignsNothing, Signatures, At, Authorised, HasAuthority, Owner, SpendLimit
<1>3. \A s \in Slots :
         At(s, "dispatch")' /\ slot'[s].rec = "APPROVED" => row'[slot'[s].a] = "APPROVED"
  BY DEF SignsNothing, Signatures, At
<1>4. \A a \in Approvals : /\ row'[a] = "APPROVED" => SignedFor(a)'
                           /\ ProviderCalled(a)' => SignedFor(a)'
                           /\ \A w \in Workers : cache'[w][a] = "APPROVED" => SignedFor(a)'
  BY <1>1 DEF SignsNothing, Signatures, ProviderCalled
<1>5. RowCallsAreDurable'
  BY DEF SignsNothing, Signatures, RowCallsAreDurable
<1> QED
  BY <1>2, <1>3, <1>4, <1>5 DEF Signatures

\* Every handler segment keeps the signatures: an approval is written APPROVED
\* only after its approver has passed the checks of tenant, tier and ceiling.
LEMMA SignaturesStep == ASSUME TypeOK, Signatures, [Next]_vars PROVE Signatures'
<1>1. ASSUME NEW w \in Workers, NEW a \in Approvals, CreateApproval(w, a)
      PROVE  Signatures'
  BY <1>1 DEF CreateApproval, SetCache, history, TypeOK, Authorised, HasAuthority, Owner, SpendLimit,
     Signatures, SignedFor, ProviderCalled, RowCallsAreDurable, At
<1>2. ASSUME NEW s \in Slots, NEW w \in Workers, NEW p \in Principals, NEW a \in Approvals,
             GrantStart(s, w, p, a)
      PROVE  Signatures'
  <2>1. CASE SignsNothing
    BY <2>1, SignsNothingStep
  <2>2. CASE /\ MayGrantCached(w, p, a)
             /\ SetCache(w, a, "APPROVED")
             /\ signed' = [signed EXCEPT ![a] = @ \cup {p}]
             /\ Begin(s, "grantUpdate", w, p, a, None, FALSE)
    <3>1. UNCHANGED <<row, cacheCalls, rowCalls>>
      BY <1>2 DEF GrantStart
    <3>2. Authorised(p, a)
      BY <2>2 DEF MayGrantCached
    <3>3. \A b \in Approvals : SignedFor(b) => SignedFor(b)'
      BY <2>2 DEF SignedFor, TypeOK, Authorised, HasAuthority, Owner, SpendLimit
    <3>4. SignedFor(a)'
      BY <2>2, <3>2 DEF SignedFor, TypeOK, Authorised, HasAuthority, Owner, SpendLimit
    <3>5. \A v \in Workers, b \in Approvals : cache'[v][b] = "APPROVED" => SignedFor(b)'
      BY <2>2, <3>3, <3>4 DEF SetCache, TypeOK, Signatures
    <3>0. /\ slot'[s].pc = "grantUpdate" /\ slot'[s].p = p /\ slot'[s].a = a
          /\ \A r \in Slots : r # s => slot'[r] = slot[r]
      BY <2>2 DEF Begin, TypeOK
    <3>6. \A r \in Slots : At(r, "grantUpdate")' => Authorised(slot[r].p, slot[r].a)'
      BY <3>0, <3>2 DEF Signatures, At, Authorised, HasAuthority, Owner, SpendLimit
    <3>7. \A r \in Slots :
             At(r, "dispatch")' /\ slot'[r].rec = "APPROVED" => row'[slot'[r].a] = "APPROVED"
      BY <3>0, <3>1 DEF Signatures, At
    <3> QED
      BY <3>1, <3>3, <3>5, <3>6, <3>7 DEF Signatures, ProviderCalled, RowCallsAreDurable
  <2>3. CASE SetCache(w, a, "EXPIRED") /\ UNCHANGED <<signed, slot>>
    <3>1. SignsNothing
      BY <1>2, <2>3 DEF SignsNothing, GrantStart, SetCache, TypeOK
    <3> QED
      BY <3>1, SignsNothingStep
  <2>4. CASE Begin(s, "grantFetch", w, p, a, None, FALSE) /\ UNCHANGED <<signed, cache>>
    <3>1. slot'[s].pc = "grantFetch" /\ \A r \in Slots : r # s => slot'[r] = slot[r]
      BY <2>4 DEF Begin, TypeOK
    <3>2. SignsNothing
      BY <1>2, <2>4, <3>1 DEF SignsNothing, GrantStart
    <3> QED
      BY <3>2, SignsNothingStep
  <2> QED
    BY <1>2, <2>2, <2>3, <2>4 DEF GrantStart
<1>3. ASSUME NEW s \in Slots, NEW w \in Workers, NEW p \in Principals, NEW a \in Approvals,
             RejectStart(s, w, p, a)
      PROVE  Signatures'
  <2>1. slot'[s].pc = "rejectUpdate" /\ \A r \in Slots : r # s => slot'[r] = slot[r]
    BY <1>3 DEF RejectStart, Begin, TypeOK
  <2>2. \A v \in Workers, b \in Approvals : cache'[v][b] = "APPROVED" => cache[v][b] = "APPROVED"
    BY <1>3 DEF RejectStart, TypeOK
  <2>3. SignsNothing
    BY <1>3, <2>1, <2>2 DEF SignsNothing, RejectStart, history
  <2> QED
    BY <2>3, SignsNothingStep
<1>4. ASSUME NEW s \in Slots, NEW w \in Workers, NEW p \in Operators, NEW a \in Approvals,
             NEW k \in Keys, DispatchStart(s, w, p, a, k)
      PROVE  Signatures'
  <2>1. slot'[s].pc = "ksGlobal" /\ \A r \in Slots : r # s => slot'[r] = slot[r]
    BY <1>4 DEF DispatchStart, Begin, TypeOK
  <2>2. SignsNothing
    BY <1>4, <2>1 DEF SignsNothing, DispatchStart, history, database, memory
  <2> QED
    BY <2>2, SignsNothingStep
<1>5. ASSUME NEW s \in Slots, SlotStep(s)
      PROVE  Signatures'
  <2>1. CASE GrantFetch(s)
    <3>1. SignsNothing
      BY <2>1, FetchEffect DEF SignsNothing, GrantFetch, FetchRow, history, database, memory
    <3> QED
      BY <3>1, SignsNothingStep
  <2>2. CASE GrantDecide(s)
    <3>1. UNCHANGED <<row, cache, signed, cacheCalls, rowCalls>>
      BY <2>2 DEF GrantDecide, history, database, memory
    <3>2. \A r \in Slots : At(r, "grantUpdate")' => Authorised(slot[r].p, slot[r].a)'
      BY <2>2, GotoEffect, FreeEffect
      DEF GrantDecide, Signatures, At, Authorised, HasAuthority, Owner, SpendLimit
    <3>3. \A r \in Slots : At(r, "dispatch")' => slot'[r] = slot[r]
      BY <2>2, GotoEffect, FreeEffect DEF GrantDecide, At
    <3> QED
      BY <3>1, <3>2, <3>3 DEF Signatures, SignedFor, ProviderCalled, RowCallsAreDurable, At,
         Authorised, HasAuthority, Owner, SpendLimit
  <2>3. CASE GrantUpdate(s)
    <3>1. CASE UNCHANGED <<row, signed>>
      <4>1. SignsNothing
        BY <2>3, <3>1, FreeEffect DEF SignsNothing, GrantUpdate
      <4> QED
        BY <4>1, SignsNothingStep
    <3>2. CASE /\ row' = [row EXCEPT ![slot[s].a] = "APPROVED"]
               /\ signed' = [signed EXCEPT ![slot[s].a] = @ \cup {slot[s].p}]
      <4>1. slot[s].a \in Approvals /\ slot[s].p \in Principals
        BY <2>3, SlotIsRequest DEF GrantUpdate, At, Request
      <4>2. Authorised(slot[s].p, slot[s].a)
        BY <2>3 DEF GrantUpdate, Signatures
      <4>3. \A b \in Approvals : SignedFor(b) => SignedFor(b)'
        BY <3>2, <4>1 DEF SignedFor, TypeOK, Authorised, HasAuthority, Owner, SpendLimit
      <4>4. \A b \in Approvals : b = slot[s].a => SignedFor(b)'
        <5>1. slot[s].p \in signed'[slot[s].a]
          BY <3>2, <4>1 DEF TypeOK
        <5> QED
          BY <4>2, <5>1 DEF SignedFor, Authorised, HasAuthority, Owner, SpendLimit
      <4>5. UNCHANGED <<cache, cacheCalls, rowCalls>>
        BY <2>3 DEF GrantUpdate
      <4>6. \A b \in Approvals : row'[b] = "APPROVED" => SignedFor(b)'
        BY <3>2, <4>1, <4>3, <4>4 DEF Signatures, TypeOK
      <4>7. \A b \in Approvals : row[b] = "APPROVED" => row'[b] = "APPROVED"
        BY <3>2, <4>1 DEF TypeOK
      <4>8. \A r \in Slots : slot'[r].pc # "idle" => slot'[r] = slot[r]
        BY <2>3, FreeEffect DEF GrantUpdate
      <4>9. \A r \in Slots : At(r, "dispatch") => slot[r].a \in Approvals
        BY SlotIsRequest DEF At, Request
      <4> QED
        BY <4>3, <4>5, <4>6, <4>7, <4>8, <4>9 DEF Signatures, ProviderCalled, RowCallsAreDurable, At,
           Authorised, HasAuthority, Owner, SpendLimit
    <3> QED
      BY <2>3, <3>1, <3>2 DEF GrantUpdate
  <2>4. CASE RejectUpdate(s)
    <3>1. \A b \in Approvals : row'[b] = "APPROVED" <=> row[b] = "APPROVED"
      BY <2>4 DEF RejectUpdate, RejectableRow, TypeOK
    <3>2. UNCHANGED <<cache, signed, cacheCalls, rowCalls>>
      BY <2>4 DEF RejectUpdate, memory, history
    <3>3. \A r \in Slots : slot'[r].pc # "idle" => slot'[r] = slot[r]
      BY <2>4, FreeEffect DEF RejectUpdate
    <3>4. \A r \in Slots : At(r, "dispatch") => slot[r].a \in Approvals
      BY SlotIsRequest DEF At, Request
    <3> QED
      BY <3>1, <3>2, <3>3, <3>4 DEF Signatures, SignedFor, ProviderCalled, RowCallsAreDurable, At,
         Authorised, HasAuthority, Owner, SpendLimit
  <2>5. CASE ReadGlobalSwitch(s)
    <3>1. SignsNothing
      BY <2>5, GotoEffect, FreeEffect
      DEF SignsNothing, ReadGlobalSwitch, At, history, database, memory
    <3> QED
      BY <3>1, SignsNothingStep
  <2>6. CASE ReadTenantSwitch(s)
    <3>1. SignsNothing
      BY <2>6, GotoEffect, FreeEffect
      DEF SignsNothing, ReadTenantSwitch, At, history, database, memory
    <3> QED
      BY <3>1, SignsNothingStep
  <2>7. CASE Admit(s)
    <3>1. UNCHANGED <<row, signed, rowCalls>>
      BY <2>7 DEF Admit
    <3>2. \A r \in Slots : slot'[r].pc \in {"grantUpdate", "dispatch"} => slot'[r] = slot[r]
      BY <2>7, GotoEffect, FreeEffect DEF Admit, DispatchCached, AfterDispatch, At
    <3>3. slot[s].a \in Approvals /\ slot[s].w \in Workers
      BY <2>7, SlotIsRequest DEF Admit, At, Request
    <3>4. \A w \in Workers, a \in Approvals : cache'[w][a] = "APPROVED" => cache[w][a] = "APPROVED"
      <4>1. \/ UNCHANGED cache
            \/ \E status \in {"SUCCEEDED", "DISPATCHING", "PROVIDER_FAILED", "EXPIRED"} :
                  SetCache(slot[s].w, slot[s].a, status)
        BY <2>7 DEF Admit, DispatchCached, AfterGateway
      <4>2. ASSUME NEW status, status # "APPROVED", SetCache(slot[s].w, slot[s].a, status),
                   NEW w \in Workers, NEW a \in Approvals, cache'[w][a] = "APPROVED"
            PROVE  cache[w][a] = "APPROVED"
        BY <3>3, <4>2 DEF SetCache, TypeOK
      <4> QED
        BY <4>1, <4>2
    <3>5. CASE UNCHANGED cacheCalls
      BY <3>1, <3>2, <3>4, <3>5, SignsNothingStep DEF SignsNothing
    <3>6. CASE DispatchCached(s, slot[s].w, slot[s].a)
      <4>1. SignedFor(slot[s].a)
        BY <3>3, <3>6 DEF DispatchCached, Signatures
      <4>2. \A b \in Approvals : b # slot[s].a => cacheCalls'[b] = cacheCalls[b]
        BY <3>3, <3>6 DEF DispatchCached, TypeOK
      <4> QED
        BY <3>1, <3>2, <3>4, <4>1, <4>2 DEF Signatures, SignedFor, ProviderCalled,
           RowCallsAreDurable, At, Authorised, HasAuthority, Owner, SpendLimit
    <3> QED
      BY <2>7, <3>5, <3>6 DEF Admit
  <2>8. CASE DispatchFetch(s)
    <3>1. UNCHANGED <<row, cache, signed, cacheCalls, rowCalls>>
      BY <2>8 DEF DispatchFetch, FetchRow, history, database, memory
    <3>2. \A r \in Slots : At(r, "grantUpdate")' => slot'[r] = slot[r]
      BY <2>8, FetchEffect DEF DispatchFetch, At
    <3>3. \A r \in Slots :
             At(r, "dispatch")' /\ slot'[r].rec = "APPROVED" => row'[slot'[r].a] = "APPROVED"
      BY <2>8, <3>1, FetchEffect DEF DispatchFetch, At, Signatures
    <3> QED
      BY <3>1, <3>2, <3>3 DEF Signatures, SignedFor, ProviderCalled, RowCallsAreDurable, At,
         Authorised, HasAuthority, Owner, SpendLimit
  <2>9. CASE DispatchFromRow(s)
    <3>1. UNCHANGED <<row, cache, signed, cacheCalls>>
      BY <2>9 DEF DispatchFromRow, database, memory
    <3>2. \A r \in Slots : slot'[r].pc \in {"grantUpdate", "dispatch"} => slot'[r] = slot[r]
      BY <2>9, GotoEffect, FreeEffect DEF DispatchFromRow, AfterDispatch, At
    <3>3. slot[s].a \in Approvals
      BY <2>9, SlotIsRequest DEF DispatchFromRow, At, Request
    <3>4. CASE UNCHANGED rowCalls
      BY <3>1, <3>2, <3>4, SignsNothingStep DEF SignsNothing
    <3>5. CASE slot[s].rec = "APPROVED"
      <4>1. row[slot[s].a] = "APPROVED"
        BY <2>9, <3>5 DEF DispatchFromRow, Signatures
      <4>2. SignedFor(slot[s].a)
        BY <3>3, <4>1 DEF Signatures
      <4>3. \A b \in Approvals : b # slot[s].a => rowCalls'[b] = rowCalls[b]
        BY <2>9, <3>3 DEF DispatchFromRow, TypeOK
      <4> QED
        BY <3>1, <3>2, <4>1, <4>2, <4>3 DEF Signatures, SignedFor, ProviderCalled,
           RowCallsAreDurable, At, Authorised, HasAuthority, Owner, SpendLimit
    <3> QED
      BY <2>9, <3>4, <3>5 DEF DispatchFromRow
  <2>10. CASE InsertIntent(s)
    <3>1. slot'[s].pc = "respond" /\ \A r \in Slots : r # s => slot'[r] = slot[r]
      BY <2>10, GotoEffect DEF InsertIntent, At
    <3>2. SignsNothing
      BY <2>10, <3>1 DEF SignsNothing, InsertIntent, memory, history
    <3> QED
      BY <3>2, SignsNothingStep
  <2>11. CASE Respond(s)
    <3>1. SignsNothing
      BY <2>11, FreeEffect DEF SignsNothing, Respond, database, history
    <3> QED
      BY <3>1, SignsNothingStep
  <2>12. CASE RequestFails(s)
    <3>1. SignsNothing
      BY <2>12, FreeEffect DEF SignsNothing, RequestFails, database, memory, history
    <3> QED
      BY <3>1, SignsNothingStep
  <2> QED
    BY <1>5, <2>1, <2>2, <2>3, <2>4, <2>5, <2>6, <2>7, <2>8, <2>9, <2>10, <2>11, <2>12 DEF SlotStep
<1>6. ASSUME NEW w \in Workers, Restart(w)
      PROVE  Signatures'
  <2>1. SignsNothing
    BY <1>6 DEF SignsNothing, Restart, Idle, history, database, TypeOK
  <2> QED
    BY <2>1, SignsNothingStep
<1>7. CASE UNCHANGED <<row, cache, slot, history>>
  <2>1. SignsNothing
    BY <1>7 DEF SignsNothing, history
  <2> QED
    BY <2>1, SignsNothingStep
<1>8. ASSUME NEW a \in Approvals, Expire(a) PROVE Signatures'
  BY <1>7, <1>8 DEF Expire, database, memory
<1>9. ASSUME NEW scopes, EngageKillSwitch(scopes) PROVE Signatures'
  BY <1>7, <1>9 DEF EngageKillSwitch, memory
<1>10. CASE UNCHANGED vars
  BY <1>7, <1>10 DEF vars, history
<1> QED
  BY <1>1, <1>2, <1>3, <1>4, <1>5, <1>6, <1>8, <1>9, <1>10 DEF Next

\* Whatever may lead to a provider call is signed in every reachable state.
LEMMA SignaturesCorrect == Spec => []Signatures
<1>1. Init => Signatures
  BY DEF Init, Signatures, ProviderCalled, RowCallsAreDurable, At, Idle
<1>2. TypeOK /\ Signatures /\ [Next]_vars => Signatures'
  BY SignaturesStep
<1> QED
  BY <1>1, <1>2, TypeCorrect, PTL DEF Spec

\* The provider is only called for an approval that somebody of its tenant,
\* with the tier and the spend ceiling it needs, has approved.
THEOREM CallsSigned == Spec => []CallsAreSigned
<1>1. Signatures => CallsAreSigned
  BY DEF Signatures, SignedFor, CallsAreSigned
<1> QED
  BY <1>1, SignaturesCorrect, PTL

\* The row behind a call made from a fetched record stays APPROVED.
THEOREM RowCallsDurable == Spec => []RowCallsAreDurable
<1>1. Signatures => RowCallsAreDurable
  BY DEF Signatures
<1> QED
  BY <1>1, SignaturesCorrect, PTL

\* No statement of any request changes a row that has been decided.
THEOREM FinalDecisions == Spec => DecisionsAreFinal
<1> DEFINE Final == \A a \in Approvals : row[a] \in {"APPROVED", "REJECTED"} => row'[a] = row[a]
<1>1. TypeOK /\ [Next]_vars => [Final]_vars
  <2> SUFFICES ASSUME TypeOK, [Next]_vars PROVE Final
    OBVIOUS
  <2>1. ASSUME NEW w \in Workers, NEW a \in Approvals, CreateApproval(w, a)
        PROVE  Final
    BY <2>1 DEF CreateApproval, TypeOK
  <2>2. ASSUME NEW s \in Slots, GrantUpdate(s)
        PROVE  Final
    BY <2>2 DEF GrantUpdate, ApprovableRow, TypeOK
  <2>3. ASSUME NEW s \in Slots, RejectUpdate(s)
        PROVE  Final
    BY <2>3 DEF RejectUpdate, RejectableRow, TypeOK
  <2>4. CASE UNCHANGED row
    BY <2>4
  <2>5. ASSUME NEW s \in Slots, SlotStep(s)
        PROVE  Final
    BY <2>2, <2>3, <2>4, <2>5
    DEF SlotStep, GrantFetch, FetchRow, GrantDecide, ReadGlobalSwitch, ReadTenantSwitch, Admit,
        DispatchFetch, DispatchFromRow, InsertIntent, Respond, RequestFails, database
  <2>6. ASSUME NEW s \in Slots, NEW w \in Workers, NEW p, NEW a, NEW k,
               GrantStart(s, w, p, a) \/ RejectStart(s, w, p, a) \/ DispatchStart(s, w, p, a, k)
        PROVE  Final
    BY <2>4, <2>6 DEF GrantStart, RejectStart, DispatchStart, database
  <2>7. ASSUME NEW w, Restart(w) PROVE Final
    BY <2>4, <2>7 DEF Restart, database
  <2>8. ASSUME NEW a, Expire(a) PROVE Final
    BY <2>4, <2>8 DEF Expire, database
  <2>9. ASSUME NEW scopes, EngageKillSwitch(scopes) PROVE Final
    BY <2>4, <2>9 DEF EngageKillSwitch
  <2>10. CASE UNCHANGED vars
    BY <2>4, <2>10 DEF vars
  <2> QED
    BY <2>1, <2>5, <2>6, <2>7, <2>8, <2>9, <2>10 DEF Next
<1> QED
  BY <1>1, TypeCorrect, PTL DEF Spec, DecisionsAreFinal

-----------------------------------------------------------------------------
(* One provider call per cached record.                                    *)

\* Steps that make no call from a cached record and at most close records.
OpensNoRecord ==
    /\ UNCHANGED cacheCalls
    /\ \A a \in Approvals : row[a] # "ABSENT" => row'[a] # "ABSENT"
    /\ \A a \in Approvals : row'[a] = "ABSENT" => row[a] = "ABSENT"
    /\ \A w \in Workers, a \in Approvals : cache'[w][a] # "ABSENT" => cache[w][a] # "ABSENT"
    /\ \A w \in Workers, a \in Approvals :
          cache'[w][a] \in {"PENDING", "APPROVED"} => cache[w][a] \in {"PENDING", "APPROVED"}

\* Such a step keeps the records as they are described.
LEMMA OpensNoRecordStep ==
    ASSUME OneRecord, OpensNoRecord
    PROVE  OneRecord'
BY DEF OneRecord, OpensNoRecord, InCache, CachedRecordCallsOnce

\* Every handler segment keeps the records: only a call closes one that was
\* open, and it is closed for every worker because it lives in one cache.
LEMMA OneRecordStep == ASSUME TypeOK, OneRecord, [Next]_vars PROVE OneRecord'
<1>1. ASSUME NEW w \in Workers, NEW a \in Approvals, CreateApproval(w, a)
      PROVE  OneRecord'
  <2>1. /\ cacheCalls[a] = 0
        /\ \A v \in Workers : cache[v][a] = "ABSENT"
    BY <1>1 DEF CreateApproval, OneRecord, InCache
  <2>2. /\ \A v \in Workers, b \in Approvals : v # w \/ b # a => cache'[v][b] = cache[v][b]
        /\ \A b \in Approvals : b # a => row'[b] = row[b]
        /\ row'[a] = "PENDING" /\ cache'[w][a] = "PENDING"
        /\ cacheCalls' = cacheCalls
    BY <1>1 DEF CreateApproval, SetCache, TypeOK, history
  <2> QED
    BY <2>1, <2>2 DEF OneRecord, InCache, CachedRecordCallsOnce
<1>2. ASSUME NEW s \in Slots, NEW w \in Workers, NEW p \in Principals, NEW a \in Approvals,
             GrantStart(s, w, p, a)
      PROVE  OneRecord'
  <2>1. \/ UNCHANGED cache
        \/ cache[w][a] = "PENDING" /\ SetCache(w, a, "APPROVED")
        \/ cache[w][a] = "PENDING" /\ SetCache(w, a, "EXPIRED")
    BY <1>2 DEF GrantStart, MayGrantCached
  <2>2. UNCHANGED <<row, cacheCalls>>
    BY <1>2 DEF GrantStart
  <2>3. \A v \in Workers, b \in Approvals :
           \/ cache'[v][b] = cache[v][b]
           \/ cache[v][b] = "PENDING" /\ cache'[v][b] # "ABSENT"
    BY <2>1 DEF SetCache, TypeOK
  <2>4. OpensNoRecord
    BY <2>2, <2>3 DEF OpensNoRecord
  <2> QED
    BY <2>4, OpensNoRecordStep
<1>3. ASSUME NEW s \in Slots, NEW w \in Workers, NEW p \in Principals, NEW a \in Approvals,
             RejectStart(s, w, p, a)
      PROVE  OneRecord'
  <2>1. OpensNoRecord
    BY <1>3 DEF RejectStart, OpensNoRecord, InCache, TypeOK, history
  <2> QED
    BY <2>1, OpensNoRecordStep
<1>4. ASSUME NEW s \in Slots, GrantUpdate(s) \/ RejectUpdate(s)
      PROVE  OneRecord'
  <2>1. OpensNoRecord
    BY <1>4 DEF GrantUpdate, RejectUpdate, ApprovableRow, RejectableRow, Visible, OpensNoRecord,
       TypeOK, memory, history
  <2> QED
    BY <2>1, OpensNoRecordStep
<1>5. ASSUME NEW s \in Slots, Admit(s)
      PROVE  OneRecord'
  <2>1. slot[s].a \in Approvals /\ slot[s].w \in Workers
    BY <1>5, SlotIsRequest DEF Admit, At, Request
  <2>2. CASE DispatchCached(s, slot[s].w, slot[s].a)
    <3>1. PICK outcome \in GatewayOutcomes :
             /\ SetCache(slot[s].w, slot[s].a, AfterGateway(outcome))
             /\ cacheCalls' = [cacheCalls EXCEPT ![slot[s].a] =
                                  IF Called(outcome) THEN Tally(@) ELSE @]
      BY <2>2 DEF DispatchCached
    <3>2. cache[slot[s].w][slot[s].a] = "APPROVED" /\ row' = row
      BY <1>5, <2>2 DEF DispatchCached, Admit
    <3>3. cacheCalls[slot[s].a] = 0 /\ row[slot[s].a] # "ABSENT"
      BY <2>1, <3>2 DEF OneRecord, InCache
    <3>4. /\ cacheCalls'[slot[s].a] \in {0, 1}
          /\ \A b \in Approvals : b # slot[s].a => cacheCalls'[b] = cacheCalls[b]
      BY <2>1, <3>1, <3>3 DEF Tally, TypeOK
    <3>5. /\ cache'[slot[s].w][slot[s].a] \in {"SUCCEEDED", "DISPATCHING", "PROVIDER_FAILED"}
          /\ \A v \in Workers, b \in Approvals :
                v # slot[s].w \/ b # slot[s].a => cache'[v][b] = cache[v][b]
      BY <2>1, <3>1 DEF SetCache, AfterGateway, TypeOK
    <3>6. \A v \in Workers : InCache(v, slot[s].a) => v = slot[s].w
      BY <2>1, <3>2 DEF OneRecord, InCache
    <3>7. \A v \in Workers, b \in Approvals : InCache(v, b)' <=> InCache(v, b)
      BY <2>1, <3>2, <3>5 DEF InCache
    <3>8. \A b \in Approvals, v \in Workers :
             cache'[v][b] \in {"PENDING", "APPROVED"} => cacheCalls'[b] = 0
      BY <2>1, <3>4, <3>5, <3>6 DEF OneRecord, InCache
    <3> QED
      BY <3>2, <3>3, <3>4, <3>7, <3>8 DEF OneRecord, CachedRecordCallsOnce
  <2>3. CASE UNCHANGED cacheCalls /\ ~DispatchCached(s, slot[s].w, slot[s].a)
    <3>1. \/ UNCHANGED cache
          \/ /\ cache[slot[s].w][slot[s].a] = "APPROVED"
             /\ SetCache(slot[s].w, slot[s].a, "EXPIRED")
      BY <1>5, <2>3 DEF Admit
    <3>2. UNCHANGED <<row, cacheCalls>>
      BY <1>5, <2>3 DEF Admit
    <3>3. \A v \in Workers, b \in Approvals :
             \/ cache'[v][b] = cache[v][b]
             \/ cache[v][b] = "APPROVED" /\ cache'[v][b] = "EXPIRED"
      BY <2>1, <3>1 DEF SetCache, TypeOK
    <3>4. OpensNoRecord
      BY <3>2, <3>3 DEF OpensNoRecord
    <3> QED
      BY <3>4, OpensNoRecordStep
  <2> QED
    BY <1>5, <2>2, <2>3 DEF Admit
<1>6. ASSUME NEW w \in Workers, Restart(w)
      PROVE  OneRecord'
  <2>1. OpensNoRecord
    BY <1>6 DEF Restart, OpensNoRecord, TypeOK, history, database
  <2> QED
    BY <2>1, OpensNoRecordStep
<1>7. CASE UNCHANGED <<row, cache, cacheCalls>>
  <2>1. OpensNoRecord
    BY <1>7 DEF OpensNoRecord
  <2> QED
    BY <2>1, OpensNoRecordStep
<1>8. ASSUME NEW s \in Slots, SlotStep(s)
      PROVE  OneRecord'
  BY <1>4, <1>5, <1>7, <1>8
  DEF SlotStep, GrantFetch, FetchRow, GrantDecide, ReadGlobalSwitch, ReadTenantSwitch, DispatchFetch,
      DispatchFromRow, InsertIntent, Respond, RequestFails, database, memory, history
<1> QED
  BY <1>1, <1>2, <1>3, <1>6, <1>7, <1>8
  DEF Next, DispatchStart, Expire, EngageKillSwitch, vars, database, memory, history

\* A cached record authorises one provider call at most.
THEOREM CachedCallsOnce == Spec => []CachedRecordCallsOnce
<1>1. Init => OneRecord
  BY DEF Init, OneRecord, InCache, CachedRecordCallsOnce
<1>2. TypeOK /\ OneRecord /\ [Next]_vars => OneRecord'
  BY OneRecordStep
<1>3. OneRecord => CachedRecordCallsOnce
  BY DEF OneRecord
<1> QED
  BY <1>1, <1>2, <1>3, TypeCorrect, PTL DEF Spec

-----------------------------------------------------------------------------
(* Requests of a halted tenant.                                            *)

\* A halted request: the switch it must meet, and where it may still be.
Stopped(req, engaged) ==
    req # Idle /\ req.halted =>
        /\ req.pc \notin {"admitted", "fetch", "dispatch", "intent", "respond"}
        /\ TenantOf[req.p] \in engaged \/ (Global \in engaged /\ req.pc # "ksTenant")

\* Halts says so of every request in flight.
LEMMA HaltsMeaning == Halts <=> \A s \in Slots : Stopped(slot[s], switches)
BY DEF Halts, HaltedRequestsStop, Stopped

\* A slot in a phase is not idle.
LEMMA SlotPhase == \A s \in Slots : slot[s].pc # "idle" => slot[s] # Idle
BY DEF Idle

\* Every handler segment keeps a halted request before its kill switch reads.
LEMMA HaltsStep == ASSUME TypeOK, Halts, [Next]_vars PROVE Halts'
<1>1. \A s \in Slots : Stopped(slot[s], switches)
  BY HaltsMeaning
<1> SUFFICES ASSUME NEW r \in Slots PROVE Stopped(slot'[r], switches')
  BY HaltsMeaning DEF Halts, HaltedRequestsStop, Stopped
<1>2. switches \subseteq switches'
  <2>1. ASSUME NEW s, SlotStep(s) PROVE UNCHANGED switches
    BY <2>1
    DEF SlotStep, GrantFetch, FetchRow, GrantDecide, GrantUpdate, RejectUpdate, ReadGlobalSwitch,
        ReadTenantSwitch, Admit, DispatchFetch, DispatchFromRow, InsertIntent, Respond, RequestFails,
        database
  <2>2. ASSUME NEW s, NEW w, NEW p, NEW a, NEW k,
               \/ CreateApproval(w, a) \/ GrantStart(s, w, p, a) \/ RejectStart(s, w, p, a)
               \/ DispatchStart(s, w, p, a, k) \/ Restart(w) \/ Expire(a)
        PROVE  UNCHANGED switches
    BY <2>2 DEF CreateApproval, GrantStart, RejectStart, DispatchStart, Restart, Expire, database
  <2>3. ASSUME NEW scopes, EngageKillSwitch(scopes) PROVE switches \subseteq switches'
    BY <2>3 DEF EngageKillSwitch
  <2> QED
    BY <2>1, <2>2, <2>3 DEF Next, vars
<1>3. CASE slot'[r] = slot[r] \/ slot'[r] = Idle
  BY <1>1, <1>2, <1>3 DEF Stopped
<1>4. ASSUME NEW s \in Slots, NEW w \in Workers, NEW p \in Principals, NEW a \in Approvals,
             GrantStart(s, w, p, a) \/ RejectStart(s, w, p, a)
      PROVE  Stopped(slot'[r], switches')
  <2>1. slot'[r] = slot[r] \/ slot'[r].halted = FALSE
    BY <1>4 DEF GrantStart, RejectStart, Begin, TypeOK
  <2> QED
    BY <1>3, <2>1 DEF Stopped
<1>5. ASSUME NEW s \in Slots, NEW w \in Workers, NEW p \in Operators, NEW a \in Approvals,
             NEW k \in Keys, DispatchStart(s, w, p, a, k)
      PROVE  Stopped(slot'[r], switches')
  <2>1. \/ slot'[r] = slot[r]
        \/ /\ slot'[r].pc = "ksGlobal" /\ slot'[r].p = p
           /\ slot'[r].halted = (Global \in switches \/ TenantOf[p] \in switches)
    BY <1>5 DEF DispatchStart, Begin, Engaged, TypeOK
  <2> QED
    BY <1>2, <1>3, <2>1 DEF Stopped
<1>6. ASSUME NEW s \in Slots, SlotStep(s)
      PROVE  Stopped(slot'[r], switches')
  <2>1. ASSUME NEW here \in {"grantFetch", "fetch"}, NEW next \in {"grantDecide", "dispatch"},
               FetchRow(s, here, next), here = "fetch" \/ next = "grantDecide"
        PROVE  Stopped(slot'[r], switches')
    <3>1. slot[s].pc = here
      BY <2>1 DEF FetchRow, At
    <3>2. \/ slot'[s] = Idle
          \/ /\ slot'[s].pc = next /\ slot'[s].p = slot[s].p
             /\ slot'[s].halted = slot[s].halted
      BY <2>1, FetchEffect
    <3>3. r # s => slot'[r] = slot[r]
      BY <2>1, FetchEffect
    <3>4. Stopped(slot'[s], switches')
      <4>1. CASE slot'[s] = Idle
        BY <4>1 DEF Stopped
      <4>2. CASE /\ slot'[s].pc = next /\ slot'[s].p = slot[s].p
                 /\ slot'[s].halted => slot[s].halted
        BY <1>1, <1>2, <2>1, <3>1, <4>2, SlotPhase DEF Stopped
      <4> QED
        BY <3>2, <4>1, <4>2
    <3> QED
      BY <1>3, <3>3, <3>4
  <2>2. CASE GrantDecide(s)
    <3>1. \/ slot'[r] = slot[r] \/ slot'[r] = Idle
          \/ /\ slot[r].pc = "grantDecide" /\ slot'[r].pc = "grantUpdate"
             /\ slot'[r].p = slot[r].p /\ (slot'[r].halted => slot[r].halted)
      BY <2>2, GotoEffect, FreeEffect DEF GrantDecide, At
    <3> QED
      BY <1>1, <1>2, <1>3, <3>1, SlotPhase DEF Stopped
  <2>3. CASE GrantUpdate(s) \/ RejectUpdate(s) \/ Respond(s) \/ RequestFails(s)
    BY <1>3, <2>3, FreeEffect DEF GrantUpdate, RejectUpdate, Respond, RequestFails
  <2>4. CASE ReadGlobalSwitch(s)
    <3>1. \/ slot'[r] = slot[r] \/ slot'[r] = Idle
          \/ /\ slot[r].pc = "ksGlobal" /\ slot'[r].pc = "ksTenant" /\ Global \notin switches
             /\ slot'[r].p = slot[r].p /\ (slot'[r].halted => slot[r].halted)
      BY <2>4, GotoEffect, FreeEffect DEF ReadGlobalSwitch, At
    <3> QED
      BY <1>1, <1>2, <1>3, <3>1, SlotPhase DEF Stopped
  <2>5. CASE ReadTenantSwitch(s)
    <3>1. \/ slot'[r] = slot[r] \/ slot'[r] = Idle
          \/ /\ slot[r].pc = "ksTenant" /\ TenantOf[slot[r].p] \notin switches
             /\ (slot'[r].halted => slot[r].halted)
      BY <2>5, GotoEffect, FreeEffect DEF ReadTenantSwitch, At
    <3> QED
      BY <1>1, <1>3, <3>1, SlotPhase DEF Stopped
  <2>6. CASE Admit(s) \/ DispatchFromRow(s) \/ InsertIntent(s)
    <3>1. \/ slot'[r] = slot[r] \/ slot'[r] = Idle
          \/ /\ slot[r].pc \in {"admitted", "dispatch", "intent"}
             /\ (slot'[r].halted => slot[r].halted)
      BY <2>6, GotoEffect, FreeEffect
      DEF Admit, DispatchCached, DispatchFromRow, InsertIntent, AfterDispatch, At
    <3> QED
      BY <1>1, <1>3, <3>1, SlotPhase DEF Stopped
  <2> QED
    BY <1>6, <2>1, <2>2, <2>3, <2>4, <2>5, <2>6 DEF SlotStep, GrantFetch, DispatchFetch
<1>7. ASSUME NEW w \in Workers, Restart(w)
      PROVE  Stopped(slot'[r], switches')
  BY <1>3, <1>7 DEF Restart
<1>8. CASE UNCHANGED slot
  BY <1>3, <1>8
<1> QED
  BY <1>4, <1>5, <1>6, <1>7, <1>8 DEF Next, CreateApproval, Expire, EngageKillSwitch, vars

\* No request that arrived while its tenant was halted gets past the switches.
THEOREM HaltedStop == Spec => []HaltedRequestsStop
<1>1. Init => Halts
  BY DEF Init, Halts, HaltedRequestsStop
<1>2. TypeOK /\ Halts /\ [Next]_vars => Halts'
  BY HaltsStep
<1>3. Halts => HaltedRequestsStop
  BY DEF Halts
<1> QED
  BY <1>1, <1>2, <1>3, TypeCorrect, PTL DEF Spec

-----------------------------------------------------------------------------
(* Replayed responses.                                                     *)

\* Nothing takes back a provider call or an intent row.
LEMMA RecordsStay ==
    ASSUME TypeOK, [Next]_vars
    PROVE  /\ \A a \in Approvals : ProviderCalled(a) => ProviderCalled(a)'
           /\ \A i \in KeyIds : intentRow[i] # None => intentRow'[i] # None
<1> DEFINE Stay == /\ \A a \in Approvals : ProviderCalled(a) => ProviderCalled(a)'
                  /\ \A i \in KeyIds : intentRow[i] # None => intentRow'[i] # None
<1>1. CASE UNCHANGED <<cacheCalls, rowCalls, intentRow>>
  BY <1>1 DEF ProviderCalled
<1>2. ASSUME NEW s \in Slots, Admit(s) PROVE Stay
  <2>1. UNCHANGED <<rowCalls, intentRow>>
    BY <1>2 DEF Admit
  <2>2. CASE UNCHANGED cacheCalls
    BY <1>1, <2>1, <2>2
  <2>3. CASE DispatchCached(s, slot[s].w, slot[s].a)
    <3>1. slot[s].a \in Approvals
      BY <1>2, SlotIsRequest DEF Admit, At, Request
    <3>2. \A a \in Approvals : cacheCalls[a] \in 0..2 /\ rowCalls[a] \in 0..2
      BY DEF TypeOK
    <3>3. cacheCalls'[slot[s].a] \in {cacheCalls[slot[s].a], Tally(cacheCalls[slot[s].a])}
      BY <2>3, <3>1 DEF DispatchCached, TypeOK
    <3>4. \A a \in Approvals : a # slot[s].a => cacheCalls'[a] = cacheCalls[a]
      BY <2>3, <3>1 DEF DispatchCached, TypeOK
    <3>5. \A a \in Approvals : cacheCalls[a] > 0 => cacheCalls'[a] > 0
      BY <3>2, <3>3, <3>4 DEF Tally
    <3>6. \A a \in Approvals : cacheCalls'[a] \in 0..2
      BY <3>2, <3>3, <3>4 DEF Tally
    <3> QED
      BY <2>1, <3>2, <3>5, <3>6 DEF ProviderCalled
  <2> QED
    BY <1>2, <2>2, <2>3 DEF Admit
<1>3. ASSUME NEW s \in Slots, DispatchFromRow(s) PROVE Stay
  <2>1. UNCHANGED <<cacheCalls, intentRow>> /\ slot[s].a \in Approvals
    BY <1>3, SlotIsRequest DEF DispatchFromRow, database, At, Request
  <2>2. \A a \in Approvals : cacheCalls[a] \in 0..2 /\ rowCalls[a] \in 0..2
    BY DEF TypeOK
  <2>3. \A a \in Approvals : rowCalls'[a] \in {rowCalls[a], Tally(rowCalls[a])}
    BY <1>3, <2>1 DEF DispatchFromRow, TypeOK
  <2>4. \A a \in Approvals : rowCalls'[a] \in 0..2 /\ (rowCalls[a] > 0 => rowCalls'[a] > 0)
    BY <2>2, <2>3 DEF Tally
  <2> QED
    BY <2>1, <2>2, <2>4 DEF ProviderCalled
<1>4. ASSUME NEW s \in Slots, InsertIntent(s) PROVE Stay
  <2>1. UNCHANGED <<cacheCalls, rowCalls>>
    BY <1>4 DEF InsertIntent, history
  <2>2. \A i \in KeyIds : intentRow[i] # None => intentRow'[i] = intentRow[i]
    BY <1>4 DEF InsertIntent, TypeOK
  <2> QED
    BY <2>1, <2>2 DEF ProviderCalled
<1>5. ASSUME NEW s \in Slots, SlotStep(s) PROVE Stay
  BY <1>1, <1>2, <1>3, <1>4, <1>5
  DEF SlotStep, GrantFetch, FetchRow, GrantDecide, GrantUpdate, RejectUpdate, ReadGlobalSwitch,
      ReadTenantSwitch, DispatchFetch, Respond, RequestFails, database, memory, history
<1>6. ASSUME NEW s, NEW w, NEW p, NEW a, NEW k,
             \/ CreateApproval(w, a) \/ GrantStart(s, w, p, a) \/ RejectStart(s, w, p, a)
             \/ DispatchStart(s, w, p, a, k) \/ Restart(w) \/ Expire(a)
      PROVE  Stay
  BY <1>1, <1>6
  DEF CreateApproval, GrantStart, RejectStart, DispatchStart, Restart, Expire, database, history
<1>7. ASSUME NEW scopes, EngageKillSwitch(scopes) PROVE Stay
  BY <1>1, <1>7 DEF EngageKillSwitch, history
<1> QED
  BY <1>1, <1>5, <1>6, <1>7 DEF Next, vars

\* What a dispatch request has established where it stands.
Established(req) ==
    /\ req.pc \in {"ksGlobal", "ksTenant", "admitted", "fetch", "dispatch", "intent", "respond"}
          => req.k \in Keys
    /\ req.pc \in {"dispatch", "intent", "respond"} => TenantOf[req.p] = Owner(req.a)
    /\ req.pc \in {"intent", "respond"} => ProviderCalled(req.a)
    /\ req.pc = "respond" => intentRow[<<TenantOf[req.p], req.k>>] # None

\* Dispatches says so of every request in flight.
LEMMA DispatchesMeaning ==
    Dispatches <=> ReplaysAreOfExecutedActions /\ \A s \in Slots : Established(slot[s])
BY DEF Dispatches, Established, KeyOf

\* A request that does not move has established what it had.
LEMMA EstablishedStays ==
    ASSUME TypeOK, [Next]_vars, NEW s \in Slots, Established(slot[s]),
           slot'[s] = slot[s] \/ slot'[s] = Idle
    PROVE  Established(slot[s])'
<1>1. CASE slot'[s] = Idle
  BY <1>1 DEF Established, Idle
<1>2. CASE slot'[s] = slot[s] /\ slot[s].pc = "idle"
  BY <1>2 DEF Established
<1>3. CASE slot'[s] = slot[s] /\ slot[s].pc # "idle"
  <2>1. slot[s].a \in Approvals /\ TenantOf[slot[s].p] \in Tenants
    BY <1>3, SlotIsRequest, ConstantsAssumption DEF Request
  <2>2. ProviderCalled(slot[s].a) => ProviderCalled(slot[s].a)'
    BY <1>3, <2>1, RecordsStay DEF ProviderCalled
  <2>3. slot[s].k \in Keys =>
           (intentRow[<<TenantOf[slot[s].p], slot[s].k>>] # None =>
                intentRow'[<<TenantOf[slot[s].p], slot[s].k>>] # None)
    BY <2>1, RecordsStay DEF KeyIds
  <2> QED
    BY <1>3, <2>2, <2>3 DEF Established, Owner
<1> QED
  BY <1>1, <1>2, <1>3

\* Every step of a dispatch keeps what it has established.
LEMMA EstablishedStep ==
    ASSUME TypeOK, Dispatches, [Next]_vars, NEW r \in Slots
    PROVE  Established(slot[r])'
<1>1. Established(slot[r])
  BY DispatchesMeaning
<1>2. CASE slot'[r] = slot[r] \/ slot'[r] = Idle
  BY <1>1, <1>2, EstablishedStays
<1>3. ASSUME NEW s \in Slots, NEW w \in Workers, NEW p \in Principals, NEW a \in Approvals,
             GrantStart(s, w, p, a) \/ RejectStart(s, w, p, a)
      PROVE  Established(slot[r])'
  <2>1. slot'[r] = slot[r] \/ slot'[r].pc \in {"grantUpdate", "grantFetch", "rejectUpdate"}
    BY <1>3 DEF GrantStart, RejectStart, Begin, TypeOK
  <2> QED
    BY <1>2, <2>1 DEF Established
<1>4. ASSUME NEW s \in Slots, NEW w \in Workers, NEW p \in Operators, NEW a \in Approvals,
             NEW k \in Keys, DispatchStart(s, w, p, a, k)
      PROVE  Established(slot[r])'
  <2>1. slot'[r] = slot[r] \/ (slot'[r].pc = "ksGlobal" /\ slot'[r].k \in Keys)
    BY <1>4 DEF DispatchStart, Begin, TypeOK
  <2> QED
    BY <1>2, <2>1 DEF Established
<1>5. ASSUME NEW s \in Slots, SlotStep(s)
      PROVE  Established(slot[r])'
  <2>1. CASE GrantFetch(s) \/ GrantDecide(s) \/ GrantUpdate(s) \/ RejectUpdate(s) \/ Respond(s)
             \/ RequestFails(s)
    <3>1. CASE GrantFetch(s)
      <4>1. slot'[r] = slot[r] \/ slot'[r].pc \in {"idle", "grantDecide"}
        BY <3>1, FetchEffect DEF GrantFetch
      <4> QED
        BY <1>2, <4>1 DEF Established
    <3>2. CASE GrantDecide(s)
      <4>1. \/ slot'[r] = slot[r] \/ slot'[r] = Idle
            \/ slot'[r].pc = "grantUpdate"
        BY <3>2, GotoEffect, FreeEffect DEF GrantDecide, At
      <4> QED
        BY <1>2, <4>1 DEF Established
    <3>3. CASE GrantUpdate(s) \/ RejectUpdate(s) \/ Respond(s) \/ RequestFails(s)
      BY <1>2, <3>3, FreeEffect DEF GrantUpdate, RejectUpdate, Respond, RequestFails
    <3> QED
      BY <2>1, <3>1, <3>2, <3>3
  <2>2. CASE ReadGlobalSwitch(s) \/ ReadTenantSwitch(s)
    <3>1. \/ slot'[r] = slot[r] \/ slot'[r] = Idle
          \/ /\ slot[r].pc \in {"ksGlobal", "ksTenant"} /\ slot'[r].k = slot[r].k
             /\ slot'[r].pc \in {"ksTenant", "admitted"}
      BY <2>2, GotoEffect, FreeEffect DEF ReadGlobalSwitch, ReadTenantSwitch, At
    <3> QED
      BY <1>1, <1>2, <3>1 DEF Established
  <2>3. CASE Admit(s)
    <3>1. /\ slot[s].a \in Approvals /\ slot[s].pc = "admitted"
          /\ \A a \in Approvals : cacheCalls[a] \in 0..2 /\ rowCalls[a] \in 0..2
      BY <2>3, SlotIsRequest DEF Admit, At, Request, TypeOK
    <3>2. \/ slot'[r] = slot[r] \/ slot'[r] = Idle
          \/ r = s /\ Goto(s, "fetch")
          \/ /\ r = s /\ Goto(s, "intent")
             /\ TenantOf[slot[s].p] = Owner(slot[s].a)
             /\ cacheCalls' = [cacheCalls EXCEPT ![slot[s].a] = Tally(@)]
             /\ rowCalls' = rowCalls
      BY <2>3, <3>1, GotoEffect, FreeEffect
      DEF Admit, DispatchCached, AfterDispatch, GatewayOutcomes, Called
    <3>3. CASE r = s /\ Goto(s, "fetch")
      BY <1>1, <3>1, <3>3, GotoEffect DEF Established
    <3>4. CASE /\ r = s /\ Goto(s, "intent")
               /\ TenantOf[slot[s].p] = Owner(slot[s].a)
               /\ cacheCalls' = [cacheCalls EXCEPT ![slot[s].a] = Tally(@)]
               /\ rowCalls' = rowCalls
      <4>1. slot'[r].pc = "intent" /\ slot'[r].p = slot[r].p /\ slot'[r].a = slot[r].a
            /\ slot'[r].k = slot[r].k
        BY <3>1, <3>4, GotoEffect
      <4>2. cacheCalls'[slot[r].a] + rowCalls'[slot[r].a] > 0
        BY <3>1, <3>4 DEF Tally, TypeOK
      <4>3. slot[r].k \in Keys
        BY <1>1, <3>1, <3>4 DEF Established
      <4> QED
        BY <3>4, <4>1, <4>2, <4>3 DEF Established, ProviderCalled, Owner
    <3> QED
      BY <1>2, <3>2, <3>3, <3>4
  <2>4. CASE DispatchFetch(s)
    <3>1. \/ slot'[r] = slot[r] \/ slot'[r] = Idle
          \/ /\ slot[r].pc = "fetch" /\ slot'[r].pc = "dispatch" /\ slot'[r].k = slot[r].k
             /\ slot'[r].p = slot[r].p /\ slot'[r].a = slot[r].a
             /\ TenantOf[slot[r].p] = Owner(slot[r].a)
      BY <2>4, FetchEffect DEF DispatchFetch, FetchRow, At
    <3> QED
      BY <1>1, <1>2, <3>1 DEF Established, Owner
  <2>5. CASE DispatchFromRow(s)
    <3>1. /\ slot[s].a \in Approvals /\ slot[s].pc = "dispatch"
          /\ \A a \in Approvals : cacheCalls[a] \in 0..2 /\ rowCalls[a] \in 0..2
      BY <2>5, SlotIsRequest DEF DispatchFromRow, At, Request, TypeOK
    <3>2. \/ slot'[r] = slot[r] \/ slot'[r] = Idle
          \/ /\ r = s /\ Goto(s, "intent")
             /\ rowCalls' = [rowCalls EXCEPT ![slot[s].a] = Tally(@)]
             /\ cacheCalls' = cacheCalls
      BY <2>5, <3>1, GotoEffect, FreeEffect
      DEF DispatchFromRow, AfterDispatch, GatewayOutcomes, Called
    <3>3. CASE /\ r = s /\ Goto(s, "intent")
               /\ rowCalls' = [rowCalls EXCEPT ![slot[s].a] = Tally(@)]
               /\ cacheCalls' = cacheCalls
      <4>1. slot'[r].pc = "intent" /\ slot'[r].p = slot[r].p /\ slot'[r].a = slot[r].a
            /\ slot'[r].k = slot[r].k
        BY <3>1, <3>3, GotoEffect
      <4>2. cacheCalls'[slot[r].a] + rowCalls'[slot[r].a] > 0
        BY <3>1, <3>3 DEF Tally, TypeOK
      <4>3. slot[r].k \in Keys /\ TenantOf[slot[r].p] = Owner(slot[r].a)
        BY <1>1, <3>1, <3>3 DEF Established
      <4> QED
        BY <4>1, <4>2, <4>3 DEF Established, ProviderCalled, Owner
    <3> QED
      BY <1>2, <3>2, <3>3
  <2>6. CASE InsertIntent(s)
    <3>1. CASE r # s
      BY <1>2, <2>6, <3>1, GotoEffect DEF InsertIntent, At
    <3>2. CASE r = s
      <4>1. /\ slot[s].pc = "intent" /\ slot[s].a \in Approvals
            /\ TenantOf[slot[s].p] \in Tenants
        BY <2>6, SlotIsRequest, ConstantsAssumption DEF InsertIntent, At, Request
      <4>2. /\ slot[s].k \in Keys /\ TenantOf[slot[s].p] = Owner(slot[s].a)
            /\ ProviderCalled(slot[s].a)
        BY <1>1, <3>2, <4>1 DEF Established
      <4>3. slot'[s].pc = "respond" /\ slot'[s].p = slot[s].p /\ slot'[s].a = slot[s].a
            /\ slot'[s].k = slot[s].k
        BY <2>6, <4>1, GotoEffect DEF InsertIntent
      <4>4. KeyOf(s) \in KeyIds /\ slot[s].a # None
        BY <4>1, <4>2, ConstantsAssumption DEF KeyOf, KeyIds
      <4>5. intentRow'[KeyOf(s)] # None
        BY <2>6, <4>4 DEF InsertIntent, TypeOK
      <4>6. ProviderCalled(slot[s].a)'
        BY <2>6, <4>2, <4>3 DEF InsertIntent, history, ProviderCalled
      <4> QED
        BY <3>2, <4>2, <4>3, <4>5, <4>6 DEF Established, KeyOf, Owner, ProviderCalled
    <3> QED
      BY <3>1, <3>2
  <2> QED
    BY <1>5, <2>1, <2>2, <2>3, <2>4, <2>5, <2>6 DEF SlotStep
<1>6. ASSUME NEW w \in Workers, Restart(w)
      PROVE  Established(slot[r])'
  BY <1>2, <1>6 DEF Restart
<1>7. CASE UNCHANGED slot
  BY <1>2, <1>7
<1> QED
  BY <1>3, <1>4, <1>5, <1>6, <1>7 DEF Next, CreateApproval, Expire, EngageKillSwitch, vars

\* Responses are stored only by requests that have established their claim.
LEMMA DispatchesStep == ASSUME TypeOK, Dispatches, [Next]_vars PROVE Dispatches'
<1>1. \A s \in Slots : Established(slot[s])'
  BY EstablishedStep
<1>2. ReplaysAreOfExecutedActions
  BY DEF Dispatches
<1>3. ASSUME NEW w \in Workers, NEW i \in KeyIds, NEW a, intentCache'[w][i] = a, a # None
      PROVE  ProviderCalled(a)' /\ Owner(a) = i[1] /\ intentRow'[i] # None
  <2>1. CASE intentCache[w][i] = a
    <3>1. a \in Approvals
      BY <1>3, <2>1 DEF TypeOK
    <3>2. ProviderCalled(a) /\ Owner(a) = i[1] /\ intentRow[i] # None
      BY <1>2, <1>3, <2>1 DEF ReplaysAreOfExecutedActions
    <3> QED
      BY <3>1, <3>2, RecordsStay
  <2>2. ASSUME NEW s \in Slots, Respond(s), intentCache[w][i] # a
        PROVE  ProviderCalled(a)' /\ Owner(a) = i[1] /\ intentRow'[i] # None
    <3>1. /\ slot[s].pc = "respond" /\ slot[s].a \in Approvals /\ slot[s].w \in Workers
          /\ intentCache' = [intentCache EXCEPT ![slot[s].w][KeyOf(s)] = slot[s].a]
      BY <2>2, SlotIsRequest DEF Respond, At, Request
    <3>2. intentCache \in [Workers -> [KeyIds -> Approvals \cup {None}]]
      BY DEF TypeOK
    <3>3. i = KeyOf(s) /\ a = slot[s].a
      BY <1>3, <2>2, <3>1, <3>2
    <3>4. /\ TenantOf[slot[s].p] = Owner(slot[s].a) /\ ProviderCalled(slot[s].a)
          /\ intentRow[KeyOf(s)] # None
      BY <3>1 DEF Dispatches
    <3>5. ProviderCalled(a) /\ Owner(a) = i[1] /\ intentRow[i] # None
      BY <3>3, <3>4 DEF KeyOf
    <3> QED
      BY <3>1, <3>3, <3>5, RecordsStay
  <2>3. CASE \A s \in Slots : ~Respond(s)
    <3>1. intentCache' = intentCache \/ \E v \in Workers : Restart(v)
      <4>1. ASSUME NEW s \in Slots, SlotStep(s) PROVE intentCache' = intentCache
        BY <2>3, <4>1
        DEF SlotStep, GrantFetch, FetchRow, GrantDecide, GrantUpdate, RejectUpdate, ReadGlobalSwitch,
            ReadTenantSwitch, Admit, DispatchFetch, DispatchFromRow, InsertIntent, RequestFails, memory
      <4>2. ASSUME NEW s, NEW v, NEW p, NEW b, NEW k,
                   \/ CreateApproval(v, b) \/ GrantStart(s, v, p, b) \/ RejectStart(s, v, p, b)
                   \/ DispatchStart(s, v, p, b, k) \/ Expire(b)
            PROVE  intentCache' = intentCache
        BY <4>2 DEF CreateApproval, GrantStart, RejectStart, DispatchStart, Expire, memory
      <4>3. ASSUME NEW scopes, EngageKillSwitch(scopes) PROVE intentCache' = intentCache
        BY <4>3 DEF EngageKillSwitch, memory
      <4> QED
        BY <4>1, <4>2, <4>3 DEF Next, vars
    <3>2. ASSUME NEW v \in Workers, Restart(v)
          PROVE  intentCache'[w][i] = None \/ intentCache'[w][i] = intentCache[w][i]
      BY <3>2 DEF Restart, TypeOK
    <3> QED
      BY <1>3, <2>1, <3>1, <3>2
  <2> QED
    BY <2>1, <2>2, <2>3
<1>4. ReplaysAreOfExecutedActions'
  BY <1>3 DEF ReplaysAreOfExecutedActions, ProviderCalled, Owner
<1> QED
  BY <1>1, <1>4, DispatchesMeaning DEF Dispatches, Established, KeyOf

\* A stored response belongs to an action whose provider was called, by the
\* tenant that owns the approval, with its intent row written.
THEOREM ReplaysExecuted == Spec => []ReplaysAreOfExecutedActions
<1>1. Init => Dispatches
  BY DEF Init, Dispatches, ReplaysAreOfExecutedActions, Idle
<1>2. TypeOK /\ Dispatches /\ [Next]_vars => Dispatches'
  BY DispatchesStep
<1>3. Dispatches => ReplaysAreOfExecutedActions
  BY DEF Dispatches
<1> QED
  BY <1>1, <1>2, <1>3, TypeCorrect, PTL DEF Spec


-----------------------------------------------------------------------------
(* Where the separation of duties holds, and what it takes to hold all over. *)

\* Somebody other than the requester, with the authority it needs, signed an approval.
ByAnother(a) == \E p \in signed[a] : p # Requester[a] /\ Authorised(p, a)

\* A cached record knows its requester, so whatever is done with it was signed by another;
\* a requester signs a fetched record only, and with it the row.
FourEyes ==
    /\ \A w \in Workers, a \in Approvals : cache[w][a] = "APPROVED" => ByAnother(a)
    /\ \A a \in Approvals : cacheCalls[a] > 0 => ByAnother(a)
    /\ \A a \in Approvals : Requester[a] \in signed[a] => row[a] = "APPROVED"

\* A step in which the requester signs no more than the row.
KeepsApart ==
    /\ \A a \in Approvals :
          /\ signed[a] \subseteq signed'[a]
          /\ row[a] = "APPROVED" => row'[a] = "APPROVED"
          /\ Requester[a] \in signed'[a] => Requester[a] \in signed[a] \/ row'[a] = "APPROVED"
          /\ cacheCalls'[a] > 0 => cacheCalls[a] > 0 \/ ByAnother(a)
    /\ \A w \in Workers, a \in Approvals :
          cache'[w][a] = "APPROVED" => cache[w][a] = "APPROVED" \/ ByAnother(a)'

LEMMA KeepsApartStep == ASSUME FourEyes, KeepsApart PROVE FourEyes'
<1>1. \A a \in Approvals : ByAnother(a) => ByAnother(a)'
  BY DEF KeepsApart, ByAnother, Authorised, HasAuthority, Owner, SpendLimit
<1> QED
  BY <1>1 DEF FourEyes, KeepsApart

LEMMA FourEyesStep == ASSUME TypeOK, FourEyes, [Next]_vars PROVE FourEyes'
<1> SUFFICES KeepsApart
  BY KeepsApartStep
<1>1. ASSUME UNCHANGED <<row, cache, signed, cacheCalls>> PROVE KeepsApart
  BY <1>1 DEF KeepsApart
<1>2. ASSUME NEW w \in Workers, NEW a \in Approvals, CreateApproval(w, a)
      PROVE  KeepsApart
  BY <1>2 DEF CreateApproval, SetCache, KeepsApart, TypeOK, history
<1>3. ASSUME NEW s \in Slots, NEW w \in Workers, NEW p \in Principals, NEW a \in Approvals,
             GrantStart(s, w, p, a)
      PROVE  KeepsApart
  <2>1. UNCHANGED <<row, cacheCalls>>
    BY <1>3 DEF GrantStart
  <2>2. CASE /\ MayGrantCached(w, p, a)
             /\ SetCache(w, a, "APPROVED")
             /\ signed' = [signed EXCEPT ![a] = @ \cup {p}]
    <3>1. p \in signed'[a] /\ p # Requester[a] /\ Authorised(p, a)
      BY <2>2 DEF MayGrantCached, TypeOK
    <3>2. ByAnother(a)'
      BY <3>1 DEF ByAnother, Authorised, HasAuthority, Owner, SpendLimit
    <3>3. \A b \in Approvals : /\ signed[b] \subseteq signed'[b]
                               /\ Requester[b] \in signed'[b] => Requester[b] \in signed[b]
      BY <2>2, <3>1 DEF TypeOK
    <3>4. \A v \in Workers, b \in Approvals : cache'[v][b] = cache[v][b] \/ b = a
      BY <2>2 DEF SetCache, TypeOK
    <3> QED
      BY <2>1, <3>2, <3>3, <3>4 DEF KeepsApart
  <2>3. CASE SetCache(w, a, "EXPIRED") /\ UNCHANGED signed
    BY <2>1, <2>3 DEF SetCache, KeepsApart, TypeOK
  <2>4. CASE UNCHANGED <<signed, cache>>
    BY <1>1, <2>1, <2>4
  <2> QED
    BY <1>3, <2>2, <2>3, <2>4 DEF GrantStart
<1>4. ASSUME NEW s \in Slots, NEW w \in Workers, NEW p \in Principals, NEW a \in Approvals,
             RejectStart(s, w, p, a)
      PROVE  KeepsApart
  BY <1>4 DEF RejectStart, KeepsApart, TypeOK, history
<1>5. ASSUME NEW s \in Slots, GrantUpdate(s)
      PROVE  KeepsApart
  <2>1. slot[s].a \in Approvals /\ UNCHANGED <<cache, cacheCalls>>
    BY <1>5, SlotIsRequest DEF GrantUpdate, At, Request
  <2>2. CASE UNCHANGED <<row, signed>>
    BY <1>1, <2>1, <2>2
  <2>3. CASE /\ row' = [row EXCEPT ![slot[s].a] = "APPROVED"]
             /\ signed' = [signed EXCEPT ![slot[s].a] = @ \cup {slot[s].p}]
    BY <2>1, <2>3 DEF KeepsApart, TypeOK
  <2> QED
    BY <1>5, <2>2, <2>3 DEF GrantUpdate
<1>6. ASSUME NEW s \in Slots, RejectUpdate(s)
      PROVE  KeepsApart
  BY <1>6 DEF RejectUpdate, RejectableRow, KeepsApart, TypeOK, memory, history
<1>7. ASSUME NEW s \in Slots, Admit(s)
      PROVE  KeepsApart
  <2>1. slot[s].a \in Approvals /\ slot[s].w \in Workers /\ UNCHANGED <<row, signed>>
    BY <1>7, SlotIsRequest DEF Admit, At, Request
  <2>2. \/ UNCHANGED cache
        \/ \E status \in {"SUCCEEDED", "DISPATCHING", "PROVIDER_FAILED", "EXPIRED"} :
              SetCache(slot[s].w, slot[s].a, status)
    BY <1>7 DEF Admit, DispatchCached, AfterGateway
  <2>3. \A w \in Workers, a \in Approvals : cache'[w][a] = "APPROVED" => cache[w][a] = "APPROVED"
    <3>1. ASSUME NEW status, status # "APPROVED", SetCache(slot[s].w, slot[s].a, status),
                 NEW w \in Workers, NEW a \in Approvals, cache'[w][a] = "APPROVED"
          PROVE  cache[w][a] = "APPROVED"
      BY <2>1, <3>1 DEF SetCache, TypeOK
    <3> QED
      BY <2>2, <3>1
  <2>4. CASE UNCHANGED cacheCalls
    BY <2>1, <2>3, <2>4 DEF KeepsApart
  <2>5. CASE DispatchCached(s, slot[s].w, slot[s].a)
    <3>1. ByAnother(slot[s].a)
      BY <2>1, <2>5 DEF DispatchCached, FourEyes
    <3>2. \A b \in Approvals : b # slot[s].a => cacheCalls'[b] = cacheCalls[b]
      BY <2>1, <2>5 DEF DispatchCached, TypeOK
    <3> QED
      BY <2>1, <2>3, <3>1, <3>2 DEF KeepsApart
  <2> QED
    BY <1>7, <2>4, <2>5 DEF Admit
<1>8. ASSUME NEW s \in Slots, SlotStep(s)
      PROVE  KeepsApart
  BY <1>1, <1>5, <1>6, <1>7, <1>8
  DEF SlotStep, GrantFetch, FetchRow, GrantDecide, ReadGlobalSwitch, ReadTenantSwitch,
      DispatchFetch, DispatchFromRow, InsertIntent, Respond, RequestFails, database, memory, history
<1>9. ASSUME NEW w \in Workers, Restart(w) PROVE KeepsApart
  BY <1>9 DEF Restart, KeepsApart, TypeOK, history, database
<1>10. ASSUME NEW s, NEW w, NEW p, NEW a, NEW k, DispatchStart(s, w, p, a, k) PROVE KeepsApart
  BY <1>1, <1>10 DEF DispatchStart, history, database, memory
<1>11. ASSUME NEW a, Expire(a) PROVE KeepsApart
  BY <1>1, <1>11 DEF Expire, history, database, memory
<1>12. ASSUME NEW scopes, EngageKillSwitch(scopes) PROVE KeepsApart
  BY <1>1, <1>12 DEF EngageKillSwitch, history, memory
<1>13. CASE UNCHANGED vars
  BY <1>1, <1>13 DEF vars
<1> QED
  BY <1>2, <1>3, <1>4, <1>8, <1>9, <1>10, <1>11, <1>12, <1>13 DEF Next

\* Whatever was done from a cached record was signed by somebody other than its requester,
\* and what the requester signed is an approved row (step 2 of grant_approval, approvals.py).
THEOREM CachedCallsByAnother ==
    Spec => [](\A a \in Approvals : /\ cacheCalls[a] > 0 => ByAnother(a)
                                    /\ Requester[a] \in signed[a] => row[a] = "APPROVED")
<1>1. Init => FourEyes
  BY DEF Init, FourEyes
<1>2. TypeOK /\ FourEyes /\ [Next]_vars => FourEyes'
  BY FourEyesStep
<1>3. FourEyes => \A a \in Approvals : /\ cacheCalls[a] > 0 => ByAnother(a)
                                       /\ Requester[a] \in signed[a] => row[a] = "APPROVED"
  BY DEF FourEyes
<1> QED
  BY <1>1, <1>2, <1>3, TypeCorrect, PTL DEF Spec

\* A worker keeps its dictionary, and a request names an approval that has been created.
KeepsRecords == \A w \in Workers, a \in Approvals : InCache(w, a) => InCache(w, a)'
KnownIds == \A s \in Slots : slot'[s] # Idle => row'[slot'[s].a] # "ABSENT"

\* The API while it runs.
SteadySpec == Init /\ [][Next /\ KeepsRecords /\ KnownIds]_vars

\* With one worker every record is found in its dictionary, so nothing is done with a fetched one.
OneCopy ==
    /\ \A w \in Workers, a \in Approvals : row[a] # "ABSENT" => InCache(w, a)
    /\ \A s \in Slots :
          slot[s] # Idle =>
              /\ row[slot[s].a] # "ABSENT"
              /\ slot[s].pc \notin {"grantFetch", "grantDecide", "fetch", "dispatch"}
              /\ slot[s].pc = "grantUpdate" => slot[s].p # Requester[slot[s].a]
    /\ \A a \in Approvals : rowCalls[a] = 0
    /\ SeparationOfDuties

LEMMA OneCopyStep ==
    ASSUME NEW worker, Workers = {worker}, TypeOK, OneCopy,
           [Next /\ KeepsRecords /\ KnownIds]_vars
    PROVE  OneCopy'
<1> DEFINE Placed(r) == /\ slot[r].pc \notin {"grantFetch", "grantDecide", "fetch", "dispatch"}
                        /\ slot[r].pc = "grantUpdate" => slot[r].p # Requester[slot[r].a]
<1>1. CASE UNCHANGED vars
  BY <1>1 DEF vars, OneCopy, InCache, SeparationOfDuties
<1>2. CASE Next /\ KeepsRecords /\ KnownIds
  <2>1. ASSUME \A a \in Approvals : row[a] = "ABSENT" /\ row'[a] # "ABSENT" => InCache(worker, a)',
               \A r \in Slots : slot'[r] # Idle => slot'[r] = slot[r] \/ Placed(r)',
               UNCHANGED rowCalls,
               \A a \in Approvals : Requester[a] \in signed'[a] => Requester[a] \in signed[a]
        PROVE  OneCopy'
    BY <2>1, <1>2 DEF OneCopy, KeepsRecords, KnownIds, SeparationOfDuties
  <2>2. \A r \in Slots : slot[r].pc # "idle" =>
            /\ slot[r] # Idle /\ slot[r].w = worker
            /\ slot[r].a \in Approvals /\ InCache(slot[r].w, slot[r].a)
    BY SlotIsRequest DEF OneCopy, Request, Idle
  <2>3. ASSUME NEW w \in Workers, NEW a \in Approvals, CreateApproval(w, a) PROVE OneCopy'
    BY <2>1, <2>3 DEF CreateApproval, SetCache, InCache, TypeOK, history
  <2>4. ASSUME NEW s \in Slots, NEW w \in Workers, NEW p \in Principals, NEW a \in Approvals,
               GrantStart(s, w, p, a)
        PROVE  OneCopy'
    <3>1. UNCHANGED <<row, rowCalls>>
      BY <2>4 DEF GrantStart
    <3>2. CASE /\ MayGrantCached(w, p, a)
               /\ signed' = [signed EXCEPT ![a] = @ \cup {p}]
               /\ Begin(s, "grantUpdate", w, p, a, None, FALSE)
      <4>1. p # Requester[a]
        BY <3>2 DEF MayGrantCached
      <4>2. /\ slot'[s].pc = "grantUpdate" /\ slot'[s].p = p /\ slot'[s].a = a
            /\ \A r \in Slots : r # s => slot'[r] = slot[r]
        BY <3>2 DEF Begin, TypeOK
      <4>3. \A b \in Approvals : Requester[b] \in signed'[b] => Requester[b] \in signed[b]
        BY <3>2, <4>1 DEF TypeOK
      <4> QED
        BY <2>1, <3>1, <4>1, <4>2, <4>3
    <3>3. CASE UNCHANGED <<signed, slot>>
      BY <2>1, <3>1, <3>3
    <3>4. CASE ~InCache(w, a) /\ Begin(s, "grantFetch", w, p, a, None, FALSE)
      <4>1. slot'[s] # Idle /\ slot'[s].a = a
        BY <3>4 DEF Begin, TypeOK, Idle
      <4>2. row[a] # "ABSENT"
        BY <1>2, <3>1, <4>1 DEF KnownIds
      <4> QED
        BY <3>4, <4>2 DEF OneCopy
    <3> QED
      BY <2>4, <3>2, <3>3, <3>4 DEF GrantStart
  <2>5. ASSUME NEW s \in Slots, NEW w \in Workers, NEW p \in Principals, NEW a \in Approvals,
               RejectStart(s, w, p, a)
        PROVE  OneCopy'
    <3>1. slot'[s].pc = "rejectUpdate" /\ \A r \in Slots : r # s => slot'[r] = slot[r]
      BY <2>5 DEF RejectStart, Begin, TypeOK
    <3> QED
      BY <2>1, <2>5, <3>1 DEF RejectStart, history
  <2>6. ASSUME NEW s \in Slots, NEW w \in Workers, NEW p \in Operators, NEW a \in Approvals,
               NEW k \in Keys, DispatchStart(s, w, p, a, k)
        PROVE  OneCopy'
    <3>1. slot'[s].pc = "ksGlobal" /\ \A r \in Slots : r # s => slot'[r] = slot[r]
      BY <2>6 DEF DispatchStart, Begin, TypeOK
    <3> QED
      BY <2>1, <2>6, <3>1 DEF DispatchStart, database, history
  <2>7. ASSUME NEW s \in Slots, GrantUpdate(s) PROVE OneCopy'
    <3>1. slot[s].pc = "grantUpdate" /\ slot[s] # Idle /\ slot[s].a \in Approvals
      BY <2>2, <2>7 DEF GrantUpdate, At
    <3>2. slot[s].p # Requester[slot[s].a] /\ row[slot[s].a] # "ABSENT"
      BY <3>1 DEF OneCopy
    <3>3. \A b \in Approvals : Requester[b] \in signed'[b] => Requester[b] \in signed[b]
      BY <2>7, <3>1, <3>2 DEF GrantUpdate, TypeOK
    <3>4. \A b \in Approvals : row[b] = "ABSENT" => row'[b] = "ABSENT"
      BY <2>7, <3>1, <3>2 DEF GrantUpdate, TypeOK
    <3>5. UNCHANGED rowCalls /\ \A r \in Slots : slot'[r] # Idle => slot'[r] = slot[r]
      BY <2>7, FreeEffect DEF GrantUpdate
    <3> QED
      BY <2>1, <3>3, <3>4, <3>5
  <2>8. ASSUME NEW s \in Slots, RejectUpdate(s) PROVE OneCopy'
    <3>1. \A b \in Approvals : row[b] = "ABSENT" => row'[b] = "ABSENT"
      BY <2>8 DEF RejectUpdate, RejectableRow, TypeOK
    <3>2. UNCHANGED <<rowCalls, signed>> /\ \A r \in Slots : slot'[r] # Idle => slot'[r] = slot[r]
      BY <2>8, FreeEffect DEF RejectUpdate, history
    <3> QED
      BY <2>1, <3>1, <3>2
  <2>9. ASSUME NEW s \in Slots, Admit(s) PROVE OneCopy'
    <3>1. InCache(slot[s].w, slot[s].a) /\ slot[s].pc = "admitted"
      BY <2>2, <2>9 DEF Admit, At
    <3>2. Free(s) \/ Goto(s, "intent")
      BY <2>9, <3>1 DEF Admit, DispatchCached, AfterDispatch
    <3>3. \A r \in Slots : slot'[r] # Idle => slot'[r] = slot[r] \/ slot'[r].pc = "intent"
      BY <3>1, <3>2, FreeEffect, GotoEffect
    <3> QED
      BY <2>1, <2>9, <3>3 DEF Admit
  <2>10. ASSUME NEW s \in Slots, \/ GrantFetch(s) \/ GrantDecide(s) \/ DispatchFetch(s) \/ DispatchFromRow(s)
         PROVE  OneCopy'
    <3>1. slot[s].pc \in {"grantFetch", "grantDecide", "fetch", "dispatch"}
      BY <2>10 DEF GrantFetch, GrantDecide, DispatchFetch, DispatchFromRow, FetchRow, At
    <3> QED
      BY <2>2, <3>1 DEF OneCopy
  <2>11. ASSUME NEW s \in Slots, \/ ReadGlobalSwitch(s) \/ ReadTenantSwitch(s) \/ InsertIntent(s)
                                 \/ Respond(s) \/ RequestFails(s)
         PROVE  OneCopy'
    <3>1. \A r \in Slots : slot'[r] # Idle => slot'[r] = slot[r] \/ slot'[r].pc \in {"ksTenant", "admitted", "respond"}
      BY <2>11, FreeEffect, GotoEffect DEF ReadGlobalSwitch, ReadTenantSwitch, InsertIntent, Respond, RequestFails, At
    <3>2. UNCHANGED <<row, rowCalls, signed>>
      BY <2>11 DEF ReadGlobalSwitch, ReadTenantSwitch, InsertIntent, Respond, RequestFails, database, history
    <3> QED
      BY <2>1, <3>1, <3>2
  <2>12. ASSUME NEW w \in Workers, Restart(w) PROVE OneCopy'
    <3>1. UNCHANGED <<row, rowCalls, signed>> /\ \A r \in Slots : slot'[r] # Idle => slot'[r] = slot[r]
      BY <2>12 DEF Restart, database, history
    <3> QED
      BY <2>1, <3>1
  <2>13. ASSUME NEW a, Expire(a) PROVE OneCopy'
    BY <2>1, <2>13 DEF Expire, database, history
  <2>14. ASSUME NEW scopes, EngageKillSwitch(scopes) PROVE OneCopy'
    BY <2>1, <2>14 DEF EngageKillSwitch, history
  <2> QED
    BY <1>2, <2>3, <2>4, <2>5, <2>6, <2>7, <2>8, <2>9, <2>10, <2>11, <2>12, <2>13, <2>14 DEF Next, SlotStep
<1> QED
  BY <1>1, <1>2

\* One worker that keeps its dictionary executes an approval once at most and never lets its
\* requester sign: what dispatch_once and dispatch_duties show takes a second worker, or a
\* restart (the dictionaries of approvals.py against its tables; Dockerfile:49).
THEOREM OneCopySuffices ==
    ASSUME NEW worker, Workers = {worker}
    PROVE  SteadySpec => [](ExecutedAtMostOnce /\ SeparationOfDuties)
<1>1. SteadySpec => Spec
  BY PTL DEF SteadySpec, Spec
<1>2. Init => OneCopy
  BY DEF Init, OneCopy, SeparationOfDuties
<1>3. TypeOK /\ OneCopy /\ [Next /\ KeepsRecords /\ KnownIds]_vars => OneCopy'
  BY OneCopyStep
<1>4. TypeOK /\ OneCopy /\ CachedRecordCallsOnce => ExecutedAtMostOnce /\ SeparationOfDuties
  BY DEF TypeOK, OneCopy, CachedRecordCallsOnce, ExecutedAtMostOnce
<1> QED
  BY <1>1, <1>2, <1>3, <1>4, TypeCorrect, CachedCallsOnce, PTL DEF SteadySpec

=============================================================================
