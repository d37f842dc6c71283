----------------------------- MODULE EventInbox -----------------------------
(***************************************************************************)
(* The transactional inbox of the connectors (connectors/ingestion/        *)
(* inbox.py) for one tenant.  An event is an external identifier of a      *)
(* connector; it is about an entity, or none, and carries the timestamp of *)
(* its source or, if it has none, that of its receipt.  Providers deliver  *)
(* it any number of times and in any order; record_incoming_event is one   *)
(* action.  Events of different connectors may be about one entity: the    *)
(* canonical state is kept by entity alone.                                *)
(***************************************************************************)
EXTENDS Naturals

CONSTANTS IbEvents,      \* deliveries with an identifier of their own
          IbEntity,      \* the entity of every event, IbNone if it names none
          IbStamps,      \* the timestamps each event may be received with
          IbNone         \* no entity, no event

ASSUME IbStampsAssumption == IbStamps \in [IbEvents -> SUBSET Nat]
ASSUME IbNoneAssumption == IbNone \notin IbEvents

VARIABLES ibReceipt,     \* _inbox_registry: status of every event received
          ibTime,        \* the timestamp each event was received with
          ibCanonical    \* _canonical_entity_state: the event that wrote each entity last

ibVars == <<ibReceipt, ibTime, ibCanonical>>

IbEntities == {IbEntity[e] : e \in IbEvents} \ {IbNone}

IbInit == /\ ibReceipt = [e \in IbEvents |-> "none"]
          /\ ibTime = [e \in IbEvents |-> 0]
          /\ ibCanonical = [n \in IbEntities |-> IbNone]

\* Mutant: a stale event is recorded, and applied.
IbNeverSuperseded(e, t) == FALSE

\* A later event has written the entity already.
IbSuperseded(e, t) == LET n == IbEntity[e]
                      IN n # IbNone /\ ibCanonical[n] # IbNone /\ t < ibTime[ibCanonical[n]]

\* The first delivery of an event; any other is acknowledged as DUPLICATE and changes nothing.
IbReceive(e, t) ==
    /\ ibReceipt[e] = "none"
    /\ ibTime' = [ibTime EXCEPT ![e] = t]
    /\ IF IbSuperseded(e, t)
       THEN /\ ibReceipt' = [ibReceipt EXCEPT ![e] = "IGNORED_OUT_OF_ORDER"]
            /\ UNCHANGED ibCanonical
       ELSE /\ ibReceipt' = [ibReceipt EXCEPT ![e] = "PROCESSED"]
            /\ ibCanonical' = IF IbEntity[e] = IbNone THEN ibCanonical
                              ELSE [ibCanonical EXCEPT ![IbEntity[e]] = e]

IbNext == \E e \in IbEvents : \E t \in IbStamps[e] : IbReceive(e, t)

IbSpec == IbInit /\ [][IbNext]_ibVars

-----------------------------------------------------------------------------
IbTypeOK == /\ ibReceipt \in [IbEvents -> {"none", "PROCESSED", "IGNORED_OUT_OF_ORDER"}]
            /\ ibTime \in [IbEvents -> Nat]
            /\ ibCanonical \in [IbEntities -> IbEvents \cup {IbNone}]

\* An older event does not take the canonical state back, in whatever order events are delivered:
\* every entity is in the state of a received event than which no received event about it, of
\* whatever connector, is later. Of several latest ones it may be any (inbox.py:81-121).
IbOrderIsIrrelevant ==
    \A e \in IbEvents : ibReceipt[e] # "none" /\ IbEntity[e] # IbNone =>
        LET last == ibCanonical[IbEntity[e]]
        IN /\ last # IbNone /\ IbEntity[last] = IbEntity[e]
           /\ ibReceipt[last] = "PROCESSED" /\ ibTime[e] <= ibTime[last]
=============================================================================
