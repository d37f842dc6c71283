---------------------------- MODULE KillSwitchBus ----------------------------
(***************************************************************************)
(* The kill switch services of the gateway nodes and the bus they share    *)
(* (safety/killswitch/service.py).  Every service keeps a store of its own *)
(* (_db_store) and a local cache; the bus keeps the last published record  *)
(* of every switch and pushes it to the services that have subscribed.     *)
(* The bus and the stores may be out of reach, one by one, and a node may  *)
(* be replaced by a new service, which starts empty and is seeded by the   *)
(* bus if that can be reached.                                             *)
(*                                                                         *)
(* A switch has an identifier of its own, drawn by activate, and is        *)
(* activated once; a record is therefore "none", "active" or "inactive".   *)
(* What it blocks is a constant: KsCovers[id], the calls its scope matches *)
(* (is_blocked), where a call stands for a tenant, a capability, a         *)
(* provider and an investigation.  The methods do not await, so each is    *)
(* one action.  Calls by agents are refused before anything is read.       *)
(***************************************************************************)
EXTENDS Naturals

CONSTANTS KsNodes,     \* gateway nodes
          KsIds,       \* identifiers of kill switches
          KsCalls,     \* the calls is_blocked is asked about
          KsCovers     \* the calls each switch blocks

ASSUME KsCoversAssumption == KsCovers \in [KsIds -> SUBSET KsCalls]

VARIABLES ksBus,       \* _active_records of the bus
          ksBusUp,     \* is_healthy of the bus
          ksStore,     \* _db_store of every node
          ksCache,     \* _local_cache of every node
          ksStoreUp,   \* is_db_healthy of every node
          ksRuns,      \* the nodes that have a service
          ksDue        \* history: switches published to, or seeded on, each node

ksVars == <<ksBus, ksBusUp, ksStore, ksCache, ksStoreUp, ksRuns, ksDue>>

KsRecords == {"none", "active", "inactive"}

KsInit == /\ ksBus = [id \in KsIds |-> "none"]
          /\ ksBusUp = TRUE
          /\ ksStore = [n \in KsNodes |-> [id \in KsIds |-> "none"]]
          /\ ksCache = [n \in KsNodes |-> [id \in KsIds |-> "none"]]
          /\ ksStoreUp = [n \in KsNodes |-> TRUE]
          /\ ksRuns = {}
          /\ ksDue = [n \in KsNodes |-> {}]

\* A service is constructed: it subscribes and, if the bus answers, is seeded.
KsSeed(n) ==
    IF ksBusUp
    THEN /\ ksCache' = [ksCache EXCEPT ![n] = ksBus]
         /\ ksStore' = [ksStore EXCEPT ![n] = ksBus]
         /\ ksDue' = [ksDue EXCEPT ![n] = KsIds]
    ELSE /\ ksCache' = [ksCache EXCEPT ![n] = [id \in KsIds |-> "none"]]
         /\ ksStore' = [ksStore EXCEPT ![n] = [id \in KsIds |-> "none"]]
         /\ ksDue' = [ksDue EXCEPT ![n] = {}]

KsStart(n) == /\ KsSeed(n)
              /\ ksRuns' = ksRuns \cup {n}
              /\ ksStoreUp' = [ksStoreUp EXCEPT ![n] = TRUE]
              /\ UNCHANGED <<ksBus, ksBusUp>>

\* What a write of record r of switch id by node n leaves in its own store.
KsOwnStore(n, id, r) == IF ksStoreUp[n] THEN [ksStore[n] EXCEPT ![id] = r] ELSE ksStore[n]

\* Mutant: a push spares the services whose store is out of reach.
KsPushedIfStored(known, id, r) ==
    [n \in KsNodes |-> IF n \in ksRuns /\ ksStoreUp[n] THEN [known[n] EXCEPT ![id] = r] ELSE known[n]]

\* The push that every subscribed service receives, whatever its store's health.
KsPushed(known, id, r) ==
    [n \in KsNodes |-> IF n \in ksRuns THEN [known[n] EXCEPT ![id] = r] ELSE known[n]]

\* The record is stored, cached and published; a bus out of reach is only logged.
KsWrite(n, id, r) ==
    /\ IF ksBusUp
       THEN /\ ksBus' = [ksBus EXCEPT ![id] = r]
            /\ ksStore' = KsPushed(ksStore, id, r)
            /\ ksCache' = KsPushed(ksCache, id, r)
            /\ ksDue' = [k \in KsNodes |-> IF k \in ksRuns THEN ksDue[k] \cup {id} ELSE ksDue[k]]
       ELSE /\ ksStore' = [ksStore EXCEPT ![n] = KsOwnStore(n, id, r)]
            /\ ksCache' = [ksCache EXCEPT ![n][id] = r]
            /\ UNCHANGED <<ksBus, ksDue>>
    /\ UNCHANGED <<ksBusUp, ksStoreUp, ksRuns>>

\* A fresh identifier: no record of it is anywhere.
KsUnused(id) == ksBus[id] = "none" /\ \A n \in KsNodes : ksCache[n][id] = "none"
                                                        /\ ksStore[n][id] = "none"

KsActivate(n, id) == n \in ksRuns /\ KsUnused(id) /\ KsWrite(n, id, "active")

\* deactivate looks in the cache, then in the store, never on the bus.
KsDeactivate(n, id) == /\ n \in ksRuns
                       /\ ksCache[n][id] # "none" \/ ksStore[n][id] # "none"
                       /\ KsWrite(n, id, "inactive")

KsBusTurns == /\ ksBusUp' = ~ksBusUp
              /\ UNCHANGED <<ksBus, ksStore, ksCache, ksStoreUp, ksRuns, ksDue>>

KsStoreTurns(n) == /\ n \in ksRuns
                   /\ ksStoreUp' = [ksStoreUp EXCEPT ![n] = ~ksStoreUp[n]]
                   /\ UNCHANGED <<ksBus, ksBusUp, ksStore, ksCache, ksRuns, ksDue>>

KsNext == \/ \E n \in KsNodes : KsStart(n) \/ KsStoreTurns(n)
          \/ \E n \in KsNodes, id \in KsIds : KsActivate(n, id) \/ KsDeactivate(n, id)
          \/ KsBusTurns

KsSpec == KsInit /\ [][KsNext]_ksVars

-----------------------------------------------------------------------------
\* get_active_switches: the bus, then the store, then an emergency lock.
KsView(n, up) == IF up THEN ksBus ELSE ksStore[n]
KsMatched(view, q) == \E id \in KsIds : view[id] = "active" /\ q \in KsCovers[id]
KsBlocked(n, up, q) == (~up /\ ~ksStoreUp[n]) \/ KsMatched(KsView(n, up), q)

-----------------------------------------------------------------------------
KsTypeOK == /\ ksBus \in [KsIds -> KsRecords]
            /\ ksBusUp \in BOOLEAN
            /\ ksStore \in [KsNodes -> [KsIds -> KsRecords]]
            /\ ksCache \in [KsNodes -> [KsIds -> KsRecords]]
            /\ ksStoreUp \in [KsNodes -> BOOLEAN]
            /\ ksRuns \subseteq KsNodes
            /\ ksDue \in [KsNodes -> SUBSET KsIds]

\* Whether a switch that covers q was deactivated at node n while the bus was out of
\* reach: the one reason for which losing the bus may release q.
KsReleasedHere(n, q) ==
    \E id \in KsIds : ksBus[id] = "active" /\ ksStore[n][id] = "inactive" /\ q \in KsCovers[id]

\* Losing the bus opens no node: what a switch blocks through the bus, a node that was pushed
\* or seeded with the switch blocks from its own store, through pushes that come while that
\* store is out of reach and deactivations at other nodes, unless a switch was deactivated
\* there and not on the bus (service.py:91-105 subscribes and seeds, :197-224 chooses the view).
KsFailoverKeepsBlocks ==
    \A n \in ksRuns, q \in KsCalls :
        (\E id \in ksDue[n] : ksBus[id] = "active" /\ q \in KsCovers[id])
            => KsBlocked(n, FALSE, q) \/ KsReleasedHere(n, q)
=============================================================================
