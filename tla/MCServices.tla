----------------------------- MODULE MCServices ------------------------------
(***************************************************************************)
(* The services around the governed action, checked side by side.  They    *)
(* share no state, so a behaviour takes the steps of one of them, focus,   *)
(* and leaves the others as they started: the reachable states are those   *)
(* of every service on its own, and every property is checked over them.   *)
(***************************************************************************)
EXTENDS KillSwitchBus, SpendQuota, SecretRotation, CanaryRelease, ReadinessGate, TenantLifecycle,
        ConnectorLifecycle, EventInbox, AnomalyReconciliation, EventStream, AuditChain,
        BudgetLedger, PlanDag, TLC

VARIABLE focus

MCCovers == "tenant" :> {"c1", "c2"} @@ "tool" :> {"c2"}
MCRotates == "rot1" :> "zendesk" @@ "rot2" :> "zendesk"
MCEntity == "w1" :> "acct" @@ "w2" :> "acct" @@ "w3" :> "acct" @@ "ping" :> "nothing"
MCStamps == "w1" :> {1} @@ "w2" :> {2} @@ "w3" :> {1, 2, 3} @@ "ping" :> {1}
MCTopics == "live1" :> "inv1" @@ "live2" :> "inv2" @@ "replay" :> "inv1"
MCCorrelation == "e1" :> "x" @@ "e2" :> "x" @@ "e3" :> "y"
MCAmounts == "r1" :> 1 @@ "r2" :> 2 @@ "r3" :> 4 @@ "r4" :> 1

\* Every plan of four tasks that none has itself for a prerequisite, every plan of two with
\* references to itself and to a third, a plan too long and an empty one.
MCTasks == {"u1", "u2", "u3", "u4"}
MCPlans == {plan \in [MCTasks -> SUBSET MCTasks] : \A t \in MCTasks : t \notin plan[t]}
           \cup [{"u1", "u2"} -> SUBSET {"u1", "u2", "u3"}]
           \cup {[t \in MCTasks \cup {"u5"} |-> {}], DgNoPlan}

vars == <<focus, ksVars, qtVars, srVars, crVars, rgVars, tnVars, cnVars, ibVars, anVars, esVars,
          acVars, blVars, dgVars>>

Services == {"KillSwitchBus", "SpendQuota", "SecretRotation", "CanaryRelease", "ReadinessGate",
             "TenantLifecycle", "ConnectorLifecycle", "EventInbox", "AnomalyReconciliation",
             "EventStream", "AuditChain", "BudgetLedger", "PlanDag"}

Init == /\ focus \in Services
        /\ KsInit /\ QtInit /\ SrInit /\ CrInit /\ RgInit /\ TnInit /\ CnInit /\ IbInit
        /\ AnInit /\ EsInit /\ AcInit /\ BlInit /\ DgInit

Only(name) == focus = name /\ UNCHANGED focus

Next ==
    \/ Only("KillSwitchBus") /\ KsNext
       /\ UNCHANGED <<qtVars, srVars, crVars, rgVars, tnVars, cnVars, ibVars, anVars, esVars, acVars, blVars, dgVars>>
    \/ Only("SpendQuota") /\ QtNext
       /\ UNCHANGED <<ksVars, srVars, crVars, rgVars, tnVars, cnVars, ibVars, anVars, esVars, acVars, blVars, dgVars>>
    \/ Only("SecretRotation") /\ SrNext
       /\ UNCHANGED <<ksVars, qtVars, crVars, rgVars, tnVars, cnVars, ibVars, anVars, esVars, acVars, blVars, dgVars>>
    \/ Only("CanaryRelease") /\ CrNext
       /\ UNCHANGED <<ksVars, qtVars, srVars, rgVars, tnVars, cnVars, ibVars, anVars, esVars, acVars, blVars, dgVars>>
    \/ Only("ReadinessGate") /\ RgNext
       /\ UNCHANGED <<ksVars, qtVars, srVars, crVars, tnVars, cnVars, ibVars, anVars, esVars, acVars, blVars, dgVars>>
    \/ Only("TenantLifecycle") /\ TnNext
       /\ UNCHANGED <<ksVars, qtVars, srVars, crVars, rgVars, cnVars, ibVars, anVars, esVars, acVars, blVars, dgVars>>
    \/ Only("ConnectorLifecycle") /\ CnNext
       /\ UNCHANGED <<ksVars, qtVars, srVars, crVars, rgVars, tnVars, ibVars, anVars, esVars, acVars, blVars, dgVars>>
    \/ Only("EventInbox") /\ IbNext
       /\ UNCHANGED <<ksVars, qtVars, srVars, crVars, rgVars, tnVars, cnVars, anVars, esVars, acVars, blVars, dgVars>>
    \/ Only("AnomalyReconciliation") /\ AnNext
       /\ UNCHANGED <<ksVars, qtVars, srVars, crVars, rgVars, tnVars, cnVars, ibVars, esVars, acVars, blVars, dgVars>>
    \/ Only("EventStream") /\ EsNext
       /\ UNCHANGED <<ksVars, qtVars, srVars, crVars, rgVars, tnVars, cnVars, ibVars, anVars, acVars, blVars, dgVars>>
    \/ Only("AuditChain") /\ AcNext
       /\ UNCHANGED <<ksVars, qtVars, srVars, crVars, rgVars, tnVars, cnVars, ibVars, anVars, esVars, blVars, dgVars>>
    \/ Only("BudgetLedger") /\ BlNext
       /\ UNCHANGED <<ksVars, qtVars, srVars, crVars, rgVars, tnVars, cnVars, ibVars, anVars, esVars, acVars, dgVars>>
    \/ Only("PlanDag") /\ DgNext
       /\ UNCHANGED <<ksVars, qtVars, srVars, crVars, rgVars, tnVars, cnVars, ibVars, anVars, esVars, acVars, blVars>>

Spec == Init /\ [][Next]_vars

\* The variables of every service have their types.
ServicesTypeOK == /\ KsTypeOK /\ QtTypeOK /\ SrTypeOK /\ CrTypeOK /\ RgTypeOK /\ TnTypeOK /\ CnTypeOK
                  /\ IbTypeOK /\ AnTypeOK /\ EsTypeOK /\ AcTypeOK /\ BlTypeOK /\ DgTypeOK
=============================================================================
