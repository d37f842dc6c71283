-------------------------- MODULE MCActionDispatch --------------------------
(***************************************************************************)
(* Instances of ActionDispatch for TLC: an approval of tier 2 costing 500. *)
(* bob has the tier and the ceiling, eve has more but belongs to another   *)
(* tenant, and alice, who asked for it, has the level the cfg gives her.   *)
(***************************************************************************)
EXTENDS ActionDispatch, TLC

CONSTANTS alice, bob, eve, t1, t2, RequesterLevel

MCTenantOf == [p \in Principals |-> IF p = eve THEN t2 ELSE t1]
MCLevel == [p \in Principals |->
              CASE p = alice -> RequesterLevel [] p = eve -> 3 [] OTHER -> 2]
MCRequester == [a \in Approvals |-> alice]
MCRequiredTier == [a \in Approvals |-> 2]
MCCost == [a \in Approvals |-> 500]

\* The whole platform or the tenant of the approval is halted.
MCSwitchScopes == {{Global}, {t1}}

\* Workers are alike and request slots are alike: no definition tells two of
\* them apart.
MCSymmetry == Permutations(Workers) \cup Permutations(Slots)

=============================================================================
