-------------------------- MODULE MCGovernedAction --------------------------
(***************************************************************************)
(* Instance of GovernedAction for TLC: a cheap payload that tier 1 may     *)
(* sign and a dear one that needs tier 3, a manager of tier 1 and an agent *)
(* that claims tier 3.  Nobody may sign the dear one.                      *)
(***************************************************************************)
EXTENDS GovernedAction, TLC

CONSTANTS cheap, dear, manager, agent

MCPayloads == {cheap, dear}
MCApprovers == {manager, agent}
MCRequiredTier == [p \in MCPayloads |-> IF p = cheap THEN 1 ELSE 3]
MCTier == [p \in MCApprovers |-> IF p = manager THEN 1 ELSE 3]
MCHumans == {manager}

\* Identifiers and keys are alike: no definition tells two of them apart.
MCSymmetry == Permutations(Approvals) \cup Permutations(Intents)
              \cup Permutations(Attempts) \cup Permutations(Keys)

=============================================================================
