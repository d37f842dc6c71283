---------------------- MODULE MCInvestigationWorkflow ----------------------
(***************************************************************************)
(* InvestigationWorkflow with the amounts the code charges, in cents.      *)
(***************************************************************************)
EXTENDS InvestigationWorkflow

MCCost == [scope |-> 5, plan |-> 20, sql |-> 10, retrieval |-> 15, tickets |-> 10,
           synthesize |-> 25, verify |-> 0, package |-> 0]

=============================================================================
