---------------------------- MODULE SagaContract ----------------------------
(***************************************************************************)
(* What one execution of a saga promises its caller, whatever becomes of   *)
(* its steps: they take effect one after the other, they are undone from   *)
(* the last one backwards or not at all, and nothing changes any more      *)
(* after a step whose outcome is in doubt.                                 *)
(***************************************************************************)
EXTENDS Naturals

CONSTANT StepCount

VARIABLES
    inEffect,   \* the steps of this execution that are in effect
    direction   \* "forward", "backward", "doubt" or "over"

contractVars == <<inEffect, direction>>

Begin ==
    /\ inEffect = {}
    /\ direction = "forward"

Advance(k) ==
    /\ direction = "forward"
    /\ inEffect = 1..(k - 1)
    /\ inEffect' = 1..k
    /\ UNCHANGED direction

\* The outcome of the next step is unknown: it may or may not be in effect.
Doubt(k) ==
    /\ direction = "forward"
    /\ inEffect = 1..(k - 1)
    /\ direction' = "doubt"
    /\ inEffect' \in {1..(k - 1), 1..k}

TurnBack ==
    /\ direction = "forward"
    /\ direction' = "backward"
    /\ UNCHANGED inEffect

Undo(k) ==
    /\ direction = "backward"
    /\ inEffect = 1..k
    /\ inEffect' = 1..(k - 1)
    /\ UNCHANGED direction

Finish ==
    /\ direction /= "over"
    /\ direction' = "over"
    /\ UNCHANGED inEffect

\* The caller executes the saga once more.
Again ==
    /\ direction = "over"
    /\ direction' = "forward"
    /\ inEffect' = {}

Act ==
    \/ \E k \in 1..StepCount : Advance(k) \/ Doubt(k) \/ Undo(k)
    \/ TurnBack
    \/ Finish
    \/ Again

Contract == Begin /\ [][Act]_contractVars
=============================================================================
