----------------------------- MODULE MCTurnLoop -----------------------------
(* Instances of TurnLoop for TLC: two tool-call identifiers, the two stop   *)
(* reasons that matter to the loop.                                         *)
EXTENDS TurnLoop

CONSTANTS c1, c2

MCCalls == {c1, c2}
MCReasons == {"end_turn", "tool_use"}

=============================================================================
