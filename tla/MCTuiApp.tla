------------------------------ MODULE MCTuiApp ------------------------------
(* Instances of TuiApp for TLC: two prompts, as model values.               *)
EXTENDS TuiApp

CONSTANTS t1, t2

TwoTurns == {t1, t2}

=============================================================================
