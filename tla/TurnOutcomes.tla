---------------------------- MODULE TurnOutcomes ----------------------------
(***************************************************************************)
(* How one call of QueryEngine::run_turn (crates/query/src/lib.rs) can end, *)
(* as its callers see it: the vocabulary shared by the engine's own model   *)
(* (TurnLoop), by the contract it offers (TurnContract) and by the gRPC     *)
(* host that runs turns concurrently (QueryHost).                           *)
(***************************************************************************)

Running == "running"

\* Ok(TurnOutcome) with a provider's stop reason or "max_turns"; Ok with
\* denied = true; Err(_).  A turn may end in one of these at any time.
Spontaneous == {"completed", "denied", "error"}

\* What a turn may end in, given whether its CancellationToken was cancelled.
TurnOutcomes(asked) == IF asked THEN Spontaneous \union {"cancelled"}
                                ELSE Spontaneous

AllOutcomes == TurnOutcomes(TRUE)

=============================================================================
