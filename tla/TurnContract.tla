---------------------------- MODULE TurnContract ----------------------------
(***************************************************************************)
(* What QueryEngine::run_turn promises its caller, whatever the provider,   *)
(* the hooks and the tools do: it returns at most once; it says "cancelled" *)
(* only if the caller's token was cancelled; the transcript it was handed   *)
(* only grows, and not after the call returned; it goes through max_turns   *)
(* rounds at most; and a cancelled call returns, unless a request it made   *)
(* is never answered.                                                       *)
(***************************************************************************)
EXTENDS Naturals, TurnOutcomes

CONSTANT Limit      \* max_turns of the engine

VARIABLES asked,    \* the caller's token is cancelled
          outcome,  \* Running, or how the call ended
          rounds,   \* how many rounds it began; each asks the model once at most
          grown,    \* how many messages the call has appended
          held      \* it waits for an answer and does not look at its token

vars == <<asked, outcome, rounds, grown, held>>

Init == /\ asked = FALSE
        /\ outcome = Running
        /\ rounds = 0
        /\ grown = 0
        /\ held = FALSE

Ask == /\ ~asked
       /\ asked' = TRUE
       /\ UNCHANGED <<outcome, rounds, grown, held>>

\* A new round starts only if the caller has not asked for the end, and with
\* a request.
Round == /\ outcome = Running
         /\ ~asked
         /\ rounds < Limit
         /\ rounds' = rounds + 1
         /\ held' = TRUE
         /\ UNCHANGED <<asked, outcome, grown>>

\* It was answered, makes the next request or reads the stream.
Proceed == /\ outcome = Running
           /\ held' \in BOOLEAN
           /\ UNCHANGED <<asked, outcome, rounds, grown>>

Record == /\ outcome = Running
          /\ grown' = grown + 1
          /\ held' \in BOOLEAN
          /\ UNCHANGED <<asked, outcome, rounds>>

\* Returning may append the text that was on its way when the call ended.
Return == /\ outcome = Running
          /\ outcome' \in TurnOutcomes(asked)
          /\ grown' \in {grown, grown + 1}
          /\ held' = FALSE
          /\ UNCHANGED <<asked, rounds>>

Next == Ask \/ Round \/ Proceed \/ Record \/ Return

\* A cancelled call returns or is held for ever; nothing else is promised to
\* happen.
CancelReturns == asked ~> outcome # Running \/ []held

Spec == Init /\ [][Next]_vars /\ CancelReturns

=============================================================================
