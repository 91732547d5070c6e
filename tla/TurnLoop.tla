------------------------------ MODULE TurnLoop ------------------------------
(***************************************************************************)
(* One call of QueryEngine::run_turn (crates/query/src/lib.rs:260-503): the *)
(* agent loop that asks the harness, streams the model's answer, runs the   *)
(* tool it asks for and starts over.  A step of the model is what the code  *)
(* does between two .await points; while a request is in flight (pc names   *)
(* it) the caller's token may be cancelled.                                 *)
(*                                                                         *)
(* The provider's stream, the hooks' decisions and the tools' results are   *)
(* whatever the backend returns.  A message is its kind, the round it       *)
(* belongs to, the tool call it names and, for text, how many chunks it     *)
(* holds.  The transcript the caller hands over is its last prompt only:    *)
(* no step reads the earlier messages.                                      *)
(***************************************************************************)
EXTENDS Naturals, Sequences, TurnOutcomes

CONSTANTS Calls,      \* identifiers of tool calls the provider may emit
          Reasons,    \* stop reasons the provider may finish with
          MaxTurns,   \* QueryEngine.max_turns
          MaxDeltas,  \* bound: deltas of one stream
          NoCall, NoFinish

ASSUME LoopAssumption ==
    /\ MaxTurns \in Nat
    /\ MaxDeltas \in Nat
    /\ NoCall \notin Calls
    /\ NoFinish \notin Reasons
    /\ "end_turn" \in Reasons
    /\ Reasons \intersect {"cancelled", "max_turns", "tool_denied"} = {}

VARIABLES pc,          \* the .await the call is suspended at
          turns,       \* turns_taken
          stopReason,  \* stop_reason
          chunks,      \* assistant_text: how many text deltas it holds
          call,        \* tool_call of the current stream
          finish,      \* finish of the current stream
          deltas,      \* bound: deltas consumed from the current stream
          cancelled,   \* the caller's CancellationToken
          messages,    \* session.messages from the caller's prompt on
          sink,        \* callbacks made on the TurnSink
          events,      \* events published on the SessionBus
          hooks,       \* harness RPCs issued
          streamed,    \* history: text chunks shown to the user, per round
          result       \* how the call returned

local   == <<chunks, call, finish, deltas>>
outputs == <<messages, sink, events>>
vars    == <<pc, turns, stopReason, local, cancelled, outputs, hooks,
             streamed, result>>

-----------------------------------------------------------------------------
Rounds == 0 .. MaxTurns

Msg(kind, id, n) == [kind |-> kind, turn |-> turns, id |-> id, chunks |-> n]
UserMsg     == [kind |-> "user", turn |-> 0, id |-> NoCall, chunks |-> 1]
Text(n)     == Msg("text", NoCall, n)
CutText(n)  == Msg("cut_text", NoCall, n)   \* ... "[cancelled by user]"
ToolUse(c)  == Msg("tool_use", c, 0)
ToolResult(c) == Msg("tool_result", c, 0)

Event(type, id) == [type |-> type, turn |-> turns, id |-> id]
Hook(name)      == [hook |-> name, turn |-> turns]

\* Mutant: the partial text of a cancelled stream is dropped.
RecordedUnlessCut(msg, n) ==
    IF n > 0 /\ ~cancelled THEN Append(messages, msg) ELSE messages

\* Text is recorded only when there is some.
Recorded(msg, n) == IF n > 0 THEN Append(messages, msg) ELSE messages

Init == /\ pc = "top"
        /\ turns = 0
        /\ stopReason = "end_turn"
        /\ chunks = 0
        /\ call = NoCall
        /\ finish = NoFinish
        /\ deltas = 0
        /\ cancelled = FALSE
        /\ messages = <<UserMsg>>
        /\ sink = <<>>
        /\ events = <<>>
        /\ hooks = <<>>
        /\ streamed = [k \in Rounds |-> 0]
        /\ result = Running

-----------------------------------------------------------------------------
(* Ways out of the call.                                                    *)

Return(how) == pc' = "done" /\ result' = how

\* Mutant: no Outcome event.
LeaveSilently(how, reason, published) ==
    Return(how) /\ stopReason' = reason /\ events' = published

\* Leaving the loop: the Outcome event is the last thing published.
Leave(how, reason, published) ==
    /\ Return(how)
    /\ stopReason' = reason
    /\ events' = Append(published, Event("outcome", NoCall))

\* `?` on an RPC: the error goes to the caller, nothing is published.
Fail == /\ Return("error")
        /\ UNCHANGED <<turns, stopReason, local, cancelled, outputs, hooks,
                       streamed>>

-----------------------------------------------------------------------------
(* The top of the loop.                                                     *)

HasTurnLeft == turns < MaxTurns

CancelledAtTop ==
    /\ pc = "top"
    /\ cancelled
    /\ sink' = Append(sink, "error")
    /\ Leave("cancelled", "cancelled", Append(events, Event("cancelled", NoCall)))
    /\ UNCHANGED <<turns, local, cancelled, messages, hooks, streamed>>

OutOfTurns ==
    /\ pc = "top"
    /\ ~cancelled
    /\ ~HasTurnLeft
    /\ Leave("completed", "max_turns", events)
    /\ UNCHANGED <<turns, local, cancelled, messages, sink, hooks, streamed>>

BeginTurn ==
    /\ pc = "top"
    /\ HasTurnLeft
    /\ turns' = turns + 1
    /\ hooks' = Append(hooks, [hook |-> "turn_start", turn |-> turns + 1])
    /\ pc' = "start_hook"
    /\ UNCHANGED <<stopReason, local, cancelled, outputs, streamed, result>>

\* Mutant: the token is not looked at between rounds.
StartTurnAnyway == BeginTurn

StartTurn == BeginTurn /\ ~cancelled

\* A DENY returns at once, without an Outcome event.
TurnDenied ==
    /\ pc = "start_hook"
    /\ Return("denied")
    /\ sink' = Append(sink, "error")
    /\ UNCHANGED <<turns, stopReason, local, cancelled, messages, events,
                   hooks, streamed>>

\* ALLOW and REWRITE alike: the request is built from the session as it is.
TurnAllowed ==
    /\ pc = "start_hook"
    /\ pc' = "open"
    /\ UNCHANGED <<turns, stopReason, local, cancelled, outputs, hooks,
                   streamed, result>>

StartHookFails == pc = "start_hook" /\ Fail

OpenStream ==
    /\ pc = "open"
    /\ pc' = "stream"
    /\ chunks' = 0 /\ call' = NoCall /\ finish' = NoFinish /\ deltas' = 0
    /\ UNCHANGED <<turns, stopReason, cancelled, outputs, hooks, streamed,
                   result>>

OpenFails == pc = "open" /\ Fail

-----------------------------------------------------------------------------
(* The stream: a biased select!, so a cancelled token always wins.          *)

\* Mutant: an unbiased select!, which may take a delta that is ready first.
ConsumeUnbiased ==
    /\ pc = "stream"
    /\ deltas < MaxDeltas
    /\ deltas' = deltas + 1
    /\ UNCHANGED <<pc, turns, stopReason, cancelled, messages, hooks, result>>

Consume == ConsumeUnbiased /\ ~cancelled

TextDelta ==
    /\ Consume
    /\ chunks' = chunks + 1
    /\ sink' = Append(sink, "text")
    /\ events' = Append(events, Event("assistant_text", NoCall))
    /\ streamed' = [streamed EXCEPT ![turns] = @ + 1]
    /\ UNCHANGED <<call, finish>>

\* A later call of the same stream replaces an earlier one.
ToolCallDelta(c) ==
    /\ Consume
    /\ call' = c
    /\ sink' = Append(sink, "tool_call")
    /\ events' = Append(events, Event("tool_call", c))
    /\ UNCHANGED <<chunks, finish, streamed>>

FinishDelta(reason) ==
    /\ Consume
    /\ finish' = reason
    /\ UNCHANGED <<chunks, call, sink, events, streamed>>

StreamFails == pc = "stream" /\ ~cancelled /\ Fail

\* Mutant: the token is looked at between rounds only.
StreamIgnoresToken == FALSE

CancelledMidStream ==
    /\ pc = "stream"
    /\ cancelled
    /\ sink' = Append(sink, "error")
    /\ messages' = Recorded(CutText(chunks), chunks)
    /\ Leave("cancelled", "cancelled", Append(events, Event("cancelled", NoCall)))
    /\ UNCHANGED <<turns, local, cancelled, hooks, streamed>>

\* Mutant: a stream without text ends without OnTurnEnd.
EndStreamQuietly ==
    /\ pc = "stream"
    /\ ~cancelled
    /\ messages' = Recorded(Text(chunks), chunks)
    /\ stopReason' = IF finish = NoFinish THEN "end_turn" ELSE finish
    /\ sink' = Append(sink, "finish")
    /\ hooks' = IF chunks > 0 THEN Append(hooks, Hook("turn_end")) ELSE hooks
    /\ pc' = "end_hook"
    /\ UNCHANGED <<turns, local, cancelled, events, streamed, result>>

\* The assistant's text is recorded, then OnTurnEnd is called.
EndStream ==
    /\ pc = "stream"
    /\ ~cancelled
    /\ messages' = Recorded(Text(chunks), chunks)
    /\ stopReason' = IF finish = NoFinish THEN "end_turn" ELSE finish
    /\ sink' = Append(sink, "finish")
    /\ hooks' = Append(hooks, Hook("turn_end"))
    /\ pc' = "end_hook"
    /\ UNCHANGED <<turns, local, cancelled, events, streamed, result>>

-----------------------------------------------------------------------------
(* After the stream.  None of these awaits looks at the token.              *)

\* OnTurnEnd answered or failed (logged only); the stream asked for a tool.
AskToolHook ==
    /\ pc = "end_hook"
    /\ call # NoCall
    /\ hooks' = Append(hooks, Hook("tool_call"))
    /\ pc' = "tool_hook"
    /\ UNCHANGED <<turns, stopReason, local, cancelled, outputs, streamed,
                   result>>

NoToolWanted ==
    /\ pc = "end_hook"
    /\ call = NoCall
    /\ Leave("completed", stopReason, events)
    /\ UNCHANGED <<turns, local, cancelled, messages, sink, hooks, streamed>>

\* Mutant: a denied tool ends the call.
DenialEndsCall ==
    /\ pc = "tool_hook"
    /\ sink' = Append(sink, "error")
    /\ messages' = Append(messages, ToolResult(call))
    /\ Leave("completed", "tool_denied", events)
    /\ UNCHANGED <<turns, local, cancelled, hooks, streamed>>

\* The denial is recorded as a result of a call that was not recorded.
ToolDenied ==
    /\ pc = "tool_hook"
    /\ sink' = Append(sink, "error")
    /\ messages' = Append(messages, ToolResult(call))
    /\ stopReason' = "tool_denied"
    /\ pc' = "top"
    /\ UNCHANGED <<turns, local, cancelled, events, hooks, streamed, result>>

ToolAllowed ==
    /\ pc = "tool_hook"
    /\ messages' = Append(messages, ToolUse(call))
    /\ pc' = "invoke"
    /\ UNCHANGED <<turns, stopReason, local, cancelled, sink, events, hooks,
                   streamed, result>>

ToolHookFails == pc = "tool_hook" /\ Fail

\* Mutant: a failed tool fails the call.
ToolFailsCall == pc = "invoke" /\ Fail

\* invoke returned; an Err became a result that says so.
ToolReturns ==
    /\ pc = "invoke"
    /\ sink' = Append(sink, "tool_result")
    /\ events' = Append(events, Event("tool_result", call))
    /\ messages' = Append(messages, ToolResult(call))
    /\ pc' = "top"
    /\ UNCHANGED <<turns, stopReason, local, cancelled, hooks, streamed,
                   result>>

-----------------------------------------------------------------------------
\* The caller cancels its token while the call is in flight.
Cancel ==
    /\ ~cancelled
    /\ pc # "done"
    /\ cancelled' = TRUE
    /\ UNCHANGED <<pc, turns, stopReason, local, outputs, hooks, streamed,
                   result>>

Deltas == \/ TextDelta
          \/ \E c \in Calls : ToolCallDelta(c)
          \/ \E r \in Reasons : FinishDelta(r)

\* Steps the call takes by itself, at the head of the loop and when its token
\* ends the stream.
OwnStep == CancelledAtTop \/ OutOfTurns \/ StartTurn \/ CancelledMidStream

\* Steps it takes when the request it waits for was answered or failed.
Answered == \/ TurnDenied \/ TurnAllowed \/ StartHookFails
            \/ OpenStream \/ OpenFails
            \/ AskToolHook \/ NoToolWanted
            \/ ToolDenied \/ ToolAllowed \/ ToolHookFails
            \/ ToolReturns

Next == OwnStep \/ Answered \/ Deltas \/ StreamFails \/ EndStream \/ Cancel

Spec == Init /\ [][Next]_vars

(***************************************************************************)
(* The call takes its own steps.  Nobody owes it an answer: no RPC has a    *)
(* timeout (ipc lib.rs:33-35), the sidecar answers ChatStream only with the *)
(* provider's first delta, a hook and a tool run as long as they like, and  *)
(* none of these awaits looks at the token; only the stream's does.         *)
(***************************************************************************)
FairSpec == Spec /\ WF_vars(OwnStep)

\* The call waits for the answer to a request: a hook, the opening of a
\* stream (query:319), a tool.  A stream that is open is not one of them.
Held == pc \in {"start_hook", "open", "end_hook", "tool_hook", "invoke"}

\* The call has a step of its own to take.
OnItsOwn == pc = "top" \/ (pc = "stream" /\ cancelled)

\* The fairness as the proofs use it, with ENABLED spelled out.
GoesOn == []<>~OnItsOwn \/ []<><<OwnStep>>_vars

-----------------------------------------------------------------------------
(* Properties.                                                              *)

Messages == [kind: {"user", "text", "cut_text", "tool_use", "tool_result"},
             turn: Rounds, id: Calls \union {NoCall}, chunks: Nat]
Events   == [type: {"assistant_text", "tool_call", "tool_result", "cancelled",
                    "outcome"},
             turn: Rounds, id: Calls \union {NoCall}]
Hooks    == [hook: {"turn_start", "turn_end", "tool_call"}, turn: Rounds]

\* The values each piece of the loop's state may take.
TypeOK ==
    /\ pc \in {"top", "start_hook", "open", "stream", "end_hook", "tool_hook",
               "invoke", "done"}
    /\ turns \in Rounds
    /\ stopReason \in Reasons \union {"cancelled", "max_turns", "tool_denied"}
    /\ chunks \in Nat
    /\ call \in Calls \union {NoCall}
    /\ finish \in Reasons \union {NoFinish}
    /\ deltas \in 0 .. MaxDeltas
    /\ cancelled \in BOOLEAN
    /\ messages \in Seq(Messages)
    /\ sink \in Seq({"text", "tool_call", "tool_result", "finish", "error"})
    /\ events \in Seq(Events)
    /\ hooks \in Seq(Hooks)
    /\ streamed \in [Rounds -> Nat]
    /\ result \in {Running} \union AllOutcomes

\* The text the user saw in round k is in the transcript, whole.
TextKept(k) ==
    streamed[k] = 0 \/ \E i \in DOMAIN messages :
                          /\ messages[i].kind \in {"text", "cut_text"}
                          /\ messages[i].turn = k
                          /\ messages[i].chunks = streamed[k]

\* Every text chunk shown to the user is in the session when the call
\* returns Ok, a cancelled call included (query:375-382, 405-408): only the
\* stream being read may hold text the session does not have yet.
NoTextLost ==
    result # "error" =>
        \A k \in Rounds : TextKept(k) \/ (pc = "stream" /\ k = turns)

\* Every tool use in the session is followed by the result of that very
\* call, except the last one while its tool is running (query:454-481): no
\* way out of the loop leaves a call without its answer.
ToolUseAnswered ==
    \A i \in DOMAIN messages :
        messages[i].kind = "tool_use" =>
            \/ /\ i < Len(messages)
               /\ messages[i + 1].kind = "tool_result"
               /\ messages[i + 1].id = messages[i].id
            \/ i = Len(messages) /\ pc = "invoke"

\* The round's OnTurnStart and OnTurnEnd were both called, in this order.
HooksCalled(k) ==
    \E i, j \in DOMAIN hooks : /\ i < j
                               /\ hooks[i] = [hook |-> "turn_start", turn |-> k]
                               /\ hooks[j] = [hook |-> "turn_end", turn |-> k]

\* A middleware that counts in its hooks (token_budget_middleware does) counts
\* right: no hook is called twice for a round, and every round that a later
\* one follows, or that completes the call, has had its start and its end
\* (query:285-297, 421-428).  A round that is cut, denied or fails has a
\* start only.
HooksPaired ==
    /\ \A i, j \in DOMAIN hooks : hooks[i] = hooks[j] => i = j
    /\ \A k \in 1 .. turns : k < turns \/ result = "completed" => HooksCalled(k)

\* A watcher of the session sees one Outcome for a call that was not denied
\* and did not fail, and nothing of the call after it (query:389-396,
\* 488-502; the bus test calls it the terminal marker).
OutcomeClosesBus ==
    /\ \A i \in DOMAIN events :
          events[i].type = "outcome" => i = Len(events) /\ pc = "done"
    /\ result \in {"completed", "cancelled"} =>
          events # <<>> /\ events[Len(events)].type = "outcome"

\* The reason an Ok call reports is the true one: "cancelled" only for a
\* cancelled token, "max_turns" only when every round was used and the last
\* one left a tool result the model never saw; a tool denial never surfaces,
\* because the loop always goes on after it (query:448-449).
ReasonIsTrue ==
    result \in {"completed", "cancelled"} =>
        /\ stopReason # "tool_denied"
        /\ stopReason = "cancelled" <=> result = "cancelled"
        /\ result = "cancelled" => cancelled
        /\ stopReason = "max_turns" =>
              /\ turns = MaxTurns
              /\ turns > 0 => messages[Len(messages)].kind = "tool_result"

\* Once the token is cancelled no further round starts and the user is shown
\* no more of the model's text (query:270-280, 327-334).  What the round already
\* begun still does is left to it: its OnTurnStart may be answered after the
\* cancel, and its one request then goes to the model (query:297-319).
CancelIsPrompt ==
    [][cancelled => turns' = turns /\ streamed' = streamed]_vars

\* A cancelled call returns, also when the provider goes silent in the middle
\* of its stream, unless a request it made is never answered: then it waits
\* there for ever, its token unread.
CancelReturns == GoesOn /\ (cancelled ~> pc = "done" \/ []Held)

-----------------------------------------------------------------------------
(* Statements of the repository's comments and docs that the loop breaks.   *)

\* "Persist the assistant-side tool_use record so the next turn's request to
\* the provider can reconstruct the pairing. Anthropic strictly requires
\* this." (query:456-458): a tool result follows the tool use it answers.
ToolResultPaired ==
    \A i \in DOMAIN messages :
        messages[i].kind = "tool_result" =>
            /\ i > 1
            /\ messages[i - 1].kind = "tool_use"
            /\ messages[i - 1].id = messages[i].id

\* "tool_call -> Harness.OnToolCall -> ALLOW | DENY | REWRITE ->
\* ToolRegistry.invoke -> append tool_result -> next turn", for each tool_call
\* delta (query:9-12): a call that completed has answered every tool call it
\* announced.
EveryCallAnswered ==
    result = "completed" =>
        \A i \in DOMAIN events : events[i].type = "tool_call" =>
            \E j \in DOMAIN messages : /\ messages[j].kind = "tool_result"
                                       /\ messages[j].id = events[i].id

-----------------------------------------------------------------------------
(* The loop keeps the contract its callers rely on.                         *)

Contract == INSTANCE TurnContract
              WITH Limit <- MaxTurns, asked <- cancelled, outcome <- result,
                   rounds <- turns, grown <- Len(messages) - 1, held <- Held

\* The loop implements TurnContract: it returns once, says "cancelled" only
\* when asked, starts at most max_turns rounds and none after a cancel, only
\* appends to the transcript, and when cancelled it returns or is held for
\* ever by a request nobody answers.
KeepsContract == Contract!Spec

=============================================================================
