--------------------------- MODULE TurnLoopProofs ---------------------------
(***************************************************************************)
(* Proofs about TurnLoop, for any limit on the rounds and any provider: its *)
(* types, the transcript it leaves, what it reports, and that its steps are *)
(* steps of TurnContract.                                                   *)
(***************************************************************************)
EXTENDS TurnLoop, TLAPS

\* What the steps append to the transcript, the bus and the hooks is of the
\* right type.
LEMMA AppendedTypes ==
    ASSUME TypeOK
    PROVE  /\ \A type \in {"assistant_text", "tool_call", "tool_result",
                          "cancelled", "outcome"}, id \in Calls \union {NoCall} :
                 Event(type, id) \in Events
           /\ \A name \in {"turn_start", "turn_end", "tool_call"} :
                 Hook(name) \in Hooks
           /\ Text(chunks) \in Messages /\ CutText(chunks) \in Messages
           /\ ToolUse(call) \in Messages /\ ToolResult(call) \in Messages
BY DEF TypeOK, Event, Hook, Text, CutText, ToolUse, ToolResult, Msg,
       Events, Hooks, Messages

\* The loop's state keeps its types.
THEOREM TypeCorrect == Spec => []TypeOK
<1> USE LoopAssumption
<1>1. Init => TypeOK
  BY DEF Init, UserMsg, Messages, TypeOK, Running, Rounds
<1>2. TypeOK /\ [Next]_vars => TypeOK'
  <2> SUFFICES ASSUME TypeOK, [Next]_vars PROVE TypeOK'
    OBVIOUS
  <2>0. ASSUME NEW pub \in Seq(Events) 
        PROVE  Append(pub, Event("outcome", NoCall)) \in Seq(Events)
    BY AppendedTypes
  <2> USE DEF TypeOK, local, outputs, Running, AllOutcomes, TurnOutcomes, Spontaneous
  <2>1. CASE CancelledAtTop
    <3>1. Append(events, Event("cancelled", NoCall)) \in Seq(Events)
      BY AppendedTypes
    <3>2. events' \in Seq(Events)
      BY <2>1, <3>1, <2>0 DEF CancelledAtTop, Leave
    <3> QED BY <2>1, <3>2 DEF CancelledAtTop, Leave, Return
  <2>2. CASE OutOfTurns \/ NoToolWanted
    <3>1. events' \in Seq(Events)
      BY <2>2, <2>0 DEF OutOfTurns, NoToolWanted, Leave
    <3>2. CASE OutOfTurns
      BY <3>1, <3>2 DEF OutOfTurns, Leave, Return
    <3>3. CASE NoToolWanted
      BY <3>1, <3>3 DEF NoToolWanted, Leave, Return
    <3> QED BY <2>2, <3>2, <3>3
  <2>3. CASE StartTurn
    <3>1. [hook |-> "turn_start", turn |-> turns + 1] \in Hooks
      BY <2>3 DEF StartTurn, BeginTurn, HasTurnLeft, Hooks, Rounds
    <3>2. turns' \in Rounds /\ hooks' \in Seq(Hooks)
      BY <2>3, <3>1 DEF StartTurn, BeginTurn, HasTurnLeft, Rounds
    <3> QED BY <2>3, <3>2 DEF StartTurn, BeginTurn
  <2>4. CASE TurnDenied
    BY <2>4 DEF TurnDenied, Return
  <2>18. CASE TurnAllowed
    BY <2>18 DEF TurnAllowed
  <2>5. CASE StartHookFails \/ OpenFails \/ StreamFails \/ ToolHookFails
    BY <2>5 DEF StartHookFails, OpenFails, StreamFails, ToolHookFails, Fail, Return
  <2>6. CASE OpenStream
    BY <2>6 DEF OpenStream
  <2>7. CASE TextDelta
    <3>1. streamed' \in [Rounds -> Nat]
      BY <2>7 DEF TextDelta
    <3>2. events' \in Seq(Events)
      BY AppendedTypes, <2>7 DEF TextDelta
    <3> QED BY <2>7, <3>1, <3>2 DEF TextDelta, Consume, ConsumeUnbiased
  <2>8. ASSUME NEW c \in Calls, ToolCallDelta(c) PROVE TypeOK'
    <3>1. events' \in Seq(Events)
      BY AppendedTypes, <2>8 DEF ToolCallDelta
    <3> QED BY <2>8, <3>1 DEF ToolCallDelta, Consume, ConsumeUnbiased
  <2>9. ASSUME NEW r \in Reasons, FinishDelta(r) PROVE TypeOK'
    BY <2>9 DEF FinishDelta, Consume, ConsumeUnbiased
  <2>10. CASE CancelledMidStream
    <3>1. Append(events, Event("cancelled", NoCall)) \in Seq(Events)
      BY AppendedTypes
    <3>2. events' \in Seq(Events)
      BY <2>10, <3>1, <2>0 DEF CancelledMidStream, Leave
    <3>3. messages' \in Seq(Messages)
      BY AppendedTypes, <2>10 DEF CancelledMidStream, Recorded
    <3> QED BY <2>10, <3>2, <3>3 DEF CancelledMidStream, Leave, Return
  <2>11. CASE EndStream
    <3>1. messages' \in Seq(Messages)
      BY AppendedTypes, <2>11 DEF EndStream, Recorded
    <3>2. hooks' \in Seq(Hooks)
      BY AppendedTypes, <2>11 DEF EndStream
    <3> QED BY <2>11, <3>1, <3>2 DEF EndStream
  <2>12. CASE AskToolHook
    <3>1. hooks' \in Seq(Hooks)
      BY AppendedTypes, <2>12 DEF AskToolHook
    <3> QED BY <2>12, <3>1 DEF AskToolHook
  <2>13. CASE ToolDenied
    <3>1. messages' \in Seq(Messages)
      BY AppendedTypes, <2>13 DEF ToolDenied
    <3> QED BY <2>13, <3>1 DEF ToolDenied
  <2>17. CASE ToolReturns
    <3>1. messages' \in Seq(Messages)
      BY AppendedTypes, <2>17 DEF ToolReturns
    <3>2. events' \in Seq(Events)
      <4>1. Event("tool_result", call) \in Events
        BY AppendedTypes
      <4> QED BY <4>1, <2>17 DEF ToolReturns
    <3> QED BY <2>17, <3>1, <3>2 DEF ToolReturns
  <2>14. CASE ToolAllowed
    <3>1. messages' \in Seq(Messages)
      BY AppendedTypes, <2>14 DEF ToolAllowed
    <3> QED BY <2>14, <3>1 DEF ToolAllowed
  <2>15. CASE Cancel
    BY <2>15 DEF Cancel
  <2>16. CASE UNCHANGED vars
    BY <2>16 DEF vars
  <2> QED
    BY <2>1, <2>2, <2>3, <2>4, <2>5, <2>6, <2>7, <2>8, <2>9, <2>10, <2>11,
       <2>12, <2>13, <2>14, <2>15, <2>16, <2>17, <2>18
    DEF Next, OwnStep, Answered, Deltas
<1> QED BY <1>1, <1>2, PTL DEF Spec

-----------------------------------------------------------------------------
(* The inductive invariant behind the safety properties.                    *)

\* The call has a result exactly when it is over.
OverWhenDone == pc = "done" <=> result # Running

\* What the user saw of the round being read is what the loop has collected;
\* rounds that have not streamed yet have shown nothing.
ShownIsCollected ==
    /\ \A k \in Rounds : k > turns => streamed[k] = 0
    /\ pc \in {"start_hook", "open"} => streamed[turns] = 0
    /\ pc = "stream" => streamed[turns] = chunks

\* While a tool runs, the last message is its tool use.
UseIsLast == pc = "invoke" => /\ messages # <<>>
                              /\ messages[Len(messages)].kind = "tool_use"
                              /\ messages[Len(messages)].id = call

\* Back at the top, the last message is a tool's result.
ResultIsLast == pc = "top" /\ turns > 0 =>
    messages # <<>> /\ messages[Len(messages)].kind = "tool_result"

\* A turn that ends without a tool reports what the provider said.
ReasonFromProvider == pc = "end_hook" => stopReason \in Reasons

LoopInv == /\ OverWhenDone
           /\ ShownIsCollected /\ NoTextLost
           /\ UseIsLast /\ ResultIsLast /\ ToolUseAnswered
           /\ OutcomeClosesBus
           /\ ReasonFromProvider /\ ReasonIsTrue

\* A step appends to the transcript or leaves it alone.
LEMMA TranscriptGrows ==
    ASSUME TypeOK, [Next]_vars
    PROVE  \/ messages' = messages
           \/ \E m \in Messages : messages' = Append(messages, m)
<1>1. CASE UNCHANGED vars
  BY <1>1 DEF vars, outputs
<1>2. CASE CancelledMidStream \/ EndStream
  BY <1>2, AppendedTypes DEF CancelledMidStream, EndStream, Recorded
<1>3. CASE ToolDenied \/ ToolAllowed \/ ToolReturns
  BY <1>3, AppendedTypes DEF ToolDenied, ToolAllowed, ToolReturns
<1>4. ASSUME NEW c \in Calls, ToolCallDelta(c) PROVE messages' = messages
  BY <1>4 DEF ToolCallDelta, Consume, ConsumeUnbiased
<1>5. ASSUME NEW r \in Reasons, FinishDelta(r) PROVE messages' = messages
  BY <1>5 DEF FinishDelta, Consume, ConsumeUnbiased
<1>6. ASSUME ~UNCHANGED vars, ~(CancelledMidStream \/ EndStream),
             ~(ToolDenied \/ ToolAllowed \/ ToolReturns)
      PROVE  messages' = messages
  BY <1>4, <1>5, <1>6
  DEF Next, OwnStep, Answered, Deltas, Cancel, TextDelta, Consume, ConsumeUnbiased,
      StreamFails, Fail, CancelledAtTop, OutOfTurns, StartTurn, BeginTurn,
      TurnDenied, TurnAllowed, StartHookFails, OpenStream, OpenFails,
      AskToolHook, NoToolWanted, ToolHookFails, outputs
<1> QED BY <1>1, <1>2, <1>3, <1>6

\* Text that is in the transcript stays there.
LEMMA TextStaysKept ==
    ASSUME TypeOK, [Next]_vars, NEW k \in Rounds,
           TextKept(k), streamed'[k] = streamed[k]
    PROVE  TextKept(k)'
<1>1. CASE streamed[k] = 0
  BY <1>1 DEF TextKept
<1>2. CASE streamed[k] # 0
  <2>1. PICK i \in DOMAIN messages : /\ messages[i].kind \in {"text", "cut_text"}
                                     /\ messages[i].turn = k
                                     /\ messages[i].chunks = streamed[k]
    BY <1>2 DEF TextKept
  <2>2. i \in DOMAIN messages' /\ messages'[i] = messages[i]
    <3>1. messages \in Seq(Messages)
      BY DEF TypeOK
    <3>2. CASE messages' = messages
      BY <2>1, <3>2
    <3>3. ASSUME NEW m \in Messages, messages' = Append(messages, m)
          PROVE  i \in DOMAIN messages' /\ messages'[i] = messages[i]
      BY <2>1, <3>1, <3>3
    <3> QED BY <3>2, <3>3, TranscriptGrows
  <2> QED BY <2>1, <2>2 DEF TextKept
<1> QED BY <1>1, <1>2

\* The text shown to the user is in the transcript (NoTextLost), for any
\* limit on the rounds and any stream: the loop's own copy of the round's text
\* is what was shown, and it is recorded on every way out but an error.
THEOREM NoTextLostHolds == Spec => []NoTextLost
<1> DEFINE Inv == OverWhenDone /\ ShownIsCollected /\ NoTextLost
<1> USE LoopAssumption
<1>1. Init => Inv
  BY DEF Init, OverWhenDone, ShownIsCollected, NoTextLost, TextKept, Rounds,
         Running
<1>2. TypeOK /\ TypeOK' /\ Inv /\ [Next]_vars => Inv'
  <2> SUFFICES ASSUME TypeOK, TypeOK', Inv, [Next]_vars PROVE Inv'
    OBVIOUS
  <2>0. /\ turns \in Rounds /\ turns \in Nat /\ chunks \in Nat
        /\ streamed \in [Rounds -> Nat]
        /\ messages \in Seq(Messages)
        /\ Rounds \subseteq Nat
    <3>1. Rounds \subseteq Nat
      BY DEF Rounds
    <3> QED BY <3>1 DEF TypeOK
  \* A step that shows no text keeps what was kept.
  <2>k. ASSUME streamed' = streamed, NEW k \in Rounds, TextKept(k)
        PROVE  TextKept(k)'
    BY <2>k, TextStaysKept
  <2>1. CASE CancelledAtTop \/ OutOfTurns \/ NoToolWanted
    BY <2>0, <2>1, <2>k DEF CancelledAtTop, OutOfTurns, NoToolWanted, Leave, Return,
       local, OverWhenDone, ShownIsCollected, NoTextLost, Running
  <2>2. CASE StartTurn
    <3>1. /\ pc = "top" /\ pc' = "start_hook" /\ turns' = turns + 1
          /\ streamed' = streamed /\ result' = result
      BY <2>2 DEF StartTurn, BeginTurn
    <3>2. \A k \in Rounds : TextKept(k)'
      BY <2>0, <2>k, <3>1 DEF OverWhenDone, NoTextLost, Running
    <3>3. turns' \in Rounds
      BY DEF TypeOK
    <3> QED BY <2>0, <3>1, <3>2, <3>3 DEF OverWhenDone, ShownIsCollected,
       NoTextLost, Rounds
  <2>3. CASE TurnDenied \/ TurnAllowed
    BY <2>0, <2>3, <2>k DEF TurnDenied, TurnAllowed, Return, local, outputs,
       OverWhenDone, ShownIsCollected, NoTextLost, Running
  <2>4. CASE StartHookFails \/ OpenFails \/ StreamFails \/ ToolHookFails
    BY <2>0, <2>4 DEF StartHookFails, OpenFails, StreamFails, ToolHookFails,
       Fail, Return, OverWhenDone, ShownIsCollected, NoTextLost, Running
  <2>5. CASE OpenStream
    BY <2>0, <2>5, <2>k DEF OpenStream, outputs, OverWhenDone, ShownIsCollected,
       NoTextLost, Running
  <2>6. CASE TextDelta
    <3>1. /\ pc = "stream" /\ pc' = pc /\ turns' = turns /\ result' = result
          /\ chunks' = chunks + 1
          /\ streamed' = [streamed EXCEPT ![turns] = @ + 1]
      BY <2>6 DEF TextDelta, Consume, ConsumeUnbiased
    <3>2. \A k \in Rounds : k # turns /\ TextKept(k) => TextKept(k)'
      BY <2>0, <3>1, TextStaysKept
    <3> QED BY <2>0, <3>1, <3>2 DEF OverWhenDone, ShownIsCollected, NoTextLost
  <2>7. ASSUME NEW c \in Calls, ToolCallDelta(c) PROVE Inv'
    BY <2>0, <2>7, <2>k DEF ToolCallDelta, Consume, ConsumeUnbiased,
       OverWhenDone, ShownIsCollected, NoTextLost
  <2>8. ASSUME NEW r \in Reasons, FinishDelta(r) PROVE Inv'
    BY <2>0, <2>8, <2>k DEF FinishDelta, Consume, ConsumeUnbiased,
       OverWhenDone, ShownIsCollected, NoTextLost
  <2>9. CASE CancelledMidStream \/ EndStream
    <3>1. /\ pc = "stream" /\ pc' # "stream" /\ pc' \notin {"start_hook", "open"}
          /\ turns' = turns /\ streamed' = streamed
          /\ pc' = "done" <=> result' # Running
      BY <2>9 DEF CancelledMidStream, EndStream, Leave, Return, OverWhenDone,
         Inv, Running
    <3>2. messages' = Recorded(CutText(chunks), chunks)
             \/ messages' = Recorded(Text(chunks), chunks)
      BY <2>9 DEF CancelledMidStream, EndStream
    <3>3. TextKept(turns)'
      <4>1. CASE chunks = 0
        BY <3>1, <4>1 DEF TextKept, ShownIsCollected, Inv
      <4>2. CASE chunks # 0
        <5>1. PICK m : /\ messages' = Append(messages, m)
                      /\ m \in Messages
                      /\ m.kind \in {"text", "cut_text"}
                      /\ m.turn = turns /\ m.chunks = chunks
          BY <2>0, <3>2, <4>2, AppendedTypes DEF Recorded, CutText, Text, Msg
        <5>2. /\ Len(messages) + 1 \in DOMAIN messages'
              /\ messages'[Len(messages) + 1] = m
          BY <2>0, <5>1
        <5> QED BY <3>1, <5>1, <5>2 DEF TextKept, ShownIsCollected, Inv
      <4> QED BY <4>1, <4>2
    <3>4. \A k \in Rounds : k # turns => TextKept(k)'
      BY <2>k, <3>1 DEF NoTextLost, OverWhenDone, Inv, Running
    <3> QED BY <3>1, <3>3, <3>4 DEF OverWhenDone, ShownIsCollected, NoTextLost
  <2>10. CASE AskToolHook \/ ToolDenied \/ ToolAllowed \/ ToolReturns
    BY <2>0, <2>10, <2>k DEF AskToolHook, ToolDenied, ToolAllowed, ToolReturns,
       local, outputs, OverWhenDone, ShownIsCollected, NoTextLost
  <2>11. CASE Cancel
    BY <2>0, <2>11, <2>k DEF Cancel, local, outputs, OverWhenDone,
       ShownIsCollected, NoTextLost
  <2>12. CASE UNCHANGED vars
    BY <2>0, <2>12, <2>k DEF vars, local, outputs, OverWhenDone,
       ShownIsCollected, NoTextLost
  <2> QED
    BY <2>1, <2>2, <2>3, <2>4, <2>5, <2>6, <2>7, <2>8, <2>9, <2>10, <2>11,
       <2>12 DEF Next, OwnStep, Answered, Deltas
<1> QED BY <1>1, <1>2, TypeCorrect, PTL DEF Spec

-----------------------------------------------------------------------------
\* Outside a tool's run, every tool use is followed by its result; appending
\* anything but a tool use keeps it so.
LEMMA UsesStayAnswered ==
    ASSUME messages \in Seq(Messages), messages' \in Seq(Messages),
           ToolUseAnswered, pc # "invoke",
           \/ messages' = messages
           \/ \E m \in Messages : /\ messages' = Append(messages, m)
                                  /\ m.kind # "tool_use"
    PROVE  ToolUseAnswered'
<1>1. CASE messages' = messages
  BY <1>1 DEF ToolUseAnswered
<1>2. ASSUME NEW m \in Messages, messages' = Append(messages, m),
             m.kind # "tool_use"
      PROVE  ToolUseAnswered'
  <2> SUFFICES ASSUME NEW i \in DOMAIN messages',
                      messages'[i].kind = "tool_use"
               PROVE  /\ i < Len(messages')
                      /\ messages'[i + 1].kind = "tool_result"
                      /\ messages'[i + 1].id = messages'[i].id
    BY DEF ToolUseAnswered
  <2>1. i \in DOMAIN messages /\ messages'[i] = messages[i]
    BY <1>2
  <2>2. /\ i < Len(messages)
        /\ messages[i + 1].kind = "tool_result"
        /\ messages[i + 1].id = messages[i].id
    BY <2>1 DEF ToolUseAnswered
  <2> QED BY <1>2, <2>1, <2>2
<1> QED BY <1>1, <1>2

\* Every tool use is followed by its result (ToolUseAnswered), for any number
\* of rounds, and whatever the hooks and the tools answer.
THEOREM ToolUseAnsweredHolds == Spec => []ToolUseAnswered
<1> DEFINE Inv == UseIsLast /\ ToolUseAnswered
<1>1. Init => Inv
  BY DEF Init, UseIsLast, ToolUseAnswered, UserMsg
<1>2. TypeOK /\ TypeOK' /\ Inv /\ [Next]_vars => Inv'
  <2> SUFFICES ASSUME TypeOK, TypeOK', Inv, [Next]_vars PROVE Inv'
    OBVIOUS
  <2>0. messages \in Seq(Messages) /\ messages' \in Seq(Messages)
    BY DEF TypeOK
  <2>1. CASE ToolAllowed
    <3>1. PICK m \in Messages : /\ messages' = Append(messages, m)
                                /\ m.kind = "tool_use" /\ m.id = call
      BY <2>1, AppendedTypes DEF ToolAllowed, ToolUse, Msg
    <3>2. pc # "invoke" /\ call' = call
      BY <2>1 DEF ToolAllowed, local
    <3>3. /\ Len(messages') = Len(messages) + 1
          /\ messages'[Len(messages')] = m
          /\ \A i \in DOMAIN messages : messages'[i] = messages[i]
      BY <2>0, <3>1
    <3>4. UseIsLast'
      BY <2>0, <3>1, <3>2, <3>3 DEF UseIsLast
    <3>5. ASSUME NEW i \in DOMAIN messages', messages'[i].kind = "tool_use",
                 i # Len(messages')
          PROVE  /\ i < Len(messages')
                 /\ messages'[i + 1].kind = "tool_result"
                 /\ messages'[i + 1].id = messages'[i].id
      <4>1. i \in DOMAIN messages
        BY <2>0, <3>3, <3>5
      <4>2. /\ i < Len(messages)
            /\ messages[i + 1].kind = "tool_result"
            /\ messages[i + 1].id = messages[i].id
        BY <3>2, <3>3, <3>5, <4>1 DEF ToolUseAnswered
      <4> QED BY <2>0, <3>3, <4>1, <4>2
    <3>6. pc' = "invoke"
      BY <2>1 DEF ToolAllowed
    <3> QED BY <3>4, <3>5, <3>6 DEF ToolUseAnswered
  <2>2. CASE ToolReturns
    <3>1. PICK m \in Messages : /\ messages' = Append(messages, m)
                                /\ m.kind = "tool_result" /\ m.id = call
      BY <2>2, AppendedTypes DEF ToolReturns, ToolResult, Msg
    <3>2. pc = "invoke" /\ pc' = "top"
      BY <2>2 DEF ToolReturns
    <3>3. /\ Len(messages') = Len(messages) + 1
          /\ messages'[Len(messages')] = m
          /\ \A i \in DOMAIN messages : messages'[i] = messages[i]
      BY <2>0, <3>1
    <3>4. ASSUME NEW i \in DOMAIN messages', messages'[i].kind = "tool_use"
          PROVE  /\ i < Len(messages')
                 /\ messages'[i + 1].kind = "tool_result"
                 /\ messages'[i + 1].id = messages'[i].id
      <4>1. i \in DOMAIN messages
        BY <2>0, <3>1, <3>3, <3>4
      <4>2. CASE i = Len(messages)
        BY <2>0, <3>1, <3>2, <3>3, <4>1, <4>2 DEF UseIsLast
      <4>3. CASE i # Len(messages)
        <5>1. /\ i < Len(messages)
              /\ messages[i + 1].kind = "tool_result"
              /\ messages[i + 1].id = messages[i].id
          BY <3>3, <3>4, <4>1, <4>3 DEF ToolUseAnswered
        <5> QED BY <2>0, <3>3, <4>1, <5>1
      <4> QED BY <4>2, <4>3
    <3> QED BY <3>2, <3>4 DEF UseIsLast, ToolUseAnswered
  <2>3. CASE CancelledMidStream \/ EndStream \/ ToolDenied
    <3>1. /\ pc # "invoke" /\ pc' # "invoke"
          /\ \/ messages' = messages
             \/ \E m \in Messages : /\ messages' = Append(messages, m)
                                    /\ m.kind # "tool_use"
      BY <2>3, AppendedTypes DEF CancelledMidStream, EndStream, ToolDenied,
         Leave, Return, Recorded, CutText, Text, ToolResult, Msg
    <3> QED BY <2>0, <3>1, UsesStayAnswered DEF UseIsLast
  <2>4. CASE UNCHANGED vars \/ Cancel
    BY <2>4 DEF vars, Cancel, local, outputs, UseIsLast, ToolUseAnswered
  <2>5. CASE \/ CancelledAtTop \/ OutOfTurns \/ StartTurn \/ TurnDenied
             \/ TurnAllowed \/ StartHookFails \/ OpenStream \/ OpenFails
             \/ AskToolHook \/ NoToolWanted \/ ToolHookFails
             \/ Deltas \/ StreamFails
    <3>1. messages' = messages /\ pc # "invoke" /\ pc' # "invoke"
      BY <2>5
      DEF CancelledAtTop, OutOfTurns, StartTurn, BeginTurn, TurnDenied,
          TurnAllowed, StartHookFails, OpenStream, OpenFails, AskToolHook,
          NoToolWanted, ToolHookFails, Deltas, TextDelta, ToolCallDelta,
          FinishDelta, Consume, ConsumeUnbiased, StreamFails, Fail, Leave,
          Return, outputs
    <3> QED BY <2>0, <3>1, UsesStayAnswered DEF UseIsLast
  <2> QED BY <2>1, <2>2, <2>3, <2>4, <2>5 DEF Next, OwnStep, Answered
<1> QED BY <1>1, <1>2, TypeCorrect, PTL DEF Spec

-----------------------------------------------------------------------------
\* A step is taken only by a call that is not over, and either leaves the loop
\* with an Outcome as its last event, or publishes no Outcome.
LEMMA OutcomeOnlyLast ==
    ASSUME TypeOK, Next
    PROVE  /\ pc # "done"
           /\ \/ /\ pc' = "done" /\ result' \in {"completed", "cancelled"}
                 /\ \E pub \in Seq(Events) :
                       /\ events' = Append(pub, Event("outcome", NoCall))
                       /\ \A i \in DOMAIN pub : \/ pub[i].type = "cancelled"
                                                \/ i \in DOMAIN events /\ pub[i] = events[i]
              \/ /\ pc' = "done" => result' \in {"denied", "error"}
                 /\ pc' # "done" => result' = result
                 /\ \/ events' = events
                    \/ \E x \in Events : events' = Append(events, x) /\ x.type # "outcome"
<1>0. events \in Seq(Events)
  BY DEF TypeOK
<1>1. CASE CancelledAtTop \/ CancelledMidStream
  <2> DEFINE pub == Append(events, Event("cancelled", NoCall))
  <2>1. /\ pub \in Seq(Events)
        /\ \A i \in DOMAIN pub : \/ pub[i].type = "cancelled"
                                 \/ i \in DOMAIN events /\ pub[i] = events[i]
    BY <1>0, AppendedTypes DEF Event
  <2>2. /\ pc # "done" /\ pc' = "done" /\ result' = "cancelled"
        /\ events' = Append(pub, Event("outcome", NoCall))
    BY <1>1 DEF CancelledAtTop, CancelledMidStream, Leave, Return
  <2> QED BY <2>1, <2>2
<1>2. CASE OutOfTurns \/ NoToolWanted
  BY <1>0, <1>2 DEF OutOfTurns, NoToolWanted, Leave, Return
<1>3. CASE TextDelta
  <2>1. /\ Event("assistant_text", NoCall) \in Events
        /\ Event("assistant_text", NoCall).type # "outcome"
    BY AppendedTypes DEF Event
  <2> QED BY <1>3, <2>1 DEF TextDelta, Consume, ConsumeUnbiased
<1>4. ASSUME NEW c \in Calls, ToolCallDelta(c)
      PROVE  /\ pc # "done" /\ pc' = pc /\ result' = result
             /\ \E x \in Events : events' = Append(events, x) /\ x.type # "outcome"
  <2>1. Event("tool_call", c) \in Events /\ Event("tool_call", c).type # "outcome"
    BY AppendedTypes DEF Event
  <2> QED BY <1>4, <2>1 DEF ToolCallDelta, Consume, ConsumeUnbiased
<1>5. CASE ToolReturns
  <2>1. /\ Event("tool_result", call) \in Events
        /\ Event("tool_result", call).type # "outcome"
    BY AppendedTypes DEF Event, TypeOK
  <2> QED BY <1>5, <2>1 DEF ToolReturns
<1>6. CASE \/ StartTurn \/ TurnDenied \/ TurnAllowed \/ StartHookFails
           \/ OpenStream \/ OpenFails \/ AskToolHook \/ ToolDenied
           \/ ToolAllowed \/ ToolHookFails \/ StreamFails \/ EndStream
           \/ Cancel \/ \E r \in Reasons : FinishDelta(r)
  BY <1>6
  DEF StartTurn, BeginTurn, TurnDenied, TurnAllowed, StartHookFails, OpenStream,
      OpenFails, AskToolHook, ToolDenied, ToolAllowed, ToolHookFails,
      StreamFails, EndStream, Cancel, FinishDelta, Consume, ConsumeUnbiased,
      Fail, Return, outputs
<1> QED BY <1>1, <1>2, <1>3, <1>4, <1>5, <1>6 DEF Next, OwnStep, Answered, Deltas

\* The call's result is set exactly when it is over.
THEOREM ResultWhenOver == Spec => []OverWhenDone
<1>1. Init => OverWhenDone
  BY DEF Init, OverWhenDone
<1>2. TypeOK /\ OverWhenDone /\ [Next]_vars => OverWhenDone'
  <2>1. ASSUME TypeOK, OverWhenDone, Next PROVE OverWhenDone'
    BY <2>1, OutcomeOnlyLast DEF OverWhenDone, Running
  <2>2. ASSUME OverWhenDone, UNCHANGED vars PROVE OverWhenDone'
    BY <2>2 DEF OverWhenDone, vars
  <2> QED BY <2>1, <2>2
<1> QED BY <1>1, <1>2, TypeCorrect, PTL DEF Spec

\* The bus hears one Outcome per call that ends well, and nothing after it
\* (OutcomeClosesBus), for any provider, hooks and tools.
THEOREM OutcomeClosesBusHolds == Spec => []OutcomeClosesBus
<1>1. Init => OutcomeClosesBus
  BY DEF Init, OutcomeClosesBus, Running
<1>2. TypeOK /\ OverWhenDone /\ OverWhenDone' /\ OutcomeClosesBus /\ [Next]_vars
         => OutcomeClosesBus'
  <2> SUFFICES ASSUME TypeOK, OverWhenDone, OverWhenDone', OutcomeClosesBus,
                      [Next]_vars
               PROVE  OutcomeClosesBus'
    OBVIOUS
  <2>1. CASE UNCHANGED vars
    BY <2>1 DEF vars, outputs, OutcomeClosesBus
  <2>2. CASE Next
    <3>0. events \in Seq(Events) /\ pc # "done"
      BY <2>2, OutcomeOnlyLast DEF TypeOK
    <3>1. \A i \in DOMAIN events : events[i].type # "outcome"
      BY <3>0 DEF OutcomeClosesBus
    <3>2. CASE /\ pc' = "done"
               /\ \E pub \in Seq(Events) :
                     /\ events' = Append(pub, Event("outcome", NoCall))
                     /\ \A i \in DOMAIN pub : \/ pub[i].type = "cancelled"
                                              \/ i \in DOMAIN events /\ pub[i] = events[i]
      <4>1. PICK pub \in Seq(Events) :
                     /\ events' = Append(pub, Event("outcome", NoCall))
                     /\ \A i \in DOMAIN pub : \/ pub[i].type = "cancelled"
                                              \/ i \in DOMAIN events /\ pub[i] = events[i]
        BY <3>2
      <4>2. \A i \in DOMAIN pub : pub[i].type # "outcome"
        BY <3>1, <4>1
      <4>3. /\ Len(events') = Len(pub) + 1 /\ events' # <<>>
            /\ events'[Len(events')] = Event("outcome", NoCall)
            /\ \A i \in DOMAIN events' : i # Len(events') =>
                  i \in DOMAIN pub /\ events'[i] = pub[i]
        BY <4>1, AppendedTypes
      <4> QED BY <3>2, <4>2, <4>3 DEF OutcomeClosesBus, Event
    <3>3. CASE /\ pc' = "done" => result' \in {"denied", "error"}
               /\ \/ events' = events
                  \/ \E x \in Events : events' = Append(events, x) /\ x.type # "outcome"
      <4>1. \A i \in DOMAIN events' : events'[i].type # "outcome"
        BY <3>0, <3>1, <3>3
      <4>2. result' \notin {"completed", "cancelled"}
        BY <3>3 DEF OverWhenDone, Running
      <4> QED BY <4>1, <4>2 DEF OutcomeClosesBus
    <3> QED BY <2>2, <3>2, <3>3, OutcomeOnlyLast
  <2> QED BY <2>1, <2>2
<1> QED BY <1>1, <1>2, TypeCorrect, ResultWhenOver, PTL DEF Spec

-----------------------------------------------------------------------------
\* The reason a call reports is the true one (ReasonIsTrue), for any limit and
\* any stop reasons of the provider: "max_turns" always means that a tool
\* result went unread, and a denied tool never surfaces.
THEOREM ReasonIsTrueHolds == Spec => []ReasonIsTrue
<1> DEFINE Inv == ResultIsLast /\ ReasonFromProvider /\ ReasonIsTrue
<1> USE LoopAssumption
<1>1. Init => Inv
  BY DEF Init, ResultIsLast, ReasonFromProvider, ReasonIsTrue, Running
<1>2. TypeOK /\ OverWhenDone /\ Inv /\ [Next]_vars => Inv'
  <2> SUFFICES ASSUME TypeOK, OverWhenDone, Inv, [Next]_vars PROVE Inv'
    OBVIOUS
  <2>0. messages \in Seq(Messages) /\ turns \in 0 .. MaxTurns
    BY DEF TypeOK, Rounds
  <2>1. CASE UNCHANGED vars
    BY <2>1 DEF vars, outputs, ResultIsLast, ReasonFromProvider, ReasonIsTrue
  <2>2. CASE Cancel
    BY <2>2 DEF Cancel, outputs, ResultIsLast, ReasonFromProvider,
       ReasonIsTrue, OverWhenDone, Running
  <2>3. CASE CancelledAtTop \/ CancelledMidStream
    BY <2>3 DEF CancelledAtTop, CancelledMidStream, Leave, Return,
       ResultIsLast, ReasonFromProvider, ReasonIsTrue
  <2>4. CASE OutOfTurns
    BY <2>0, <2>4 DEF OutOfTurns, HasTurnLeft, Leave, Return, ResultIsLast,
       ReasonFromProvider, ReasonIsTrue
  <2>5. CASE NoToolWanted
    BY <2>5 DEF NoToolWanted, Leave, Return, ResultIsLast,
       ReasonFromProvider, ReasonIsTrue
  <2>6. CASE TurnDenied \/ StartHookFails \/ OpenFails \/ ToolHookFails \/ StreamFails
    BY <2>6 DEF TurnDenied, StartHookFails, OpenFails, ToolHookFails,
       StreamFails, Fail, Return, ResultIsLast, ReasonFromProvider, ReasonIsTrue
  <2>7. CASE ToolDenied \/ ToolReturns
    <3>1. PICK m : m \in Messages /\ messages' = Append(messages, m)
                     /\ m.kind = "tool_result"
      BY <2>7, AppendedTypes DEF ToolDenied, ToolReturns, ToolResult, Msg
    <3>2. messages' # <<>> /\ messages'[Len(messages')].kind = "tool_result"
      BY <2>0, <3>1
    <3>3. pc' = "top" /\ result' = Running
      BY <2>7 DEF ToolDenied, ToolReturns, OverWhenDone
    <3> QED BY <3>2, <3>3 DEF ResultIsLast, ReasonFromProvider, ReasonIsTrue, Running
  <2>8. CASE EndStream
    <3>1. pc' = "end_hook" /\ stopReason' \in Reasons /\ result' = Running
      BY <2>8 DEF EndStream, TypeOK, OverWhenDone
    <3> QED BY <3>1 DEF ResultIsLast, ReasonFromProvider, ReasonIsTrue, Running
  <2>9. CASE \/ StartTurn \/ TurnAllowed \/ OpenStream \/ AskToolHook
             \/ ToolAllowed \/ Deltas
    <3>1. pc' \notin {"top", "end_hook"} /\ result' = Running
      BY <2>9
      DEF StartTurn, BeginTurn, TurnAllowed, OpenStream, AskToolHook, ToolAllowed,
          Deltas, TextDelta, ToolCallDelta, FinishDelta, Consume, ConsumeUnbiased,
          OverWhenDone
    <3> QED BY <3>1 DEF ResultIsLast, ReasonFromProvider, ReasonIsTrue, Running
  <2> QED
    BY <2>1, <2>2, <2>3, <2>4, <2>5, <2>6, <2>7, <2>8, <2>9 DEF Next, OwnStep, Answered
<1> QED BY <1>1, <1>2, TypeCorrect, ResultWhenOver, PTL DEF Spec

\* Once cancelled, the loop starts no further round and shows nothing more
\* (CancelIsPrompt): the streaming select! and the head of the loop are the
\* only places that would, and both look at the token first.  The round it is
\* in may still send its request.
THEOREM CancelIsPromptHolds == Spec => CancelIsPrompt
<1>1. [Next]_vars => [cancelled => turns' = turns /\ streamed' = streamed]_vars
  <2> SUFFICES ASSUME Next, cancelled PROVE turns' = turns /\ streamed' = streamed
    OBVIOUS
  <2>1. CASE Deltas \/ StreamFails \/ EndStream \/ Cancel
    BY <2>1 DEF Deltas, TextDelta, ToolCallDelta, FinishDelta, Consume,
       StreamFails, EndStream, Cancel
  <2>2. CASE OwnStep \/ Answered
    BY <2>2
    DEF OwnStep, Answered, CancelledAtTop, OutOfTurns, StartTurn, TurnDenied,
        TurnAllowed, StartHookFails, OpenStream, OpenFails, CancelledMidStream,
        AskToolHook, NoToolWanted, ToolDenied, ToolAllowed, ToolHookFails,
        ToolReturns, Fail
  <2> QED BY <2>1, <2>2 DEF Next
<1> QED BY <1>1, PTL DEF Spec, CancelIsPrompt

-----------------------------------------------------------------------------
(* Hooks.                                                                   *)

\* The stream's part of a round, before OnTurnEnd, and the rest of it.
Early == {"start_hook", "open", "stream"}
Late  == {"top", "end_hook", "tool_hook", "invoke"}

\* Which hooks the current round may have been called: while it streams its
\* start and nothing else, before the tool hook its start and its end.
ThisRound ==
    /\ \A i \in DOMAIN hooks : hooks[i].turn <= turns
    /\ \A i \in DOMAIN hooks : hooks[i].turn = turns =>
          /\ pc \in Early => hooks[i].hook = "turn_start"
          /\ pc = "end_hook" => hooks[i].hook # "tool_call"
    /\ pc \in Early => \E i \in DOMAIN hooks :
                          hooks[i] = [hook |-> "turn_start", turn |-> turns]

\* Rounds before the current one had both hooks, and so had the current one
\* after its stream.
RoundsPaired ==
    \A k \in 1 .. turns : \/ k < turns \/ pc \in Late \/ result = "completed"
                          => HooksCalled(k)

HooksOnce == \A i, j \in DOMAIN hooks : hooks[i] = hooks[j] => i = j

HooksInv == ThisRound /\ RoundsPaired /\ HooksOnce

\* What one more hook changes.
LEMMA OneMoreHook ==
    ASSUME TypeOK, HooksOnce, NEW h \in Hooks, hooks' = Append(hooks, h),
           \A i \in DOMAIN hooks : hooks[i] # h
    PROVE  /\ HooksOnce'
           /\ DOMAIN hooks' = DOMAIN hooks \union {Len(hooks) + 1}
           /\ Len(hooks) + 1 \in DOMAIN hooks' /\ hooks'[Len(hooks) + 1] = h
           /\ \A i \in DOMAIN hooks : i < Len(hooks) + 1 /\ hooks'[i] = hooks[i]
           /\ \A k \in Rounds : HooksCalled(k) => HooksCalled(k)'
<1>1. hooks \in Seq(Hooks) /\ Len(hooks) \in Nat /\ DOMAIN hooks = 1 .. Len(hooks)
  BY DEF TypeOK
<1>2. /\ DOMAIN hooks' = 1 .. (Len(hooks) + 1)
      /\ hooks'[Len(hooks) + 1] = h
      /\ \A i \in DOMAIN hooks : hooks'[i] = hooks[i]
  BY <1>1
<1>3. /\ DOMAIN hooks' = DOMAIN hooks \union {Len(hooks) + 1}
      /\ \A i \in DOMAIN hooks : i < Len(hooks) + 1
  BY <1>1, <1>2
<1>4. HooksOnce'
  BY <1>2, <1>3 DEF HooksOnce
<1>5. \A k \in Rounds : HooksCalled(k) => HooksCalled(k)'
  BY <1>2, <1>3 DEF HooksCalled
<1> QED BY <1>2, <1>3, <1>4, <1>5

\* No hook is called twice for a round, and every round that was gone through
\* had its start and its end (HooksPaired), for any limit on the rounds: a
\* round's hooks are called on the way from its start to its tool, and that
\* way is gone once.
THEOREM HooksPairedHolds == Spec => []HooksPaired
<1> USE LoopAssumption
<1>1. Init => HooksInv
  BY DEF Init, HooksInv, ThisRound, RoundsPaired, HooksOnce, Early
<1>2. TypeOK /\ OverWhenDone /\ HooksInv /\ [Next]_vars => HooksInv'
  <2> SUFFICES ASSUME TypeOK, OverWhenDone, HooksInv, [Next]_vars PROVE HooksInv'
    OBVIOUS
  <2>0. /\ turns \in Nat /\ turns \in 0 .. MaxTurns /\ hooks \in Seq(Hooks)
        /\ \A i \in DOMAIN hooks : hooks[i] \in Hooks /\ hooks[i].turn \in Nat
    <3>1. turns \in 0 .. MaxTurns /\ hooks \in Seq(Hooks)
      BY DEF TypeOK, Rounds
    <3>2. \A i \in DOMAIN hooks : hooks[i] \in Hooks
      BY <3>1
    <3>3. \A h \in Hooks : h.turn \in Nat
      BY DEF Hooks, Rounds
    <3> QED BY <3>1, <3>2, <3>3
  <2>1. CASE StartTurn
    <3> DEFINE h == [hook |-> "turn_start", turn |-> turns + 1]
    <3>1. /\ pc = "top" /\ pc' = "start_hook" /\ turns' = turns + 1
          /\ hooks' = Append(hooks, h) /\ h \in Hooks /\ result' = Running
      <4>1. h \in Hooks
        BY <2>0, <2>1 DEF StartTurn, BeginTurn, HasTurnLeft, Hooks, Rounds
      <4> HIDE DEF h
      <4>2. hooks' = Append(hooks, h)
        BY <2>1 DEF StartTurn, BeginTurn, h
      <4> QED BY <2>1, <4>1, <4>2 DEF StartTurn, BeginTurn, OverWhenDone
    <3>2. \A i \in DOMAIN hooks : hooks[i].turn < turns + 1 /\ hooks[i] # h
      <4>1. \A i \in DOMAIN hooks : hooks[i].turn < turns + 1
        BY <2>0 DEF HooksInv, ThisRound
      <4>2. h.turn = turns + 1
        OBVIOUS
      <4> HIDE DEF h
      <4> QED BY <2>0, <4>1, <4>2
    <3> HIDE DEF h
    <3>3. h.hook = "turn_start" /\ h.turn = turns + 1
          /\ h = [hook |-> "turn_start", turn |-> turns + 1]
      BY DEF h
    <3>4. /\ HooksOnce'
          /\ DOMAIN hooks' = DOMAIN hooks \union {Len(hooks) + 1}
          /\ hooks'[Len(hooks) + 1] = h
          /\ \A i \in DOMAIN hooks : hooks'[i] = hooks[i]
          /\ \A k \in Rounds : HooksCalled(k) => HooksCalled(k)'
      BY <3>1, <3>2, OneMoreHook DEF HooksInv
    <3>5. ThisRound'
      BY <2>0, <3>1, <3>2, <3>3, <3>4 DEF ThisRound, Early
    <3>6. ASSUME NEW k \in 1 .. turns', k < turns' \/ pc' \in Late \/ result' = "completed"
          PROVE  HooksCalled(k)'
      <4>1. k \in 1 .. turns /\ k \in Rounds
        BY <2>0, <3>1, <3>6 DEF Late, Running, Rounds
      <4> QED BY <3>1, <3>4, <4>1 DEF HooksInv, RoundsPaired, Late
    <3> QED BY <3>4, <3>5, <3>6 DEF HooksInv, RoundsPaired
  <2>2. CASE EndStream
    <3> DEFINE h == [hook |-> "turn_end", turn |-> turns]
    <3>1. /\ pc = "stream" /\ pc' = "end_hook" /\ turns' = turns /\ result' = result
          /\ hooks' = Append(hooks, h) /\ h \in Hooks
      BY <2>0, <2>2 DEF EndStream, Hook, Hooks, TypeOK
    <3>2. \A i \in DOMAIN hooks : hooks[i] # h
      BY <3>1 DEF HooksInv, ThisRound, Early
    <3> HIDE DEF h
    <3>3. h.hook = "turn_end" /\ h.turn = turns
          /\ h = [hook |-> "turn_end", turn |-> turns]
      BY DEF h
    <3>4. /\ HooksOnce'
          /\ DOMAIN hooks' = DOMAIN hooks \union {Len(hooks) + 1}
          /\ hooks'[Len(hooks) + 1] = h
          /\ \A i \in DOMAIN hooks : i < Len(hooks) + 1 /\ hooks'[i] = hooks[i]
          /\ \A k \in Rounds : HooksCalled(k) => HooksCalled(k)'
      BY <3>1, <3>2, OneMoreHook DEF HooksInv
    <3>5. ThisRound'
      BY <2>0, <3>1, <3>3, <3>4 DEF HooksInv, ThisRound, Early
    <3>6. HooksCalled(turns)'
      <4>1. PICK i \in DOMAIN hooks : hooks[i] = [hook |-> "turn_start", turn |-> turns]
        BY <3>1 DEF HooksInv, ThisRound, Early
      <4>2. /\ i \in DOMAIN hooks' /\ Len(hooks) + 1 \in DOMAIN hooks'
            /\ i < Len(hooks) + 1 /\ hooks'[i] = hooks[i]
        BY <3>4, <4>1
      <4> QED BY <3>1, <3>3, <3>4, <4>1, <4>2 DEF HooksCalled
    <3>7. ASSUME NEW k \in 1 .. turns', k # turns PROVE HooksCalled(k)'
      <4>1. k \in 1 .. turns /\ k < turns /\ k \in Rounds
        BY <2>0, <3>1, <3>7 DEF Rounds
      <4> QED BY <3>4, <4>1 DEF HooksInv, RoundsPaired
    <3> QED BY <3>1, <3>4, <3>5, <3>6, <3>7 DEF HooksInv, RoundsPaired
  <2>3. CASE AskToolHook
    <3> DEFINE h == [hook |-> "tool_call", turn |-> turns]
    <3>1. /\ pc = "end_hook" /\ pc' = "tool_hook" /\ turns' = turns /\ result' = result
          /\ hooks' = Append(hooks, h) /\ h \in Hooks
      BY <2>0, <2>3 DEF AskToolHook, Hook, Hooks, TypeOK, outputs
    <3>2. \A i \in DOMAIN hooks : hooks[i] # h
      BY <3>1 DEF HooksInv, ThisRound
    <3> HIDE DEF h
    <3>3. h.hook = "tool_call" /\ h.turn = turns
      BY DEF h
    <3>4. /\ HooksOnce'
          /\ DOMAIN hooks' = DOMAIN hooks \union {Len(hooks) + 1}
          /\ hooks'[Len(hooks) + 1] = h
          /\ \A i \in DOMAIN hooks : hooks'[i] = hooks[i]
          /\ \A k \in Rounds : HooksCalled(k) => HooksCalled(k)'
      BY <3>1, <3>2, OneMoreHook DEF HooksInv
    <3>5. ThisRound'
      BY <2>0, <3>1, <3>3, <3>4 DEF HooksInv, ThisRound, Early
    <3>6. ASSUME NEW k \in 1 .. turns' PROVE HooksCalled(k)'
      <4>1. k \in 1 .. turns /\ k \in Rounds
        BY <2>0, <3>1 DEF Rounds
      <4> QED BY <3>1, <3>4, <4>1 DEF HooksInv, RoundsPaired, Late
    <3> QED BY <3>4, <3>5, <3>6 DEF HooksInv, RoundsPaired
  \* Every other step calls no hook; it goes on within the round, or ends it.
  <2>4. ASSUME /\ turns' = turns /\ hooks' = hooks
               /\ pc' \in Early => pc \in Early
               /\ pc' \in Late => pc \in Late
               /\ pc' = "end_hook" => pc = "end_hook"
               /\ result' = "completed" => pc \in Late \/ result = "completed"
        PROVE  HooksInv'
    BY <2>4 DEF HooksInv, ThisRound, RoundsPaired, HooksOnce, HooksCalled
  <2>5. CASE UNCHANGED vars
    BY <2>4, <2>5 DEF vars, outputs
  <2>6. CASE Cancel \/ TurnAllowed \/ OpenStream \/ ToolAllowed \/ ToolDenied \/ ToolReturns
    BY <2>4, <2>6 DEF Cancel, TurnAllowed, OpenStream, ToolAllowed, ToolDenied,
       ToolReturns, Early, Late
  <2>7. CASE Deltas
    <3>1. pc' = pc /\ turns' = turns /\ hooks' = hooks /\ result' = result
      BY <2>7 DEF Deltas, TextDelta, ToolCallDelta, FinishDelta, Consume, ConsumeUnbiased
    <3> QED BY <2>4, <3>1
  <2>8. CASE \/ CancelledAtTop \/ CancelledMidStream \/ TurnDenied \/ StartHookFails
             \/ OpenFails \/ StreamFails \/ ToolHookFails
    <3>1. pc' = "done" /\ turns' = turns /\ hooks' = hooks /\ result' # "completed"
      BY <2>8 DEF CancelledAtTop, CancelledMidStream, TurnDenied, StartHookFails,
         OpenFails, StreamFails, ToolHookFails, Leave, Fail, Return
    <3> QED BY <2>4, <3>1 DEF Early, Late
  <2>9. CASE OutOfTurns \/ NoToolWanted
    <3>1. pc' = "done" /\ turns' = turns /\ hooks' = hooks /\ pc \in Late
      BY <2>9 DEF OutOfTurns, NoToolWanted, Leave, Return, Late
    <3> QED BY <2>4, <3>1 DEF Early, Late
  <2> QED
    BY <2>1, <2>2, <2>3, <2>5, <2>6, <2>7, <2>8, <2>9 DEF Next, OwnStep, Answered
<1>3. HooksInv => HooksPaired
  BY DEF HooksInv, RoundsPaired, HooksOnce, HooksPaired
<1> QED BY <1>1, <1>2, <1>3, TypeCorrect, ResultWhenOver, PTL DEF Spec

-----------------------------------------------------------------------------
\* Each step of the loop is a step of TurnContract or leaves its state alone:
\* the safety part of KeepsContract, for any limit on the rounds.
THEOREM LoopStepsKeepContract == Spec => Contract!Init /\ [][Contract!Next]_(Contract!vars)
<1> USE LoopAssumption
<1>0. /\ Contract!Running = Running
      /\ \A asked : Contract!TurnOutcomes(asked) = TurnOutcomes(asked)
  BY DEF Contract!Running, Running, Contract!TurnOutcomes, TurnOutcomes,
     Contract!Spontaneous, Spontaneous
<1>1. Init => Contract!Init
  BY <1>0 DEF Init, UserMsg, Held, Contract!Init
<1>2. TypeOK /\ OverWhenDone /\ [Next]_vars => [Contract!Next]_(Contract!vars)
  <2> SUFFICES ASSUME TypeOK, OverWhenDone, Next
               PROVE  Contract!Next \/ UNCHANGED Contract!vars
    BY DEF vars, outputs, Held, Contract!vars
  <2>0. /\ messages \in Seq(Messages) /\ turns \in 0 .. MaxTurns /\ turns \in Nat
        /\ cancelled \in BOOLEAN
        /\ Len(messages) \in Nat
    BY DEF TypeOK, Rounds
  \* The transcript is as it was, or one message longer.
  <2>g. \/ Len(messages') = Len(messages)
        \/ Len(messages') = Len(messages) + 1
    BY <2>0, TranscriptGrows
  <2>1. CASE Cancel
    BY <2>1 DEF Cancel, outputs, Held, Contract!Next, Contract!Ask
  <2>2. CASE StartTurn
    BY <1>0, <2>0, <2>2 DEF StartTurn, BeginTurn, HasTurnLeft, outputs, OverWhenDone,
       Held, Contract!Next, Contract!Round
  <2>3. CASE \/ CancelledAtTop \/ OutOfTurns \/ NoToolWanted \/ CancelledMidStream
             \/ TurnDenied \/ StartHookFails \/ OpenFails \/ ToolHookFails
             \/ StreamFails
    <3>1. /\ result = Running /\ result' \in TurnOutcomes(cancelled)
          /\ cancelled' = cancelled /\ turns' = turns /\ Held' = FALSE
      BY <2>3
      DEF CancelledAtTop, OutOfTurns, NoToolWanted, CancelledMidStream,
          TurnDenied, StartHookFails, OpenFails, ToolHookFails, StreamFails,
          Leave, Fail, Return, OverWhenDone, Running, TurnOutcomes, Spontaneous, Held
    <3>2. Len(messages') - 1 \in {Len(messages) - 1, (Len(messages) - 1) + 1}
      BY <2>0, <2>g
    <3> QED BY <1>0, <3>1, <3>2 DEF Contract!Next, Contract!Return
  <2>4. CASE ToolDenied \/ ToolAllowed \/ ToolReturns
    <3>1. /\ result = Running /\ result' = result
          /\ cancelled' = cancelled /\ turns' = turns
          /\ Len(messages') = Len(messages) + 1
      BY <2>0, <2>4, AppendedTypes
      DEF ToolDenied, ToolAllowed, ToolReturns, OverWhenDone
    <3>2. Len(messages') - 1 = (Len(messages) - 1) + 1
      BY <2>0, <3>1
    <3>3. Held' \in BOOLEAN
      BY DEF Held
    <3> QED BY <1>0, <3>1, <3>2, <3>3 DEF Contract!Next, Contract!Record
  <2>5. CASE EndStream
    <3>1. /\ result = Running /\ result' = result
          /\ cancelled' = cancelled /\ turns' = turns
      BY <2>5 DEF EndStream, OverWhenDone
    <3>h. Held' \in BOOLEAN
      BY DEF Held
    <3>2. CASE Len(messages') = Len(messages)
      BY <1>0, <3>1, <3>2, <3>h DEF Contract!Next, Contract!Proceed
    <3>3. CASE Len(messages') = Len(messages) + 1
      <4>1. Len(messages') - 1 = (Len(messages) - 1) + 1
        BY <2>0, <3>3
      <4> QED BY <1>0, <3>1, <3>h, <4>1 DEF Contract!Next, Contract!Record
    <3> QED BY <2>g, <3>2, <3>3
  <2>6. CASE TurnAllowed \/ OpenStream \/ AskToolHook
    <3>1. /\ result = Running /\ result' = result /\ messages' = messages
          /\ cancelled' = cancelled /\ turns' = turns
      BY <2>6 DEF TurnAllowed, OpenStream, AskToolHook, outputs, OverWhenDone
    <3>2. Held' \in BOOLEAN
      BY DEF Held
    <3> QED BY <1>0, <3>1, <3>2 DEF Contract!Next, Contract!Proceed
  <2>7. CASE Deltas
    BY <2>7
    DEF Deltas, TextDelta, ToolCallDelta, FinishDelta, Consume, ConsumeUnbiased,
        outputs, Held, Contract!vars
  <2> QED BY <2>1, <2>2, <2>3, <2>4, <2>5, <2>6, <2>7 DEF Next, OwnStep, Answered
<1> QED BY <1>1, <1>2, TypeCorrect, ResultWhenOver, PTL DEF Spec

-----------------------------------------------------------------------------
(* A cancelled call returns.                                                *)

\* How far a cancelled call is from its end: the places from which one more
\* answer brings it a place further down.  From the nearest it needs none.
Nearest == cancelled /\ pc \in {"top", "stream"}
Near    == cancelled /\ pc \in {"open", "invoke"}
Far     == cancelled /\ pc \in {"start_hook", "tool_hook"}
Farthest == cancelled /\ pc = "end_hook"
Over    == pc = "done"

\* A cancelled call that is answered gets a place further down, and no step
\* brings it back.
LEMMA CancelledComesDown ==
    /\ Nearest /\ [Next]_vars => Nearest' \/ Over'
    /\ Near /\ [Next]_vars => Near' \/ Nearest' \/ Over'
    /\ Far /\ [Next]_vars => Far' \/ Near' \/ Nearest' \/ Over'
    /\ Farthest /\ [Next]_vars => Farthest' \/ Far' \/ Over'
    /\ Nearest /\ <<OwnStep>>_vars => Over'
<1> USE DEF Nearest, Near, Far, Farthest, Over
<1>1. ASSUME OwnStep \/ Answered, cancelled
      PROVE  /\ pc \in {"top", "stream"} => pc' = "done"
             /\ pc \in {"open", "invoke"} => cancelled' /\ pc' \in {"top", "stream", "done"}
             /\ pc \in {"start_hook", "tool_hook"} =>
                   cancelled' /\ pc' \in {"open", "invoke", "top", "done"}
             /\ pc = "end_hook" => cancelled' /\ pc' \in {"tool_hook", "done"}
  BY <1>1
  DEF OwnStep, Answered, CancelledAtTop, OutOfTurns, StartTurn, BeginTurn, TurnDenied,
      TurnAllowed, StartHookFails, OpenStream, OpenFails, CancelledMidStream,
      AskToolHook, NoToolWanted, ToolDenied, ToolAllowed, ToolHookFails,
      ToolReturns, Leave, Fail, Return
<1>2. ASSUME [Next]_vars, ~OwnStep, ~Answered, cancelled
      PROVE  cancelled' /\ pc' = pc
  BY <1>2
  DEF Next, vars, Deltas, TextDelta, ToolCallDelta, FinishDelta, Consume,
      StreamFails, EndStream, Cancel
<1> QED BY <1>1, <1>2

\* A cancelled call returns or is held for ever by one request, for any limit
\* on the rounds: nothing is assumed but that the call takes its own steps,
\* so neither a silent stream nor the rounds still allowed can keep it.
THEOREM CancelReturnsHolds == Spec /\ GoesOn => CancelReturns
<1>1. TypeOK /\ cancelled => Farthest \/ Far \/ Near \/ Nearest \/ Over
  BY DEF TypeOK, Farthest, Far, Near, Nearest, Over
<1>2. Nearest => OnItsOwn
  BY DEF Nearest, OnItsOwn
<1>3. Farthest \/ Far \/ Near => Held
  BY DEF Farthest, Far, Near, Held
<1>4. Over <=> pc = "done"
  BY DEF Over
<1>5. Spec /\ GoesOn => (Nearest ~> Over)
  BY <1>2, CancelledComesDown, PTL DEF Spec, GoesOn
<1>6. Spec => (Near ~> Nearest \/ Over \/ []Held)
  BY <1>3, CancelledComesDown, PTL DEF Spec
<1>7. Spec => (Far ~> Near \/ Nearest \/ Over \/ []Held)
  BY <1>3, CancelledComesDown, PTL DEF Spec
<1>8. Spec => (Farthest ~> Far \/ Over \/ []Held)
  BY <1>3, CancelledComesDown, PTL DEF Spec
<1>9. Spec /\ GoesOn => (cancelled ~> Over \/ []Held)
  BY <1>1, <1>5, <1>6, <1>7, <1>8, TypeCorrect, PTL
<1> QED BY <1>4, <1>9, PTL DEF CancelReturns

\* The loop implements the contract, for any limit on the rounds: its steps
\* are steps of the contract, and it keeps the promise to return unless a
\* request holds it.
THEOREM KeepsContractHolds == Spec /\ GoesOn => KeepsContract
<1>1. OverWhenDone /\ pc = "done" => result # Contract!Running
  BY DEF OverWhenDone, Contract!Running, Running
<1> QED
  BY <1>1, LoopStepsKeepContract, ResultWhenOver, CancelReturnsHolds, PTL
  DEF KeepsContract, Contract!Spec, Contract!CancelReturns, CancelReturns

=============================================================================
