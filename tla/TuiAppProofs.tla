---------------------------- MODULE TuiAppProofs ----------------------------
(***************************************************************************)
(* Proofs about TuiApp, for any number of prompts and of bash calls: its    *)
(* types, that the UI is locked by the turn that occupies it, that a dialog *)
(* is about a turn that waits for it, and that the session only grows.      *)
(***************************************************************************)
EXTENDS TuiApp, SequenceTheorems, TLAPS

\* A dialog opens on its first option, with the feedback box closed.
LEMMA NewDialogType ==
    ASSUME NEW t \in Turns \union {NoTurn}
    PROVE  /\ NewDialog(t) \in Dialogs
           /\ NewDialog(t).turn = t
           /\ NewDialog(t).feedback = "closed"
BY DEF NewDialog, Dialogs

\* What the session and the copies gain is of the right type.
LEMMA PartTypes ==
    ASSUME NEW t \in Turns
    PROVE  Prompt(t) \in Parts /\ Body(t) \in Parts
BY DEF Prompt, Body, Parts

\* The UI's and the tasks' state keeps its types.
THEOREM TypeCorrect == Spec => []TypeOK
<1> USE TuiAssumption
<1>1. Init => TypeOK
  <2> SUFFICES ASSUME Init PROVE TypeOK
    OBVIOUS
  <2>1. ScreenOK
    <3>1. NewDialog(NoTurn) \in Dialogs /\ NewDialog(NoTurn).feedback = "closed"
      BY NewDialogType
    <3>2. /\ mode = "normal" /\ dialog = NewDialog(NoTurn)
          /\ input = "empty"
      BY DEF Init
    <3> QED BY <3>1, <3>2 DEF ScreenOK, Editing
  <2>2. UiOK
    <3>1. running = FALSE /\ token = NoTurn /\ session = <<>> /\ quit = FALSE
      BY DEF Init
    <3>2. <<>> \in Seq(Parts)
      OBVIOUS
    <3> QED BY <3>1, <3>2, Zenon DEF UiOK
  <2>4. ChannelsOK
    BY DEF Init, ChannelsOK
  <2>3. TaskOK
    BY DEF Init, TaskOK
  <2> QED BY <2>1, <2>2, <2>3, <2>4 DEF TypeOK
<1>2. TypeOK /\ [Next]_vars => TypeOK'
  <2> SUFFICES ASSUME TypeOK, [Next]_vars PROVE TypeOK'
    OBVIOUS
  <2>0. ScreenOK /\ UiOK /\ TaskOK /\ ChannelsOK
    BY DEF TypeOK
  <2>a. UNCHANGED screen => ScreenOK'
    BY <2>0 DEF ScreenOK, screen, Editing
  <2>b. UNCHANGED ui => UiOK'
    BY <2>0 DEF UiOK, ui
  <2>c. UNCHANGED task => TaskOK'
    BY <2>0 DEF TaskOK, task
  <2>d. UNCHANGED <<turnEvents, requests>> => ChannelsOK'
    BY <2>0 DEF ChannelsOK
  <2>1. CASE CtrlC \/ EscQuits
    <3>1. UiOK'
      BY <2>1, <2>0 DEF UiOK, CtrlC, EscQuits
    <3> QED BY <2>1, <2>a, <2>c, <2>d, <3>1 DEF CtrlC, EscQuits, TypeOK
  <2>2. CASE Type \/ Backspace \/ SubmitBlanks \/ OpenPalette
    <3>1. ScreenOK'
      BY <2>2, <2>0
      DEF ScreenOK, Editing, Type, Backspace, SubmitBlanks, Edit, OpenPalette, Longer
    <3> QED
      BY <2>2, <2>b, <2>c, <2>d, <3>1
      DEF Type, Backspace, SubmitBlanks, Edit, OpenPalette, TypeOK
  <2>3. ASSUME NEW t \in Turns, NEW at \in Alive, Start(t, at),
               session' \in Seq(Parts)
        PROVE  TypeOK'
    <3>1. ScreenOK'
      BY <2>3, <2>0 DEF ScreenOK, Editing, Start
    <3>2. UiOK'
      BY <2>3, <2>0 DEF UiOK, Start
    <3>3. TaskOK'
      BY <2>3, <2>0 DEF TaskOK, Start
    <3> QED BY <2>3, <2>d, <3>1, <3>2, <3>3 DEF Start, TypeOK
  <2>4. ASSUME NEW t \in Turns, SubmitPrompt(t) \/ SubmitEntry(t)
        PROVE  TypeOK'
    <3>1. session' \in Seq(Parts)
      BY <2>4, <2>0, PartTypes DEF UiOK, SubmitPrompt, SubmitEntry
    <3> QED BY <2>4, <2>3, <3>1 DEF SubmitPrompt, SubmitEntry, Alive
  <2>5. CASE EscCancels
    <3>1. TaskOK'
      BY <2>5, <2>0 DEF TaskOK, EscCancels
    <3> QED BY <2>5, <2>a, <2>b, <2>d, <3>1 DEF EscCancels, TypeOK
  <2>6. CASE PaletteKey
    <3>1. ScreenOK'
      BY <2>6, <2>0
      DEF ScreenOK, Editing, PaletteKey, PaletteConfirm, PaletteEsc,
          PaletteBackspace, ClosePalette
    <3> QED
      BY <2>6, <2>b, <2>c, <2>d, <3>1
      DEF PaletteKey, PaletteConfirm, PaletteEsc, PaletteBackspace,
          ClosePalette, TypeOK
  <2>7. CASE DialogKey
    <3>0. InDialog
      BY <2>7 DEF DialogKey, DialogEnter, DialogEsc, DialogEdit,
                  DialogDigit, DialogMove
    <3>1. ASSUME NEW d \in Dialogs, d.feedback # "closed" => d.selected = 3,
                 Stay(d)
          PROVE  ScreenOK' /\ TaskOK'
      <4>1. ScreenOK'
        BY <2>0, <3>0, <3>1 DEF InDialog, Stay, ScreenOK, Editing
      <4>2. TaskOK'
        BY <2>c, <3>0, <3>1 DEF InDialog, Stay, task
      <4> QED BY <4>1, <4>2
    <3>2. ASSUME NEW decision \in {"allow", "deny"},
                 Resolve(decision)
          PROVE  ScreenOK' /\ TaskOK'
      <4>1. ScreenOK'
        BY <2>0, <3>0, <3>2, NewDialogType DEF InDialog, Resolve, ScreenOK, Editing
      <4>2. TaskOK'
        BY <2>0, <3>0, <3>2 DEF InDialog, Resolve, TaskOK
      <4> QED BY <4>1, <4>2
    <3>3. ASSUME NEW n \in 1 .. 3,
                 Confirm(n)
          PROVE  ScreenOK' /\ TaskOK'
      <4>1. CASE Resolve("allow") \/ Resolve("deny")
        BY <4>1, <3>2
      <4>2. CASE /\ n = 3
                 /\ Stay([dialog EXCEPT !.selected = n, !.feedback = "blank"])
        BY <4>2, <3>1, <2>0 DEF Dialogs, ScreenOK
      <4> QED BY <3>3, <4>1, <4>2 DEF Confirm
    <3>4. ScreenOK' /\ TaskOK'
      <4>1. dialog.selected \in 1 .. 3
        BY <2>0 DEF ScreenOK, Dialogs
      <4>2. CASE DialogEnter
        BY <4>1, <4>2, <3>3 DEF DialogEnter
      <4>3. CASE DialogEsc
        BY <4>3, <3>2 DEF DialogEsc
      <4>4. CASE DialogEdit
        BY <4>4, <3>1, <2>0 DEF DialogEdit, Dialogs, ScreenOK, Editing
      <4>5. ASSUME NEW n \in 1 .. 3, DialogDigit(n)
            PROVE  ScreenOK' /\ TaskOK'
        BY <4>1, <4>5, <3>3 DEF DialogDigit, Jump
      <4>6. ASSUME NEW n \in 1 .. 3, DialogMove(n)
            PROVE  ScreenOK' /\ TaskOK'
        BY <4>6, <3>1, <2>0 DEF DialogMove, Dialogs, ScreenOK, Editing
      <4> QED BY <2>7, <4>2, <4>3, <4>4, <4>5, <4>6 DEF DialogKey
    <3> QED BY <2>b, <2>d, <3>0, <3>4 DEF InDialog, TypeOK
  <2>8. ASSUME NEW t \in Turns, NEW from, NEW to \in Alive \union {"ended", "lost"},
               Move(t, from, to), UNCHANGED <<copy, cancelled, calls, answer>>
        PROVE  TaskOK'
    BY <2>8, <2>0 DEF Move, TaskOK
  <2>9. ASSUME NEW t \in Turns, NEW from, NEW o \in AllOutcomes,
               End(t, from, o)
        PROVE  /\ turnEvents' \in Seq(Dones)
               /\ Move(t, from, "ended")
    <3>1. [turn |-> t, outcome |-> o] \in Dones
      BY DEF Dones
    <3> QED BY <2>0, <2>9, <3>1 DEF End, ChannelsOK
  <2>e. "error" \in AllOutcomes
    BY DEF AllOutcomes, TurnOutcomes, Spontaneous
  <2>10. ASSUME NEW t \in Turns, Resolved(t) PROVE TypeOK'
    <3>1. copy' \in [Turns -> Seq(Parts)]
      BY <2>10, <2>0, PartTypes DEF Resolved, TaskOK
    <3>2. TaskOK'
      BY <2>10, <2>0, <3>1 DEF Resolved, Move, TaskOK, Alive
    <3> QED BY <2>10, <2>a, <2>b, <2>d, <3>2 DEF Resolved, TypeOK
  <2>11. ASSUME NEW t \in Turns, ResolveFails(t) \/ HookFails(t) PROVE TypeOK'
    <3>1. turnEvents' \in Seq(Dones)
      BY <2>11, <2>9, <2>e DEF ResolveFails, HookFails
    <3>2. TaskOK'
      BY <2>11, <2>8, <2>9, <2>e DEF ResolveFails, HookFails
    <3> QED
      BY <2>0, <2>11, <2>a, <2>b, <3>1, <3>2
      DEF ResolveFails, HookFails, ChannelsOK, TypeOK
  <2>12. ASSUME NEW t \in Turns, EngineReturns(t) PROVE TypeOK'
    <3>1. copy' \in [Turns -> Seq(Parts)]
      <4>1. PICK s \in {copy[t], Append(copy[t], Body(t))} :
                  copy' = [copy EXCEPT ![t] = s]
        BY <2>12 DEF EngineReturns
      <4>2. copy[t] \in Seq(Parts) /\ Body(t) \in Parts
        BY <2>0, PartTypes DEF TaskOK
      <4>3. Append(copy[t], Body(t)) \in Seq(Parts)
        BY <4>2, AppendProperties
      <4>4. s \in Seq(Parts)
        BY <4>1, <4>2, <4>3
      <4> QED BY <2>0, <4>1, <4>4 DEF TaskOK
    <3>2. PICK o \in TurnOutcomes(cancelled[t]) : End(t, "engine", o)
      BY <2>12 DEF EngineReturns
    <3>3. o \in AllOutcomes
      BY DEF TurnOutcomes, Spontaneous, AllOutcomes
    <3>4. /\ turnEvents' \in Seq(Dones)
          /\ Move(t, "engine", "ended")
      BY <2>9, <3>2, <3>3
    <3>5. TaskOK'
      BY <2>0, <2>12, <3>1, <3>4 DEF EngineReturns, Move, TaskOK
    <3> QED
      BY <2>0, <2>12, <2>a, <2>b, <3>4, <3>5
      DEF EngineReturns, ChannelsOK, TypeOK
  <2>13. ASSUME NEW t \in Turns, Panics(t) \/ Unasked(t) \/ Answered(t)
         PROVE  TypeOK'
    <3>1. TaskOK'
      BY <2>8, <2>13 DEF Panics, Unasked, Answered, Alive
    <3> QED
      BY <2>13, <2>a, <2>b, <2>d, <3>1 DEF Panics, Unasked, Answered, TypeOK
  <2>14. ASSUME NEW t \in Turns, WantsBash(t) PROVE TypeOK'
    <3>1. TaskOK'
      BY <2>0, <2>14 DEF WantsBash, Move, TaskOK, Alive
    <3> QED BY <2>14, <2>a, <2>b, <2>d, <3>1 DEF WantsBash, TypeOK
  <2>15. ASSUME NEW t \in Turns, Asks(t) PROVE TypeOK'
    <3>1. TaskOK'
      BY <2>0, <2>15 DEF Asks, Move, TaskOK, Alive
    <3>2. ChannelsOK'
      BY <2>0, <2>15 DEF Asks, ChannelsOK
    <3> QED BY <2>15, <2>a, <2>b, <3>1, <3>2 DEF Asks, TypeOK
  <2>16. CASE ReceiveDone
    <3>1. /\ Head(turnEvents) \in Dones
          /\ turnEvents' \in Seq(Dones)
      BY <2>0, <2>16 DEF ReceiveDone, ChannelsOK
    <3>2. copy[Head(turnEvents).turn] \in Seq(Parts)
      BY <2>0, <3>1 DEF Dones, TaskOK
    <3>3. UiOK'
      BY <2>0, <2>16, <3>2 DEF ReceiveDone, UiOK
    <3> QED
      BY <2>0, <2>16, <2>a, <2>c, <3>1, <3>3 DEF ReceiveDone, ChannelsOK, TypeOK
  <2>17. CASE ReceiveRequest
    <3>1. Head(requests) \in Turns /\ requests' \in Seq(Turns)
      BY <2>0, <2>17 DEF ReceiveRequest, ChannelsOK
    <3>2. ScreenOK'
      BY <2>0, <2>17, <3>1, NewDialogType DEF ReceiveRequest, ScreenOK, Editing
    <3> QED
      BY <2>0, <2>17, <2>b, <2>c, <3>1, <3>2
      DEF ReceiveRequest, ChannelsOK, TypeOK
  <2>18. CASE UNCHANGED vars
    BY <2>18, <2>a, <2>b, <2>c, <2>d DEF vars, TypeOK
  <2> QED
    BY <2>1, <2>2, <2>4, <2>5, <2>6, <2>7, <2>10, <2>11, <2>12,
       <2>13, <2>14, <2>15, <2>16, <2>17, <2>18
    DEF Next, NormalKey, Task
<1> QED BY <1>1, <1>2, PTL DEF Spec

-----------------------------------------------------------------------------
\* Of sequences: their elements, and those that are empty or hold one.
LEMMA SequenceFacts ==
    ASSUME NEW S, NEW s \in Seq(S)
    PROVE  /\ \A i \in DOMAIN s : s[i] \in S
           /\ DOMAIN s = 1 .. Len(s) /\ Len(s) \in Nat
           /\ s # <<>> => 1 \in DOMAIN s /\ Len(s) >= 1
           /\ Len(s) = 1 => Tail(s) = <<>>
<1>1. \A i \in DOMAIN s : s[i] \in S
  OBVIOUS
<1>2. DOMAIN s = 1 .. Len(s) /\ Len(s) \in Nat
  OBVIOUS
<1>3. s # <<>> => 1 \in DOMAIN s /\ Len(s) >= 1
  BY <1>2
<1>4. Len(s) = 1 => Tail(s) = <<>>
  <2> SUFFICES ASSUME Len(s) = 1 PROVE Tail(s) = <<>>
    OBVIOUS
  <2>1. s # <<>>
    BY EmptySeq
  <2>2. Tail(s) \in Seq(S) /\ Len(Tail(s)) = 0
    BY <2>1, HeadTailProperties
  <2> QED BY <2>2, EmptySeq
<1> QED BY <1>1, <1>2, <1>3, <1>4

\* The Done messages name turns.
LEMMA DoneTurns ==
    ASSUME TypeOK
    PROVE  /\ \A i \in DOMAIN turnEvents : turnEvents[i].turn \in Turns
           /\ turnEvents # <<>> =>
                 1 \in DOMAIN turnEvents /\ Head(turnEvents) = turnEvents[1]
<1>1. turnEvents \in Seq(Dones)
  BY DEF TypeOK, ChannelsOK
<1>2. \A i \in DOMAIN turnEvents : turnEvents[i] \in Dones
  BY <1>1, SequenceFacts
<1>3. turnEvents # <<>> =>
         1 \in DOMAIN turnEvents /\ Head(turnEvents) = turnEvents[1]
  BY <1>1, SequenceFacts
<1> QED BY <1>2, <1>3 DEF Dones

\* What occupies the UI: at most one Done waits, that of a turn that ended.
OccupiedInv ==
    ~quit => /\ Len(turnEvents) <= 1
             /\ \A i \in DOMAIN turnEvents : pc[turnEvents[i].turn] = "ended"
             /\ \A t \in Turns : Occupies(t) <=> running /\ token = t

\* The steps of Next by what they do to the turn that occupies the UI.
Moves(t) == \/ Resolved(t) \/ Panics(t) \/ WantsBash(t) \/ Unasked(t)
            \/ Asks(t) \/ Answered(t)

Elsewhere == \/ Type \/ Backspace \/ SubmitBlanks \/ OpenPalette \/ EscCancels
             \/ PaletteKey \/ DialogKey \/ ReceiveRequest \/ UNCHANGED vars

\* Every step of the specification is one of these.
LEMMA Steps ==
    ASSUME [Next]_vars
    PROVE  \/ CtrlC \/ EscQuits \/ Elsewhere \/ ReceiveDone
           \/ \E t \in Turns : \/ SubmitPrompt(t) \/ SubmitEntry(t) \/ Moves(t)
                              \/ ResolveFails(t) \/ EngineReturns(t) \/ HookFails(t)
BY DEF Next, NormalKey, Task, Moves, Elsewhere

LEMMA ElsewhereKeeps ==
    ASSUME Elsewhere
    PROVE  UNCHANGED <<running, token, quit, session, pc, copy, turnEvents>>
<1> USE DEF screen, ui, task
<1>1. CASE Type \/ Backspace \/ SubmitBlanks \/ OpenPalette \/ EscCancels
  BY <1>1 DEF Type, Backspace, SubmitBlanks, OpenPalette, Edit, EscCancels
<1>2. CASE PaletteKey
  BY <1>2 DEF PaletteKey, PaletteConfirm, PaletteEsc, PaletteBackspace, ClosePalette
<1>3. CASE DialogKey
  BY <1>3 DEF DialogKey, DialogEnter, DialogEsc, DialogEdit, DialogDigit,
              DialogMove, InDialog
<1>4. CASE ReceiveRequest \/ UNCHANGED vars
  BY <1>4 DEF ReceiveRequest, vars
<1> QED BY <1>1, <1>2, <1>3, <1>4 DEF Elsewhere

\* Ends of a task: where it was, and that it queues its Done.
LEMMA TaskEnds ==
    ASSUME NEW t \in Turns, ResolveFails(t) \/ EngineReturns(t) \/ HookFails(t)
    PROVE  \E from \in Alive, o \in AllOutcomes :
              /\ End(t, from, o)
              /\ from = "asking" => quit
<1>1. "error" \in AllOutcomes /\ \A b \in BOOLEAN : TurnOutcomes(b) \subseteq AllOutcomes
  BY DEF AllOutcomes, TurnOutcomes, Spontaneous
<1>2. CASE ResolveFails(t) \/ HookFails(t)
  BY <1>1, <1>2 DEF ResolveFails, HookFails, Alive
<1>3. CASE EngineReturns(t)
  <2>1. PICK o \in TurnOutcomes(cancelled[t]) : End(t, "engine", o)
    BY <1>3 DEF EngineReturns
  <2>2. o \in AllOutcomes
    BY DEF TurnOutcomes, Spontaneous, AllOutcomes
  <2> QED BY <2>1, <2>2 DEF Alive
<1> QED BY <1>2, <1>3

LEMMA TaskMoves ==
    ASSUME TypeOK, NEW t \in Turns, Moves(t)
    PROVE  /\ pc[t] \in Alive
           /\ \E to \in Alive \union {"lost"} : pc' = [pc EXCEPT ![t] = to]
           /\ UNCHANGED <<running, token, quit, session, turnEvents>>
<1> USE DEF screen, ui, task, Move, Alive
<1>1. CASE Resolved(t) \/ Panics(t) \/ WantsBash(t)
  BY <1>1 DEF Resolved, Panics, WantsBash
<1>2. CASE Unasked(t) \/ Asks(t) \/ Answered(t)
  BY <1>2 DEF Unasked, Asks, Answered
<1> QED BY <1>1, <1>2 DEF Moves

LEMMA OccupiedStep ==
    ASSUME TypeOK, OccupiedInv, [Next]_vars
    PROVE  OccupiedInv'
<1>0. /\ pc \in [Turns -> {"none", "ended", "lost"} \union Alive]
      /\ turnEvents \in Seq(Dones)
  BY DEF TypeOK, TaskOK, ChannelsOK
<1>1. CASE CtrlC \/ EscQuits
  BY <1>1 DEF CtrlC, EscQuits, OccupiedInv
<1>2. CASE Elsewhere
  BY <1>2, ElsewhereKeeps DEF OccupiedInv, Occupies, Queued
<1>3. ASSUME NEW t \in Turns, SubmitPrompt(t) \/ SubmitEntry(t)
      PROVE  OccupiedInv'
  <2>1. /\ ~quit /\ ~running /\ pc[t] = "none"
        /\ running' = TRUE /\ token' = t
        /\ turnEvents' = turnEvents
    BY <1>3 DEF SubmitPrompt, SubmitEntry, Start, Key
  <2>2. PICK at \in Alive : pc' = [pc EXCEPT ![t] = at]
    BY <1>3 DEF SubmitPrompt, SubmitEntry, Start, Alive
  <2>3. \A u \in Turns : ~Occupies(u)
    BY <2>1 DEF OccupiedInv
  <2>4. turnEvents = <<>>
    BY <2>3, DoneTurns DEF Occupies, Queued
  <2>5. \A u \in Turns : Occupies(u)' <=> u = t
    BY <1>0, <2>1, <2>2, <2>3, <2>4 DEF Occupies, Queued, Alive
  <2> QED BY <2>1, <2>4, <2>5 DEF OccupiedInv
<1>4. ASSUME NEW t \in Turns, Moves(t)
      PROVE  OccupiedInv'
  <2>1. PICK to \in Alive \union {"lost"} : pc' = [pc EXCEPT ![t] = to]
    BY <1>4, TaskMoves
  <2>2. pc[t] \in Alive /\ UNCHANGED <<running, token, quit, turnEvents>>
    BY <1>4, TaskMoves
  <2>3. \A u \in Turns : Occupies(u)' <=> Occupies(u)
    BY <1>0, <2>1, <2>2 DEF Occupies, Queued
  <2>4. \A u \in Turns : pc[u] = "ended" => pc'[u] = "ended"
    BY <1>0, <2>1, <2>2 DEF Alive
  <2>5. \A i \in DOMAIN turnEvents : turnEvents[i].turn \in Turns
    BY DoneTurns
  <2> QED BY <2>2, <2>3, <2>4, <2>5 DEF OccupiedInv
<1>5. ASSUME NEW t \in Turns,
             ResolveFails(t) \/ EngineReturns(t) \/ HookFails(t)
      PROVE  OccupiedInv'
  <2>1. PICK from \in Alive, o \in AllOutcomes : End(t, from, o)
    BY <1>5, TaskEnds
  <2>2. UNCHANGED <<running, token, quit>>
    BY <1>5 DEF ResolveFails, EngineReturns, HookFails, ui
  <2> SUFFICES ASSUME ~quit PROVE OccupiedInv'
    BY <2>2 DEF OccupiedInv
  <2>3. pc[t] \in Alive /\ pc' = [pc EXCEPT ![t] = "ended"]
    BY <2>1 DEF End, Move
  <2>4. running /\ token = t
    BY <2>3 DEF OccupiedInv, Occupies
  <2>5. turnEvents = <<>>
    <3>1. SUFFICES ASSUME turnEvents # <<>> PROVE FALSE
      OBVIOUS
    <3>2. 1 \in DOMAIN turnEvents /\ turnEvents[1].turn \in Turns
      BY <3>1, DoneTurns
    <3>3. Queued(turnEvents[1].turn)
      BY <3>2 DEF Queued
    <3>4. turnEvents[1].turn = t
      BY <2>4, <3>2, <3>3 DEF OccupiedInv, Occupies
    <3> QED BY <2>3, <3>2, <3>4 DEF OccupiedInv, Alive
  <2>6. turnEvents' = <<[turn |-> t, outcome |-> o]>>
    BY <2>1, <2>5 DEF End
  <2>7. \A u \in Turns : Queued(u)' <=> u = t
    BY <2>6 DEF Queued
  <2>8. \A u \in Turns : Occupies(u)' <=> u = t
    BY <1>0, <2>3, <2>4, <2>7 DEF Occupies, OccupiedInv
  <2> QED BY <1>0, <2>2, <2>3, <2>4, <2>6, <2>8 DEF OccupiedInv
<1>6. CASE ReceiveDone
  <2>1. /\ ~quit /\ turnEvents # <<>> /\ turnEvents' = Tail(turnEvents)
        /\ running' = FALSE /\ pc' = pc
    BY <1>6 DEF ReceiveDone, task
  <2>2. 1 \in DOMAIN turnEvents /\ turnEvents' = <<>>
    BY <1>0, <2>1, SequenceFacts DEF OccupiedInv
  <2>3. turnEvents[1].turn \in Turns /\ Queued(turnEvents[1].turn)
    BY <2>2, DoneTurns DEF Queued
  <2>4. pc[turnEvents[1].turn] = "ended"
    BY <2>1, <2>2 DEF OccupiedInv
  <2>5. \A u \in Turns : u # turnEvents[1].turn => ~Occupies(u)
    BY <2>1, <2>3 DEF OccupiedInv, Occupies
  <2>6. \A u \in Turns : ~Occupies(u)'
    BY <2>1, <2>2, <2>4, <2>5 DEF Occupies, Queued, Alive
  <2>7. Len(turnEvents') = 0 /\ DOMAIN turnEvents' = {}
    BY <2>2
  <2> QED BY <2>1, <2>6, <2>7 DEF OccupiedInv
<1> QED BY <1>1, <1>2, <1>3, <1>4, <1>5, <1>6, Steps

\* The UI is locked exactly while a turn occupies it, and holds its token.
THEOREM TokenIsTheTurnsHolds == Spec => []TokenIsTheTurns
<1>1. Init => OccupiedInv
  BY DEF Init, OccupiedInv, Occupies, Queued, Alive
<1>2. TypeOK /\ OccupiedInv /\ [Next]_vars => OccupiedInv'
  BY OccupiedStep
<1>3. OccupiedInv => TokenIsTheTurns
  BY DEF OccupiedInv, TokenIsTheTurns
<1> QED BY <1>1, <1>2, <1>3, TypeCorrect, PTL DEF Spec

-----------------------------------------------------------------------------
\* What a turn that occupies the UI will hand back holds all the UI's session
\* holds.
CopyInv ==
    ~quit => \A t \in Turns : pc[t] \in Alive \/ Queued(t)
                                => IsPrefix(session, copy[t])

LEMMA PrefixSelf ==
    ASSUME NEW S, NEW s \in Seq(S)
    PROVE  IsPrefix(s, s)
BY LenProperties DEF IsPrefix

LEMMA PrefixAppend ==
    ASSUME NEW S, NEW s \in Seq(S), NEW t \in Seq(S), NEW e \in S, IsPrefix(s, t)
    PROVE  IsPrefix(s, Append(t, e))
<1>1. /\ Len(s) \in Nat /\ Len(t) \in Nat /\ Len(Append(t, e)) = Len(t) + 1
      /\ \A i \in 1 .. Len(t) : Append(t, e)[i] = t[i]
  BY LenProperties, AppendProperties
<1>2. SubSeq(Append(t, e), 1, Len(s)) = SubSeq(t, 1, Len(s))
  BY <1>1 DEF IsPrefix
<1> QED BY <1>1, <1>2 DEF IsPrefix

LEMMA CopyStep ==
    ASSUME TypeOK, OccupiedInv, CopyInv, [Next]_vars
    PROVE  CopyInv'
<1>0. /\ pc \in [Turns -> {"none", "ended", "lost"} \union Alive]
      /\ copy \in [Turns -> Seq(Parts)]
      /\ session \in Seq(Parts)
  BY DEF TypeOK, TaskOK, UiOK
<1>1. CASE CtrlC \/ EscQuits
  BY <1>1 DEF CtrlC, EscQuits, CopyInv
<1>2. CASE Elsewhere
  BY <1>2, ElsewhereKeeps DEF CopyInv, Queued
<1>3. ASSUME NEW t \in Turns, SubmitPrompt(t) \/ SubmitEntry(t)
      PROVE  CopyInv'
  <2>1. /\ ~quit /\ ~running
        /\ turnEvents' = turnEvents
        /\ copy' = [copy EXCEPT ![t] = session']
    BY <1>3 DEF SubmitPrompt, SubmitEntry, Start, Key
  <2>2. session' \in Seq(Parts)
    <3>1. Append(session, Prompt(t)) \in Seq(Parts)
      BY <1>0, PartTypes, AppendProperties
    <3> QED BY <1>0, <1>3, <3>1 DEF SubmitPrompt, SubmitEntry
  <2>3. PICK at \in Alive : pc' = [pc EXCEPT ![t] = at]
    BY <1>3 DEF SubmitPrompt, SubmitEntry, Start, Alive
  <2>4. \A u \in Turns : ~(pc[u] \in Alive) /\ ~Queued(u)
    BY <2>1 DEF OccupiedInv, Occupies
  <2>5. \A u \in Turns : pc'[u] \in Alive \/ Queued(u)' => u = t
    BY <1>0, <2>1, <2>3, <2>4 DEF Queued
  <2>6. IsPrefix(session', copy'[t])
    BY <1>0, <2>1, <2>2, PrefixSelf
  <2> QED BY <2>5, <2>6 DEF CopyInv
<1>4. ASSUME NEW t \in Turns, Moves(t)
      PROVE  CopyInv'
  <2>1. /\ pc[t] \in Alive
        /\ \E to \in Alive \union {"lost"} : pc' = [pc EXCEPT ![t] = to]
        /\ UNCHANGED <<quit, session, turnEvents>>
    BY <1>4, TaskMoves
  <2>2. \A u \in Turns : pc'[u] \in Alive => pc[u] \in Alive
    BY <1>0, <2>1
  <2>3. \A u \in Turns : copy'[u] \in {copy[u], Append(copy[u], Prompt(u))}
    BY <1>0, <1>4
    DEF Moves, Resolved, Panics, WantsBash, Unasked, Asks, Answered, task
  <2>4. \A u \in Turns : IsPrefix(session, copy[u]) => IsPrefix(session, copy'[u])
    BY <1>0, <2>3, PrefixAppend, PartTypes
  <2> QED BY <2>1, <2>2, <2>4 DEF CopyInv, Queued
<1>5. ASSUME NEW t \in Turns,
             ResolveFails(t) \/ EngineReturns(t) \/ HookFails(t)
      PROVE  CopyInv'
  <2>1. PICK from \in Alive, o \in AllOutcomes : End(t, from, o)
    BY <1>5, TaskEnds
  <2>2. /\ UNCHANGED <<quit, session>>
        /\ \A u \in Turns : copy'[u] \in {copy[u], Append(copy[u], Body(u))}
    <3>1. CASE ResolveFails(t) \/ HookFails(t)
      BY <3>1 DEF ResolveFails, HookFails, ui
    <3>2. CASE EngineReturns(t)
      <4>1. PICK s \in {copy[t], Append(copy[t], Body(t))} :
                  copy' = [copy EXCEPT ![t] = s]
        BY <3>2 DEF EngineReturns
      <4> QED BY <1>0, <3>2, <4>1 DEF EngineReturns, ui
    <3> QED BY <1>5, <3>1, <3>2
  <2>3. \A u \in Turns : IsPrefix(session, copy[u]) => IsPrefix(session, copy'[u])
    BY <1>0, <2>2, PrefixAppend, PartTypes
  <2> SUFFICES ASSUME ~quit, NEW u \in Turns, pc'[u] \in Alive \/ Queued(u)'
               PROVE  pc[u] \in Alive \/ Queued(u)
    BY <2>2, <2>3 DEF CopyInv
  <2>4. pc[t] \in Alive /\ pc' = [pc EXCEPT ![t] = "ended"]
    BY <2>1 DEF End, Move
  <2>5. CASE u = t
    BY <2>4, <2>5
  <2>6. CASE u # t
    <3>1. running /\ token = t
      BY <2>4 DEF OccupiedInv, Occupies
    <3>2. turnEvents = <<>>
      <4>1. SUFFICES ASSUME turnEvents # <<>> PROVE FALSE
        OBVIOUS
      <4>2. 1 \in DOMAIN turnEvents /\ turnEvents[1].turn \in Turns
        BY <4>1, DoneTurns
      <4>3. turnEvents[1].turn = t /\ pc[turnEvents[1].turn] = "ended"
        BY <3>1, <4>2 DEF OccupiedInv, Occupies, Queued
      <4> QED BY <2>4, <4>3 DEF Alive
    <3>3. turnEvents' = <<[turn |-> t, outcome |-> o]>>
      BY <2>1, <3>2 DEF End
    <3>4. ~Queued(u)'
      BY <2>6, <3>3 DEF Queued
    <3> QED BY <1>0, <2>4, <2>6, <3>4
  <2> QED BY <2>5, <2>6
<1>6. CASE ReceiveDone
  <2>1. /\ running' = FALSE /\ quit' = quit
    BY <1>6 DEF ReceiveDone
  <2>2. OccupiedInv'
    BY OccupiedStep
  <2> QED BY <2>1, <2>2 DEF OccupiedInv, Occupies, CopyInv
<1> QED BY <1>1, <1>2, <1>3, <1>4, <1>5, <1>6, Steps

\* No step loses a part of the session, or changes what it held.
THEOREM SessionGrowsHolds == Spec => SessionGrows
<1>1. Init => OccupiedInv /\ CopyInv
  BY DEF Init, OccupiedInv, Occupies, Queued, Alive, CopyInv
<1>2. TypeOK /\ OccupiedInv /\ CopyInv /\ [Next]_vars
        => OccupiedInv' /\ CopyInv'
  BY OccupiedStep, CopyStep
<1>3. TypeOK /\ OccupiedInv /\ CopyInv /\ [Next]_vars
        => [IsPrefix(session, session')]_vars
  <2> SUFFICES ASSUME TypeOK, CopyInv, [Next]_vars
               PROVE  IsPrefix(session, session')
    OBVIOUS
  <2>0. session \in Seq(Parts) /\ IsPrefix(session, session)
    BY PrefixSelf DEF TypeOK, UiOK
  <2>1. CASE CtrlC \/ EscQuits
    BY <2>0, <2>1 DEF CtrlC, EscQuits
  <2>2. CASE Elsewhere
    BY <2>0, <2>2, ElsewhereKeeps
  <2>3. ASSUME NEW t \in Turns, SubmitPrompt(t) \/ SubmitEntry(t)
        PROVE  IsPrefix(session, session')
    <3>1. IsPrefix(session, Append(session, Prompt(t)))
      BY <2>0, PrefixAppend, PartTypes
    <3> QED BY <2>0, <2>3, <3>1 DEF SubmitPrompt, SubmitEntry
  <2>4. ASSUME NEW t \in Turns, Moves(t) PROVE IsPrefix(session, session')
    BY <2>0, <2>4, TaskMoves
  <2>5. ASSUME NEW t \in Turns,
               ResolveFails(t) \/ EngineReturns(t) \/ HookFails(t)
        PROVE  IsPrefix(session, session')
    BY <2>0, <2>5 DEF ResolveFails, EngineReturns, HookFails, ui
  <2>6. CASE ReceiveDone
    <3>1. ~quit /\ turnEvents # <<>>
      BY <2>6 DEF ReceiveDone
    <3>2. /\ 1 \in DOMAIN turnEvents /\ Head(turnEvents) = turnEvents[1]
          /\ turnEvents[1].turn \in Turns
      BY <3>1, DoneTurns
    <3>3. IsPrefix(session, copy[Head(turnEvents).turn])
      BY <3>1, <3>2 DEF CopyInv, Queued
    <3> QED BY <2>0, <2>6, <3>3 DEF ReceiveDone
  <2> QED BY <2>1, <2>2, <2>3, <2>4, <2>5, <2>6, Steps
<1> QED BY <1>1, <1>2, <1>3, TypeCorrect, PTL DEF Spec, SessionGrows

-----------------------------------------------------------------------------
LEMMA DialogStep ==
    ASSUME TypeOK, OccupiedInv, DialogIsAwaited, [Next]_vars
    PROVE  DialogIsAwaited'
<1>0. /\ pc \in [Turns -> {"none", "ended", "lost"} \union Alive]
      /\ answer \in [Turns -> {"none", "allow", "deny"}]
      /\ requests \in Seq(Turns)
  BY DEF TypeOK, TaskOK, ChannelsOK
<1>a. /\ \A i \in DOMAIN requests : requests[i] \in Turns
      /\ requests # <<>> => 1 \in DOMAIN requests /\ Head(requests) = requests[1]
      /\ Len(requests) = 1 => Tail(requests) = <<>>
  BY <1>0, SequenceFacts
<1>b. ~quit /\ (\A t \in Turns : ~Asking(t)) => requests = <<>> /\ mode # "approval"
  BY <1>a DEF DialogIsAwaited, Asked
<1>c. \A t \in Turns : Asking(t) => Occupies(t)
  BY DEF Asking, Occupies, Alive
<1>d. ~quit /\ ~running => requests = <<>> /\ mode # "approval"
  BY <1>b, <1>c DEF OccupiedInv
<1>1. CASE CtrlC \/ EscQuits
  BY <1>1 DEF CtrlC, EscQuits, DialogIsAwaited
<1>2. CASE Type \/ Backspace \/ SubmitBlanks \/ EscCancels \/ UNCHANGED vars
  <2>1. UNCHANGED <<mode, dialog, running, quit, pc, answer, requests>>
    BY <1>2
    DEF Type, Backspace, SubmitBlanks, Edit, EscCancels, vars, screen, ui, task
  <2> QED BY <2>1 DEF DialogIsAwaited, Asking, Asked
<1>3. CASE OpenPalette \/ PaletteKey
  <2>1. /\ ~quit /\ mode # "approval" /\ mode' # "approval"
        /\ mode' = "palette" => ~running
        /\ UNCHANGED <<running, quit, pc, answer, requests>>
    BY <1>3
    DEF OpenPalette, PaletteKey, PaletteConfirm, PaletteEsc, PaletteBackspace,
        ClosePalette, Key, ui, task
  <2>2. requests = <<>>
    BY <1>3, <1>d, <2>1
    DEF OpenPalette, PaletteKey, PaletteConfirm, PaletteEsc, PaletteBackspace,
        ClosePalette, Key, DialogIsAwaited
  <2>3. \A t \in Turns : ~Asking(t)
    BY <2>1, <2>2 DEF DialogIsAwaited, Asked
  <2>4. \A t \in Turns : ~Asking(t)' /\ ~Asked(t)'
    BY <2>1, <2>2, <2>3 DEF Asking, Asked
  <2> QED BY <2>1, <2>2, <2>4 DEF DialogIsAwaited
<1>4. CASE DialogKey
  <2>1. InDialog
    BY <1>4 DEF DialogKey, DialogEnter, DialogEsc, DialogEdit, DialogDigit,
                DialogMove
  <2>2. /\ ~quit /\ mode = "approval" /\ requests = <<>>
        /\ UNCHANGED <<running, quit, pc, requests>>
    BY <2>1 DEF InDialog, Key, ui, DialogIsAwaited
  <2>3. ASSUME NEW d, d.turn = dialog.turn, Stay(d) PROVE DialogIsAwaited'
    <3>1. mode' = mode /\ answer' = answer /\ dialog'.turn = dialog.turn
      BY <2>3 DEF Stay
    <3> QED BY <2>2, <3>1 DEF DialogIsAwaited, Asking, Asked
  <2>4. ASSUME NEW decision \in {"allow", "deny"}, Resolve(decision)
        PROVE  DialogIsAwaited'
    <3>1. dialog.turn \in Turns /\ \A t \in Turns : Asking(t) => t = dialog.turn
      BY <2>2 DEF DialogIsAwaited, Asked
    <3>2. answer' = [answer EXCEPT ![dialog.turn] = decision] /\ mode' = "normal"
      BY <2>4 DEF Resolve
    <3>3. \A t \in Turns : ~Asking(t)'
      BY <1>0, <2>2, <3>1, <3>2 DEF Asking
    <3> QED BY <2>2, <3>2, <3>3 DEF DialogIsAwaited, Asked
  <2>5. dialog \in Dialogs
    BY DEF TypeOK, ScreenOK
  <2>6. ASSUME NEW n, Confirm(n) PROVE DialogIsAwaited'
    BY <2>3, <2>4, <2>5, <2>6 DEF Confirm, Dialogs
  <2>7. CASE DialogEdit \/ \E n \in 1 .. 3 : DialogMove(n)
    BY <2>3, <2>5, <2>7 DEF DialogEdit, DialogMove, Dialogs
  <2> QED
    BY <1>4, <2>4, <2>6, <2>7 DEF DialogKey, DialogEnter, DialogEsc, DialogDigit
<1>5. ASSUME NEW t \in Turns, SubmitPrompt(t) \/ SubmitEntry(t)
      PROVE  DialogIsAwaited'
  <2>1. /\ ~quit /\ mode = "normal" /\ ~running
        /\ UNCHANGED <<mode, quit, answer, requests>>
        /\ \E at \in {"engine", "resolving"} : pc' = [pc EXCEPT ![t] = at]
    BY <1>5 DEF SubmitPrompt, SubmitEntry, Start, Key
  <2>2. requests = <<>> /\ \A u \in Turns : ~Asking(u)
    BY <1>c, <1>d, <2>1 DEF OccupiedInv
  <2>3. \A u \in Turns : ~Asking(u)' /\ ~Asked(u)'
    BY <1>0, <2>1, <2>2 DEF Asking, Asked
  <2> QED BY <2>1, <2>2, <2>3 DEF DialogIsAwaited
<1>6. ASSUME NEW t \in Turns, Asks(t)
      PROVE  DialogIsAwaited'
  <2>1. /\ ~quit /\ pc[t] = "hook"
        /\ pc' = [pc EXCEPT ![t] = "asking"]
        /\ answer' = [answer EXCEPT ![t] = "none"]
        /\ requests' = Append(requests, t)
        /\ UNCHANGED <<mode, dialog, running, quit>>
    BY <1>6 DEF Asks, Move, screen, ui
  <2>2. running /\ token = t
    BY <2>1 DEF OccupiedInv, Occupies, Alive
  <2>3. \A u \in Turns : ~Asking(u)
    BY <1>c, <2>1, <2>2 DEF OccupiedInv, Asking
  <2>4. requests = <<>> /\ mode = "normal"
    BY <1>b, <2>1, <2>2, <2>3 DEF DialogIsAwaited, TypeOK, ScreenOK
  <2>5. requests' = <<t>>
    BY <2>1, <2>4
  <2>6. \A u \in Turns : Asking(u)' <=> u = t
    BY <1>0, <2>1, <2>3 DEF Asking
  <2>7. \A u \in Turns : Asked(u)' <=> u = t
    BY <2>1, <2>4, <2>5 DEF Asked
  <2> QED BY <2>1, <2>4, <2>5, <2>6, <2>7 DEF DialogIsAwaited
<1>7. ASSUME NEW t \in Turns, NEW to \in {"engine", "hook", "lost", "ended"},
             pc' = [pc EXCEPT ![t] = to], quit \/ ~Asking(t),
             UNCHANGED <<mode, dialog, running, quit, answer, requests>>
      PROVE  DialogIsAwaited'
  <2> SUFFICES ASSUME ~quit PROVE DialogIsAwaited'
    BY <1>7 DEF DialogIsAwaited
  <2>1. \A u \in Turns : Asking(u)' <=> Asking(u)
    BY <1>0, <1>7 DEF Asking
  <2> QED BY <1>7, <2>1 DEF DialogIsAwaited, Asked
<1>8. ASSUME NEW t \in Turns,
             Resolved(t) \/ Panics(t) \/ WantsBash(t) \/ Unasked(t) \/ Answered(t)
      PROVE  DialogIsAwaited'
  <2>1. /\ ~Asking(t)
        /\ \E to \in {"engine", "hook", "lost"} : pc' = [pc EXCEPT ![t] = to]
        /\ UNCHANGED <<mode, dialog, running, quit, answer, requests>>
    BY <1>8
    DEF Resolved, Panics, WantsBash, Unasked, Answered, Move, Asking, screen, ui
  <2> QED BY <1>7, <2>1
<1>9. ASSUME NEW t \in Turns,
             ResolveFails(t) \/ EngineReturns(t) \/ HookFails(t)
      PROVE  DialogIsAwaited'
  <2>1. PICK from \in Alive, o \in AllOutcomes :
              End(t, from, o) /\ (from = "asking" => quit)
    BY <1>9, TaskEnds
  <2>2. pc[t] = from /\ pc' = [pc EXCEPT ![t] = "ended"]
    BY <2>1 DEF End, Move
  <2>3. UNCHANGED <<mode, dialog, running, quit, answer, requests>>
    BY <1>9 DEF ResolveFails, EngineReturns, HookFails, screen, ui
  <2>4. quit \/ ~Asking(t)
    BY <2>1, <2>2 DEF Asking
  <2> QED BY <1>7, <2>2, <2>3, <2>4
<1>10. CASE ReceiveDone
  <2>1. running' = FALSE /\ UNCHANGED <<mode, dialog, quit, pc, answer, requests>>
    BY <1>10 DEF ReceiveDone, screen, task
  <2> QED BY <2>1 DEF DialogIsAwaited, Asking, Asked
<1>11. CASE ReceiveRequest
  <2>1. /\ ~quit /\ requests # <<>> /\ requests' = Tail(requests)
        /\ mode' = "approval" /\ dialog' = NewDialog(Head(requests))
        /\ UNCHANGED <<running, quit, pc, answer>>
    BY <1>11 DEF ReceiveRequest, ui, task
  <2>2. 1 \in DOMAIN requests /\ Head(requests) = requests[1] /\ requests' = <<>>
    BY <1>a, <2>1 DEF DialogIsAwaited
  <2>3. mode = "normal" /\ DOMAIN requests = {1}
    BY <1>0, <2>1, LenProperties DEF DialogIsAwaited
  <2>4. requests[1] \in Turns /\ dialog'.turn = requests[1]
    BY <1>a, <2>1, <2>2, NewDialogType
  <2>5. \A u \in Turns : Asking(u)' <=> u = requests[1]
    BY <2>1, <2>3 DEF DialogIsAwaited, Asking, Asked
  <2>6. \A u \in Turns : Asked(u)' <=> u = requests[1]
    BY <2>1, <2>2, <2>4 DEF Asked
  <2> QED BY <2>1, <2>2, <2>4, <2>5, <2>6 DEF DialogIsAwaited
<1> QED
  BY <1>1, <1>2, <1>3, <1>4, <1>5, <1>6, <1>8, <1>9, <1>10, <1>11, Steps
  DEF Elsewhere, Moves

\* A dialog is about a turn that waits for its answer, and such a turn has
\* one: nothing replaces it, and no answer goes astray.
THEOREM DialogIsAwaitedHolds == Spec => []DialogIsAwaited
<1>1. Init => OccupiedInv /\ DialogIsAwaited
  BY DEF Init, OccupiedInv, Occupies, Queued, Alive, DialogIsAwaited, Asking, Asked
<1>2. TypeOK /\ OccupiedInv /\ DialogIsAwaited /\ [Next]_vars
        => OccupiedInv' /\ DialogIsAwaited'
  BY OccupiedStep, DialogStep
<1> QED BY <1>1, <1>2, TypeCorrect, PTL DEF Spec

-----------------------------------------------------------------------------
\* No key allows the command while feedback is typed.
THEOREM TypingNeverAllowsHolds == Spec => TypingNeverAllows
<1>1. TypeOK /\ [Next]_vars
        => [Editing /\ mode = "approval"
              => \A t \in Turns : answer'[t] = "allow" => answer[t] = "allow"]_vars
  <2> SUFFICES ASSUME TypeOK, [Next]_vars, Editing, mode = "approval",
                      NEW t \in Turns, answer'[t] = "allow"
               PROVE  answer[t] = "allow"
    OBVIOUS
  <2>0. /\ answer \in [Turns -> {"none", "allow", "deny"}]
        /\ dialog.selected = 3 /\ dialog.feedback # "closed"
    BY DEF TypeOK, TaskOK, ScreenOK, Editing
  <2>1. ASSUME Resolve("deny") PROVE answer[t] = "allow"
    BY <2>0, <2>1 DEF Resolve
  <2>2. ASSUME Confirm(3) PROVE answer[t] = "allow"
    BY <2>1, <2>2 DEF Confirm, Stay
  <2>3. CASE DialogKey
    <3>1. CASE DialogEnter \/ \E n \in 1 .. 3 : DialogDigit(n)
      BY <2>0, <2>2, <3>1 DEF DialogEnter, DialogDigit, Jump, Editing
    <3>2. CASE DialogEsc
      BY <2>1, <3>2 DEF DialogEsc
    <3>3. CASE DialogEdit \/ \E n \in 1 .. 3 : DialogMove(n)
      BY <3>3 DEF DialogEdit, DialogMove, Stay
    <3> QED BY <2>3, <3>1, <3>2, <3>3 DEF DialogKey
  <2>4. ASSUME NEW u \in Turns, Asks(u) PROVE answer[t] = "allow"
    BY <2>0, <2>4 DEF Asks
  <2>5. CASE answer' = answer
    BY <2>5
  <2>6. CASE Elsewhere /\ ~DialogKey
    BY <2>5, <2>6
    DEF Elsewhere, Type, Backspace, SubmitBlanks, Edit, OpenPalette, EscCancels,
        PaletteKey, PaletteConfirm, PaletteEsc, PaletteBackspace, ClosePalette,
        ReceiveRequest, vars, task
  <2>7. CASE CtrlC \/ EscQuits \/ ReceiveDone
    BY <2>5, <2>7 DEF CtrlC, EscQuits, ReceiveDone, task
  <2>8. ASSUME NEW u \in Turns,
               \/ SubmitPrompt(u) \/ SubmitEntry(u)
               \/ ResolveFails(u) \/ EngineReturns(u) \/ HookFails(u)
        PROVE  answer[t] = "allow"
    BY <2>5, <2>8
    DEF SubmitPrompt, SubmitEntry, Start, ResolveFails, EngineReturns, HookFails
  <2>9. ASSUME NEW u \in Turns, Moves(u) PROVE answer[t] = "allow"
    BY <2>4, <2>5, <2>9
    DEF Moves, Resolved, Panics, WantsBash, Unasked, Answered
  <2> QED BY <2>3, <2>6, <2>7, <2>8, <2>9, Steps
<1> QED BY <1>1, TypeCorrect, PTL DEF Spec, TypingNeverAllows

-----------------------------------------------------------------------------
(* EscFrees.                                                                *)
(*                                                                         *)
(* While the UI is locked by a cancelled turn, the turn is elsewhere, and   *)
(* may stay there, or in one of the other places, which it leaves in time.  *)

Told(t)      == cancelled[t]
Place(t, at) == cancelled[t] /\ ~Free(t) /\ pc[t] = at
Away(t)      == cancelled[t] /\ ~Free(t) /\ InOtherHands(t)
Unanswered(t) == Place(t, "asking") /\ answer[t] = "none"
HasAnswer(t) == Place(t, "asking") /\ answer[t] # "none"
Handed(t)    == cancelled[t] /\ ~Free(t) /\ pc[t] \in {"none", "ended"}

\* A step of the cancelled turn's own task takes it from place to place.
LEMMA OwnStep ==
    ASSUME TypeOK, NEW t \in Turns, cancelled[t], ~Free(t), Task(t)
    PROVE  /\ cancelled'[t]
           /\ (Resolved(t) => pc[t] = "resolving" /\ pc'[t] = "engine")
           /\ (ResolveFails(t) => pc[t] = "resolving" /\ pc'[t] = "ended")
           /\ (EngineReturns(t) => pc[t] = "engine" /\ pc'[t] = "ended")
           /\ (Panics(t) => pc[t] = "engine" /\ pc'[t] = "lost")
           /\ (WantsBash(t) => pc[t] = "engine" /\ pc'[t] = "hook")
           /\ (Unasked(t) => pc[t] = "hook" /\ pc'[t] = "engine")
           /\ (HookFails(t) => pc[t] = "hook" /\ pc'[t] = "ended")
           /\ (Asks(t) => pc[t] = "hook" /\ pc'[t] = "asking" /\ answer'[t] = "none")
           /\ (Answered(t) => /\ pc[t] = "asking" /\ answer[t] # "none"
                              /\ pc'[t] = "engine")
<1> USE DEF TypeOK, TaskOK, Free, Task, Move, End, ui, task
<1>1. CASE Resolved(t) \/ Panics(t) \/ WantsBash(t) \/ Unasked(t) \/ Answered(t)
  BY <1>1 DEF Resolved, ResolveFails, EngineReturns, Panics, WantsBash, Unasked, HookFails,
              Asks, Answered
<1>2. CASE ResolveFails(t) \/ HookFails(t)
  BY <1>2 DEF Resolved, ResolveFails, EngineReturns, Panics, WantsBash, Unasked, HookFails,
              Asks, Answered
<1>3. CASE EngineReturns(t) \/ Asks(t)
  BY <1>3 DEF Resolved, ResolveFails, EngineReturns, Panics, WantsBash, Unasked, HookFails,
              Asks, Answered
<1> QED BY <1>1, <1>2, <1>3

\* No other step moves it, or takes its answer or its cancellation back.
LEMMA OtherStep ==
    ASSUME TypeOK, NEW t \in Turns, cancelled[t], ~Free(t), [Next]_vars, ~Task(t)
    PROVE  Free(t)' \/ (cancelled'[t] /\ pc'[t] = pc[t] /\ answer'[t] = answer[t])
<1> USE DEF TypeOK, TaskOK, Free, ui, task
<1>1. CASE CtrlC \/ EscQuits \/ ReceiveDone \/ ReceiveRequest \/ UNCHANGED vars
  BY <1>1 DEF CtrlC, EscQuits, ReceiveDone, ReceiveRequest, vars
<1>2. CASE Type \/ Backspace \/ SubmitBlanks \/ OpenPalette \/ EscCancels
  BY <1>2 DEF Type, Backspace, SubmitBlanks, OpenPalette, Edit, EscCancels
<1>3. CASE PaletteKey
  BY <1>3 DEF PaletteKey, PaletteConfirm, PaletteEsc, PaletteBackspace, ClosePalette
<1>4. ~DialogKey
  BY DEF DialogKey, DialogEnter, DialogEsc, DialogEdit, DialogDigit, DialogMove, InDialog,
         Key
<1>5. ASSUME NEW u \in Turns PROVE ~SubmitPrompt(u) /\ ~SubmitEntry(u)
  BY DEF SubmitPrompt, SubmitEntry, Start
<1>6. ASSUME NEW u \in Turns, u # t, Task(u)
      PROVE  cancelled'[t] /\ pc'[t] = pc[t] /\ answer'[t] = answer[t]
  BY <1>6 DEF Task, Resolved, ResolveFails, EngineReturns, Panics, WantsBash, Unasked,
              HookFails, Asks, Answered, Move, End
<1> QED BY <1>1, <1>2, <1>3, <1>4, <1>5, <1>6 DEF Next, NormalKey

\* The places and the ways between them.
LEMMA WayOut ==
    ASSUME TypeOK, TokenIsTheTurns, DialogIsAwaited, NEW t \in Turns
    PROVE  /\ Told(t) => Free(t) \/ Away(t) \/ Unanswered(t) \/ HasAnswer(t) \/ Handed(t)
           /\ Away(t) /\ [Next]_vars => Away(t)' \/ Unanswered(t)' \/ Handed(t)' \/ Free(t)'
           /\ Unanswered(t) /\ [Next]_vars => Unanswered(t)' \/ Free(t)'
           /\ HasAnswer(t) /\ [Next]_vars => HasAnswer(t)' \/ Away(t)' \/ Free(t)'
           /\ Handed(t) /\ [Next]_vars => Handed(t)' \/ Free(t)'
           /\ HasAnswer(t) /\ <<Answered(t)>>_vars => Away(t)' \/ Free(t)'
           /\ <<ReceiveDone>>_vars => Free(t)'
           /\ <<ReceiveRequest>>_vars => Free(t)'
           /\ Away(t) => InOtherHands(t)
           /\ HasAnswer(t) => pc[t] = "asking" /\ answer[t] # "none"
           /\ Unanswered(t) => ~quit /\ requests # <<>>
           /\ Handed(t) => ~quit /\ turnEvents # <<>>
<1> USE DEF Away, InOtherHands, Unanswered, HasAnswer, Handed, Place
<1>1. Told(t) => Free(t) \/ Away(t) \/ Unanswered(t) \/ HasAnswer(t) \/ Handed(t)
  BY DEF Told, Free, TypeOK, TaskOK, Alive
<1>2. <<ReceiveDone>>_vars \/ <<ReceiveRequest>>_vars => Free(t)'
  BY DEF ReceiveDone, ReceiveRequest, Free
<1>3. ASSUME cancelled[t], ~Free(t), [Next]_vars, ~Task(t)
      PROVE  Free(t)' \/ (cancelled'[t] /\ pc'[t] = pc[t] /\ answer'[t] = answer[t])
  BY <1>3, OtherStep
<1>4. ASSUME cancelled[t], ~Free(t), Task(t)
      PROVE  \/ Free(t)'
             \/ /\ Away(t) => Away(t)' \/ Unanswered(t)' \/ Handed(t)'
                /\ HasAnswer(t) => Away(t)'
                /\ pc[t] \notin {"none", "ended"} /\ ~Unanswered(t)
  <2>1. Panics(t) => Free(t)'
    BY <1>4, OwnStep DEF Free
  <2> QED BY <1>4, <2>1, OwnStep DEF Task
<1>5. Unanswered(t) => ~quit /\ requests # <<>>
  BY DEF DialogIsAwaited, Asking, Asked, Free
<1>6. Handed(t) => ~quit /\ turnEvents # <<>>
  BY DEF TokenIsTheTurns, Occupies, Alive, Queued, Free
<1>7. Away(t) \/ Unanswered(t) \/ HasAnswer(t) \/ Handed(t) => cancelled[t] /\ ~Free(t)
  OBVIOUS
<1>8. Answered(t) => Task(t)
  BY DEF Task
<1> HIDE DEF Away, InOtherHands, Unanswered, HasAnswer, Handed, Place
<1>9. ASSUME cancelled[t], ~Free(t), [Next]_vars, ~Task(t)
      PROVE  \/ Free(t)'
             \/ /\ Away(t) => Away(t)'
                /\ Unanswered(t) => Unanswered(t)'
                /\ HasAnswer(t) => HasAnswer(t)'
                /\ Handed(t) => Handed(t)'
  BY <1>3, <1>9 DEF Away, InOtherHands, Unanswered, HasAnswer, Handed, Place
<1>10. /\ Handed(t) => pc[t] \in {"none", "ended"}
       /\ HasAnswer(t) => pc[t] = "asking" /\ answer[t] # "none"
       /\ Away(t) => InOtherHands(t)
  BY DEF Handed, HasAnswer, Place, Away
<1> QED BY <1>1, <1>2, <1>4, <1>5, <1>6, <1>7, <1>8, <1>9, <1>10

\* Esc on a running turn: the UI is unlocked in time, or shows a dialog that
\* waits for the user, or ends, unless the turn's task died or the turn stays
\* with its engine or the sidecar for ever; nothing is assumed of these two.
THEOREM EscFreesHolds == Spec /\ (\A t \in Turns : GoesOn(t)) => EscFrees
<1> SUFFICES ASSUME NEW t \in Turns
             PROVE  Spec /\ GoesOn(t) => GetsFree(t)
  BY DEF EscFrees
<1>1. Spec => [](TypeOK /\ TokenIsTheTurns /\ DialogIsAwaited) /\ [][Next]_vars
  BY TypeCorrect, TokenIsTheTurnsHolds, DialogIsAwaitedHolds, PTL DEF Spec
<1>2. Spec /\ GoesOn(t) => (Handed(t) ~> Free(t)) /\ (Unanswered(t) ~> Free(t))
  BY <1>1, WayOut, PTL DEF GoesOn
<1>3. Spec => (Away(t) ~> Unanswered(t) \/ Handed(t) \/ Free(t) \/ []InOtherHands(t))
  BY <1>1, WayOut, PTL
<1>4. Spec /\ GoesOn(t) => (HasAnswer(t) ~> Away(t) \/ Free(t))
  BY <1>1, WayOut, PTL DEF GoesOn
<1>5. Told(t) <=> cancelled[t]
  BY DEF Told
<1>6. Spec /\ GoesOn(t) => (Told(t) ~> Free(t) \/ []InOtherHands(t))
  BY <1>1, <1>2, <1>3, <1>4, WayOut, PTL
<1> QED BY <1>5, <1>6, PTL DEF GetsFree

=============================================================================
