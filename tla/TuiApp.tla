------------------------------- MODULE TuiApp -------------------------------
(***************************************************************************)
(* The terminal UI (crates/tui/src): one event loop that takes keys, the    *)
(* turn's events and approval requests, in any order, and the tasks it      *)
(* spawns for turns.  `app`, `event` and `backend` are the files there.     *)
(*                                                                         *)
(* A turn's task works on a copy of the session and hands it back with its  *)
(* last message, Done.  For a bash call that the sidecar allows it asks the *)
(* user: it sends a request with a responder over the approval channel and  *)
(* waits.  The engine is used through its contract (TurnOutcomes).  The     *)
(* events that only add lines to the chat are left out.  Text in the input  *)
(* box is empty, a text, or starts with the name of a palette entry.        *)
(***************************************************************************)
EXTENDS Naturals, Sequences, SequencesExt, TurnOutcomes

CONSTANTS Turns,        \* prompts the user submits
          NoTurn,
          MaxCalls,     \* bound: bash calls of one turn
          AutoApprove   \* ASH_TUI_AUTO_APPROVE

ASSUME TuiAssumption ==
    /\ NoTurn \notin Turns
    /\ MaxCalls \in Nat
    /\ AutoApprove \in BOOLEAN

VARIABLES mode,       \* state.mode
          dialog,     \* the ApprovalState of an open dialog
          input,      \* state.input
          running,    \* state.running_turn
          token,      \* state.current_cancel: the turn it belongs to
          session,    \* the UI's session
          quit,       \* the event loop has ended
          pc,         \* where each turn's task is
          copy,       \* its working_session
          cancelled,  \* its CancellationToken
          calls,      \* bash calls it has made
          answer,     \* what its responder was sent
          turnEvents, \* the Done messages in the turn's channel
          requests    \* the approval channel: the turns that ask

screen == <<mode, dialog, input>>
ui     == <<running, token, session, quit>>
task   == <<pc, copy, cancelled, calls, answer>>
vars   == <<screen, ui, task, turnEvents, requests>>

-----------------------------------------------------------------------------
Prompt(t) == [turn |-> t, part |-> "prompt"]
Body(t)   == [turn |-> t, part |-> "body"]   \* what the engine appended

\* feedback: the box is closed, holds nothing but blanks, or holds a text.
NewDialog(t) == [turn |-> t, selected |-> 1, feedback |-> "closed"]

Editing == dialog.feedback # "closed"

Init == /\ mode = "normal"
        /\ dialog = NewDialog(NoTurn)
        /\ input = "empty"
        /\ running = FALSE
        /\ token = NoTurn
        /\ session = <<>>
        /\ quit = FALSE
        /\ pc = [t \in Turns |-> "none"]
        /\ copy = [t \in Turns |-> <<>>]
        /\ cancelled = [t \in Turns |-> FALSE]
        /\ calls = [t \in Turns |-> 0]
        /\ answer = [t \in Turns |-> "none"]
        /\ turnEvents = <<>>
        /\ requests = <<>>

-----------------------------------------------------------------------------
(* Keys in normal mode.  While a turn runs, all but Esc do nothing.         *)

Key(m) == ~quit /\ mode = m

CtrlC ==
    /\ ~quit
    /\ quit' = TRUE
    /\ UNCHANGED <<screen, running, token, session, task, turnEvents, requests>>

Edit(text) ==
    /\ Key("normal")
    /\ ~running
    /\ input' = text
    /\ UNCHANGED <<mode, dialog, ui, task, turnEvents, requests>>

\* What the input may be after one more character.
Longer == IF input = "empty" THEN {"text"} ELSE {"text", "entry"}

Type == \E text \in Longer : Edit(text)

Backspace == input # "empty" /\ \E text \in {"empty", "text", "entry"} : Edit(text)

\* Enter on nothing but blanks: they are cleared, no turn starts.
SubmitBlanks == input = "text" /\ Edit("empty")

\* '/' opens the palette wherever it is typed.
OpenPalette ==
    /\ Key("normal")
    /\ ~running
    /\ input' \in Longer
    /\ mode' = "palette"
    /\ UNCHANGED <<dialog, ui, task, turnEvents, requests>>

\* Mutant: the copy is taken before the prompt is pushed.
StartFromEarlier(t, at) ==
    /\ Key("normal")
    /\ ~running
    /\ pc[t] = "none"
    /\ input' = "empty"
    /\ running' = TRUE
    /\ token' = t
    /\ pc' = [pc EXCEPT ![t] = at]
    /\ copy' = [copy EXCEPT ![t] = session]
    /\ UNCHANGED <<mode, dialog, quit, cancelled, calls, answer,
                   turnEvents, requests>>

\* What both ways to start a turn do.
Start(t, at) ==
    /\ Key("normal")
    /\ ~running
    /\ pc[t] = "none"
    /\ input' = "empty"
    /\ running' = TRUE
    /\ token' = t
    /\ pc' = [pc EXCEPT ![t] = at]
    /\ copy' = [copy EXCEPT ![t] = session']
    /\ UNCHANGED <<mode, dialog, quit, cancelled, calls, answer,
                   turnEvents, requests>>

\* take_prompt, spawn_turn: the prompt goes into the UI's session and the
\* task's copy.
SubmitPrompt(t) ==
    /\ input = "text"
    /\ session' = Append(session, Prompt(t))
    /\ Start(t, "engine")

\* spawn_slash_turn: a palette entry is rendered by the sidecar first; only
\* the copy will hold the prompt.
SubmitEntry(t) ==
    /\ input = "entry"
    /\ session' = session
    /\ Start(t, "resolving")

EscCancels ==
    /\ Key("normal")
    /\ running
    /\ token # NoTurn
    /\ cancelled' = [cancelled EXCEPT ![token] = TRUE]
    /\ UNCHANGED <<screen, ui, pc, copy, calls, answer, turnEvents, requests>>

EscQuits ==
    /\ Key("normal")
    /\ ~running
    /\ input = "empty"
    /\ quit' = TRUE
    /\ UNCHANGED <<screen, running, token, session, task, turnEvents, requests>>

-----------------------------------------------------------------------------
(* Keys in the palette.                                                     *)

ClosePalette(text) ==
    /\ Key("palette")
    /\ mode' = "normal"
    /\ input' = text
    /\ UNCHANGED <<dialog, ui, task, turnEvents, requests>>

\* The entry's name replaces what follows the last '/', which may stand
\* behind other text.
PaletteConfirm == \E text \in {"text", "entry"} : ClosePalette(text)

PaletteEsc == ClosePalette("empty")

\* Deleting the last '/' closes the palette.
PaletteBackspace == \E text \in {"empty", "text"} : ClosePalette(text)

-----------------------------------------------------------------------------
(* Keys in the approval dialog: 1 Yes, 2 No, 3 feedback.                    *)

\* resolve: the responder is sent the decision and the dialog closes.
Resolve(decision) ==
    /\ answer' = [answer EXCEPT ![dialog.turn] = decision]
    /\ mode' = "normal"
    /\ dialog' = NewDialog(NoTurn)

Stay(d) == dialog' = d /\ UNCHANGED <<mode, answer>>

\* approval_confirm, with option n highlighted.
Confirm(n) ==
    \/ n = 1 /\ Resolve("allow")
    \/ n = 2 /\ Resolve("deny")
    \/ n = 3 /\ ~Editing
             /\ Stay([dialog EXCEPT !.selected = n, !.feedback = "blank"])
    \/ n = 3 /\ dialog.feedback = "typed" /\ Resolve("deny")

InDialog ==
    /\ Key("approval")
    /\ UNCHANGED <<input, ui, pc, copy, cancelled, calls, turnEvents, requests>>

DialogEnter == InDialog /\ Confirm(dialog.selected)

\* Mutant: a digit jumps to its option even in the feedback box.
JumpTo(n) == n

\* A digit jumps to its option unless feedback is being typed, and confirms.
Jump(n) == IF Editing THEN dialog.selected ELSE n

DialogDigit(n) == InDialog /\ Confirm(Jump(n))

DialogMove(n) ==
    /\ InDialog
    /\ ~Editing
    /\ n # dialog.selected
    /\ Stay([dialog EXCEPT !.selected = n])

\* Mutant: Esc closes the dialog and leaves the responder unused.
EscJustCloses ==
    /\ InDialog
    /\ mode' = "normal"
    /\ dialog' = NewDialog(NoTurn)
    /\ UNCHANGED answer

DialogEsc == InDialog /\ Resolve("deny")

\* A character, a blank included, or a backspace in the feedback box.
DialogEdit ==
    /\ InDialog
    /\ Editing
    /\ \E feedback \in {"blank", "typed"} :
          Stay([dialog EXCEPT !.feedback = feedback])

-----------------------------------------------------------------------------
(* A turn's task.                                                           *)

Move(t, from, to) == pc[t] = from /\ pc' = [pc EXCEPT ![t] = to]

\* The task ends; after the loop has gone nobody receives its message.
End(t, from, outcome) ==
    /\ Move(t, from, "ended")
    /\ turnEvents' = IF quit THEN turnEvents
                     ELSE Append(turnEvents, [turn |-> t, outcome |-> outcome])

Resolved(t) ==
    /\ Move(t, "resolving", "engine")
    /\ copy' = [copy EXCEPT ![t] = Append(@, Prompt(t))]
    /\ UNCHANGED <<screen, ui, cancelled, calls, answer, turnEvents, requests>>

\* Mutant: the early return forgets the Done.
ResolveFailsSilently(t) ==
    /\ Move(t, "resolving", "ended")
    /\ UNCHANGED <<screen, ui, copy, cancelled, calls, answer, turnEvents, requests>>

\* The sidecar does not know the entry, or does not answer.
ResolveFails(t) ==
    /\ End(t, "resolving", "error")
    /\ UNCHANGED <<screen, ui, copy, cancelled, calls, answer, requests>>

\* run_turn returned; the session comes back unless it failed.
EngineReturns(t) ==
    /\ \E o \in TurnOutcomes(cancelled[t]) : End(t, "engine", o)
    /\ \E s \in {copy[t], Append(copy[t], Body(t))} : copy' = [copy EXCEPT ![t] = s]
    /\ UNCHANGED <<screen, ui, cancelled, calls, answer, requests>>

\* A tool panics: the task is gone, without a Done.
Panics(t) ==
    /\ Move(t, "engine", "lost")
    /\ UNCHANGED <<screen, ui, copy, cancelled, calls, answer, turnEvents, requests>>

\* The engine calls on_tool_call for bash; the sidecar is asked first.
WantsBash(t) ==
    /\ calls[t] < MaxCalls
    /\ Move(t, "engine", "hook")
    /\ calls' = [calls EXCEPT ![t] = @ + 1]
    /\ UNCHANGED <<screen, ui, copy, cancelled, answer, turnEvents, requests>>

\* The sidecar denied or rewrote the call, the user need not be asked, or the
\* UI has gone: on_tool_call returns.
Unasked(t) ==
    /\ Move(t, "hook", "engine")
    /\ UNCHANGED <<screen, ui, copy, cancelled, calls, answer, turnEvents, requests>>

\* The sidecar's answer is an error, or the responder was dropped unused.
HookFails(t) ==
    /\ \/ End(t, "hook", "error")
       \/ quit /\ answer[t] = "none" /\ End(t, "asking", "error")
    /\ UNCHANGED <<screen, ui, copy, cancelled, calls, answer, requests>>

Asks(t) ==
    /\ ~AutoApprove
    /\ ~quit
    /\ Move(t, "hook", "asking")
    /\ answer' = [answer EXCEPT ![t] = "none"]
    /\ requests' = Append(requests, t)
    /\ UNCHANGED <<screen, ui, copy, cancelled, calls, turnEvents>>

\* The tool is run or its denial recorded.
Answered(t) ==
    /\ answer[t] # "none"
    /\ Move(t, "asking", "engine")
    /\ UNCHANGED <<screen, ui, copy, cancelled, calls, answer, turnEvents, requests>>

-----------------------------------------------------------------------------
(* The other branches of the event loop.                                    *)

\* Mutant: only a turn that went well unlocks the UI.
DoneFreesOnSuccess ==
    /\ ~quit
    /\ turnEvents # <<>>
    /\ turnEvents' = Tail(turnEvents)
    /\ IF Head(turnEvents).outcome = "error"
       THEN UNCHANGED <<running, token, session>>
       ELSE /\ running' = FALSE
            /\ token' = NoTurn
            /\ session' = copy[Head(turnEvents).turn]
    /\ UNCHANGED <<screen, quit, task, requests>>

\* The turn is over: its copy becomes the UI's session unless it failed.
ReceiveDone ==
    /\ ~quit
    /\ turnEvents # <<>>
    /\ turnEvents' = Tail(turnEvents)
    /\ running' = FALSE
    /\ token' = NoTurn
    /\ session' = IF Head(turnEvents).outcome = "error"
                  THEN session ELSE copy[Head(turnEvents).turn]
    /\ UNCHANGED <<screen, quit, task, requests>>

\* enter_approval: whatever mode the UI is in.
ReceiveRequest ==
    /\ ~quit
    /\ requests # <<>>
    /\ requests' = Tail(requests)
    /\ mode' = "approval"
    /\ dialog' = NewDialog(Head(requests))
    /\ UNCHANGED <<input, ui, task, turnEvents>>

NormalKey == \/ Type \/ Backspace \/ SubmitBlanks \/ OpenPalette \/ EscCancels \/ EscQuits
             \/ \E t \in Turns : SubmitPrompt(t) \/ SubmitEntry(t)

PaletteKey == PaletteConfirm \/ PaletteEsc \/ PaletteBackspace

DialogKey == \/ DialogEnter \/ DialogEsc \/ DialogEdit
             \/ \E n \in 1 .. 3 : DialogDigit(n) \/ DialogMove(n)

Task(t) == \/ Resolved(t) \/ ResolveFails(t) \/ EngineReturns(t) \/ Panics(t)
           \/ WantsBash(t) \/ Unasked(t) \/ HookFails(t) \/ Asks(t) \/ Answered(t)

Next == \/ CtrlC \/ NormalKey \/ PaletteKey \/ DialogKey
        \/ \E t \in Turns : Task(t)
        \/ ReceiveDone \/ ReceiveRequest

Spec == Init /\ [][Next]_vars

(***************************************************************************)
(* The loop takes what is in its channels, and a task that was answered     *)
(* goes on.  Nobody owes the UI anything: the user may go away, and neither *)
(* the sidecar's RPCs (crates/ipc/src/lib.rs:33-35) nor the request that    *)
(* opens a stream has a timeout or looks at the token.                      *)
(***************************************************************************)
FairSpec ==
    /\ Spec
    /\ WF_vars(ReceiveDone) /\ WF_vars(ReceiveRequest)
    /\ \A t \in Turns : WF_vars(Answered(t))

\* The same of the loop and one turn's task, as the proofs use it, with
\* ENABLED spelled out.
GoesOn(t) ==
    /\ []<>~(~quit /\ turnEvents # <<>>) \/ []<><<ReceiveDone>>_vars
    /\ []<>~(~quit /\ requests # <<>>) \/ []<><<ReceiveRequest>>_vars
    /\ []<>~(pc[t] = "asking" /\ answer[t] # "none") \/ []<><<Answered(t)>>_vars

-----------------------------------------------------------------------------
(* Properties.                                                              *)

Parts   == [turn: Turns, part: {"prompt", "body"}]
Dones   == [turn: Turns, outcome: AllOutcomes]
Dialogs == [turn: Turns \union {NoTurn}, selected: 1 .. 3,
            feedback: {"closed", "blank", "typed"}]

\* Where a task is that has not ended.
Alive == {"resolving", "engine", "hook", "asking"}

ScreenOK ==
    /\ mode \in {"normal", "palette", "approval"}
    /\ dialog \in Dialogs
    /\ Editing => dialog.selected = 3
    /\ input \in {"empty", "text", "entry"}

UiOK == /\ running \in BOOLEAN
        /\ token \in Turns \union {NoTurn}
        /\ session \in Seq(Parts)
        /\ quit \in BOOLEAN

TaskOK == /\ pc \in [Turns -> {"none", "ended", "lost"} \union Alive]
          /\ copy \in [Turns -> Seq(Parts)]
          /\ cancelled \in [Turns -> BOOLEAN]
          /\ calls \in [Turns -> 0 .. MaxCalls]
          /\ answer \in [Turns -> {"none", "allow", "deny"}]

ChannelsOK == /\ turnEvents \in Seq(Dones)
              /\ requests \in Seq(Turns)

\* The values each piece of the UI's and the tasks' state may take; feedback
\* is typed for the third option only.
TypeOK == ScreenOK /\ UiOK /\ TaskOK /\ ChannelsOK

Queued(t) == \E i \in DOMAIN turnEvents : turnEvents[i].turn = t

\* The turn occupies the UI: its task runs, its Done waits, or it died and no
\* Done will come.
Occupies(t) == pc[t] \in Alive \union {"lost"} \/ Queued(t)

\* The UI is locked exactly while a turn occupies it, and the token Esc would
\* cancel is that turn's (event:165-166, 327-329, 369-371): no Done of an
\* earlier turn unlocks a later one, no turn is started beside another.
TokenIsTheTurns ==
    ~quit => \A t \in Turns : Occupies(t) <=> running /\ token = t

\* The task waits for an answer it has not been sent.
Asking(t) == pc[t] = "asking" /\ answer[t] = "none"

\* A dialog about the turn is open, or a request waits to open one.
Asked(t) == \/ mode = "approval" /\ dialog.turn = t
            \/ \E i \in DOMAIN requests : requests[i] = t

\* An open dialog, or one that waits to be opened, is about a turn that waits
\* for that answer and no other: a request never replaces a dialog nobody
\* answered, whose responder would be dropped and its turn fail
\* (app:316-322, backend:118-125), and no answer goes to nobody.
DialogIsAwaited ==
    ~quit =>
        /\ \A t \in Turns : Asking(t) <=> Asked(t)
        /\ requests # <<>> => Len(requests) = 1 /\ mode = "normal"
        /\ mode = "approval" => dialog.turn \in Turns
        /\ mode = "palette" => ~running

\* The UI's session only grows at its end: the copy a turn hands back
\* (event:169) holds all the session held, because nothing is added to the
\* session while a turn has a copy of it.
SessionGrows ==
    [][IsPrefix(session, session')]_vars

\* While feedback is typed the command is not allowed: no key sends an Allow
\* (event:215-238).
TypingNeverAllows ==
    [][Editing /\ mode = "approval"
         => \A t \in Turns : answer'[t] = "allow" => answer[t] = "allow"]_vars

\* The turn does not lock the UI, or only the user, or nothing, can undo it.
Free(t) == ~(running /\ token = t) \/ pc[t] = "lost" \/ mode = "approval" \/ quit

\* The turn is with its engine or with the sidecar.
InOtherHands(t) == pc[t] \in {"resolving", "engine", "hook"}

\* The UI gets over a turn that was told to stop, or the turn never comes back.
GetsFree(t) == cancelled[t] ~> Free(t) \/ []InOtherHands(t)

\* After Esc on a running turn (event:302-308) the UI is free again, or shows
\* a dialog that only the user can close, or has ended; only a task that
\* panicked, and an engine or a sidecar that never comes back with the turn,
\* keep it locked: nothing the loop and the turn's task do themselves does.
EscFrees == \A t \in Turns : GoesOn(t) /\ GetsFree(t)

=============================================================================
