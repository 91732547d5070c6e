# ash-code in TLA+

TLA+ models of [ash-code](../src), a coding agent made of a Rust host (the
turn engine, a gRPC query host, a terminal UI, tools, session storage) and a
Python sidecar (harness middleware, LLM providers, skills and commands with
hot reload, an HTTP gateway).  TLC checks the models on small instances;
TLAPS checks proofs for every size: of the safety properties, of three
refinements, and of the liveness that needs no induction over data.

Source lines are abbreviated in comments: `query` is
`crates/query/src/lib.rs`, `api` is `crates/api/src/lib.rs`, `bus` is
`crates/bus/src/lib.rs`, `app`, `event` and `backend` are the files of
`crates/tui/src`, `file_write`, `file_edit`, `file_read`, `bash`, `grep` and
`glob_tool` those of `crates/tools/src`, `postgres`, `memory` and `mod` those
of `crates/core/src/storage`, and `registry`, `watcher` and `loader` those of
`ashpy/src/ashpy/skills`.

1. [The system](#1-the-system)
2. [Modules](#2-modules)
3. [What the runs show](#3-what-the-runs-show)
4. [Bounds](#4-bounds)
5. [Fairness and deadlock](#5-fairness-and-deadlock)
6. [What is proved](#6-what-is-proved)
7. [Disagreements between code and documents](#7-disagreements-between-code-and-documents)
8. [What is not modelled](#8-what-is-not-modelled)
9. [What could come next](#9-what-could-come-next)

## 1. The system

A *turn* is one prompt of a user and everything the agent does about it.

```
 browser --HTTP/SSE--> gateway (ashpy/api) --gRPC--> QueryHostService (crates/api)
                                                       | spawns a task per turn
 terminal --> TUI (crates/tui) -----------------.      v
                                                 '-> QueryEngine::run_turn (crates/query)
                                                       |  hooks, provider stream    | tools
                                                       v                            v
                                              sidecar (ashpy/server.py)      ToolRegistry (crates/tools)
                                                harness, providers,
                                                skills, commands
 watchers <--gRPC stream-- WatchSession <-- SessionBus (crates/bus) <-- published by the engine
 SessionStore (crates/core/storage): memory or PostgreSQL, read and written by the query host
```

| Component | State it keeps | Operations | Hard behaviour | What makes it correct |
|---|---|---|---|---|
| Turn engine, `crates/query` | `turns_taken`, `stop_reason`, the accumulating text, the pending tool call, the `Session`'s messages | `run_turn`: per round, OnTurnStart, the provider's stream, OnTurnEnd, OnToolCall, the tool | a `CancellationToken` that fires at any await; a stream that stays silent; RPCs that fail anywhere; deny decisions | text shown is text recorded; tool uses are answered; one Outcome; at most `max_turns` rounds; a cancel is prompt, and the call returns unless a request holds it |
| Query host, `crates/api` | `active_tokens` (session → token), the store, one spawned task per turn | RunTurn, CancelTurn, DeleteSession, GetSession, ListSessions | overlapping turns of a session; a cancel racing the end; errors answered before clean-up; the process dying between engine, put and Outcome; a put that fails and takes effect later | no token outlives its turn; a running turn can be cancelled; what a client was told is done is stored, and no later turn takes it away |
| Session bus, `crates/bus`, and WatchSession, `crates/api` | map session → broadcast channel; per watcher a cursor and a response stream | publish, subscribe, close; the forwarding task | two threads making one channel; a watcher that lags; clients that go away | each event shown, waiting or reported lost, in order, once; the newest event is not lost to lag |
| Session stores, `crates/core/src/storage` | rows: messages, provider, model, created/updated | build_default, get, put, delete, list | connections, callers, processes and the database lost between request and answer; a pool with a limit; replicas that make the table at once | an answered call took effect once, a failed one at most once; no call hangs; the table is made once |
| Terminal UI, `crates/tui` | mode, input, UI session, running turn and its token, approval dialog with a oneshot | keys, turn events, approval requests, Done | three sources in one `select!`; a dialog the engine waits for; the working copy of the session | a dialog is about a waiting turn; every dialog is answered or its turn released; the session only grows |
| Tools, `crates/tools` | the files, child processes | bash, file_read, file_edit, file_write, grep, glob | a timeout against a running child; two system calls where one is meant, an await between a system call and the answer; index arithmetic; directories that change while they are walked | a write is seen whole or not at all and stays; a search finds what is there; every call returns |
| Middleware chain, `ashpy/middleware` | ordered middlewares, their counters | on_turn_start/end, on_tool_call, on_stream_delta | concurrent turns sharing a counter; a short-circuit | first denial wins; order by priority |
| Provider registry, `ashpy/providers` | configurations, instances, active name and model | reload, switch, get, list | reload during a stream; a cached instance | a switch is used by the next request; a reload keeps a valid active provider |
| Skills and commands, `ashpy/skills`, `ashpy/commands` | files on disk, registry, subscribers | file events, debounce, reload, Watch | changes while a scan runs; a notice that arrives during the debounce or the reload; one bad file among many | the registry ends up with what the disk holds; subscribers learn it |
| Boot and supervision, `crates/cli`, `docker/` | per replica a process on its way up and its sidecar, the database, the supervisor's patience | start, connect with retry, make the schema, listen, exit, restart | start order; bounded retries; two clients of one pool; replicas racing for the table | once everything is up each replica comes to serve; waiting never uses up the restarts |

The query host uses the engine as a function from a session to an outcome; the
store it uses as a map that may fail; the engine publishes to the bus, and
WatchSession forwards from it.  The TUI runs the same engine in its own process,
through a backend that asks the user about bash calls.  The models follow these
seams: `TurnLoop` is the engine, `TurnContract` what its callers rely on,
`QueryHost` and `TuiApp` use only the contract's outcomes, and `SessionFeed`
takes publications in any order threads can make them.  `FileTools` is what the
engine finds behind a tool call, with the calls of several turns at once, and
`FilesContract` what it may count on there.
`SessionContract` is what the host relies on when it calls the store,
`SessionStore` the two backends that keep it, composed with `Boot`, which
starts the process they run in, takes it down and starts it again.

## 2. Modules

| Module | Models | Role |
|---|---|---|
| `TurnOutcomes` | how `run_turn` can end, given whether its token was cancelled | shared by the engine's contract, the host and the UI |
| `TurnContract` | what the callers of `run_turn` rely on | abstract specification |
| `TurnLoop` | `QueryEngine::run_turn` | detailed specification, implements `TurnContract` |
| `QueryHost` | RunTurn with its task, CancelTurn, DeleteSession, the token map, the store as used, the process's death | |
| `SessionFeed` | `SessionBus` and the forwarding task of WatchSession | |
| `FilesContract` | what the file tools promise calls that take turns and do not edit | abstract specification |
| `FileTools` | the six built-in tools on the files of a workspace | detailed specification, implements `FilesContract` |
| `Boot` | `ash serve` from its start to its port, supervisord, sidecars, the database | extended by `SessionStore` |
| `SessionContract` | what the `SessionStore` trait promises its callers | abstract specification |
| `SessionStore` | the memory and the PostgreSQL backend at work, with starts and outages | detailed specification, composed with `Boot`, implements `SessionContract` |
| `TuiApp` | the TUI's event loop, keys by mode, the approval dialog and backend, the task of a turn | |
| `HotReload` | the skill and command files on disk, the watcher's notices and debounce, `reload`, the Watch streams | |
| `MC*` | the instances TLC checks | |
| `*Proofs` | theorems of the module they extend | TLAPS |

**TurnLoop.**  `pc` names the await the call is suspended at: `top` (the head
of the loop), `start_hook`, `open` (the stream being opened), `stream`,
`end_hook`, `tool_hook`, `invoke`, `done`.  An action is what the code does
from one await to the next, with everything it appends to the session, to the
sink and to the bus on the way.  `Cancel` may happen at any of them.  The
biased `select!` of the stream makes every delta action conditional on
`~cancelled`.  Hooks, provider and tools answer anything: each await has an
action per kind of answer (`TurnAllowed`, `TurnDenied`, `StartHookFails`, ...).
A message is its kind, its round, its call id and the number of text chunks it
holds.  The OnStreamDelta notifications are fire-and-forget (a spawned task
whose result nobody reads) and change nothing here.  `streamed` (what the user
has been shown) and `hooks` (the RPCs made) are history.

The steps fall into those the call takes by itself (`OwnStep`: the head of the
loop, and the stream once the token is cancelled) and those that follow an
answer (`Answered`).  Of its awaits only the stream's looks at the token: the
hooks, the opening of a stream (query:319: the sidecar answers with the
provider's first delta, and no RPC has a timeout) and the tools hold the call
until they are answered (`Held`).

**TurnContract.**  Five facts of a call: whether it was asked to stop, its
rounds, how much the transcript grew, its outcome, and whether a request holds
it.  It may start a round only if not asked to stop and below the limit, may
only append, and returns once with an outcome `TurnOutcomes` allows.  A call
that was asked to stop returns or is held for ever (`CancelReturns`).

**QueryHost.**  A turn goes `idle` → `loaded` (store.get, prompt pushed) →
`running` (token registered, the displaced one cancelled, task spawned) →
`returned` → `cleaned` (token taken out if it looks ours) → `stored` (put, or a
failed put) → `done` (Outcome sent); on an engine error `running` → `failed`
(error Outcome sent) → `done` (token removed by session id).  `rejected` is a
handler that ended before it registered, `lost` a task that died.  A
transcript is the sequence of the turns it holds, since a turn appends and
never edits.  `LooksOurs` is the code's test: it compares the two tokens'
`is_cancelled()` flags, not their identity.  `given` is frozen at the start of
a behaviour and says which circumstances it may meet (`Circumstances`:
overlapping clients, engine errors, panics, store failures, an in-memory
store, crashes, deletes); a property that promises something only without one
of them says so in its formula, and one run covers several combinations.  The
store is used as `SessionContract` has it: a put that failed, or that was under
way when the process died, may be in `late`, and then takes effect at any later
time (`LatePut`), over whatever the record holds by then.  `dropped` (the turns
a delete, a reset, a lost store, a failed put or a stale copy kept out of the
record) and `stale` (the turns in flight when a delete or a late put changed
the record they had loaded, and those whose own put was late) are history.

**SessionFeed.**  A thread that publishes or subscribes looks the session up
under the read lock (`Found`, `Missed`) and, if it missed, comes back with the
write lock (`Insert`, which looks again).  `sent[c]` is all that channel `c`
ever took; tokio's ring of `Capacity` events is the tail of it, so a watcher
more than `Capacity` behind is told of a lag and moved to the oldest event
still there.  `owed`, `skipped` and `era` are history: what a watcher should
hear of, what it was told it missed, and the number of closes before a channel
was made.

**TuiApp.**  The event loop is one actor: keys (`NormalKey`, `PaletteKey`,
`DialogKey`), a `Done` from the turn's channel (`ReceiveDone`) and an approval
request (`ReceiveRequest`) come in any order, as from its `select!`.  A turn's
task is another: `none` → `resolving` (a slash turn asks the sidecar for its
prompt) → `engine` → `hook` (the sidecar is asked about a bash call) →
`asking` (the user is asked) → `engine` ... → `ended`, or `lost` if a tool
panics.  `copy` is its working session; `turnEvents` keeps only the Done
messages, because the other events only add lines to the chat.  The feedback
box of a dialog is closed, blank (nothing but spaces) or typed, which is what
Enter tells apart.  A session is the sequence of what prompts and turns added
to it.

**HotReload.**  `phase` is where `reload` is: `idle`, `list` (about to list the
directory), `read` (going through the files in order), `emit` (the registry is
replaced, the events go out).  Only the disk changes while it scans: `reload`
awaits nothing, so the debounce, the RPCs and the streams wait for the event
loop (`Idle`).  `notices` counts the `_trigger` calls the watcher's thread has
handed to the loop, `task` is the debounce task (`none`, `asleep`,
`reloading`, `done`).  A file holds a skill, nothing, or something that does not
parse (any exception of the front matter's parser is caught and recorded as
that file's error, loader:33-35).  `unheard` says that the last change gave no
notice (a directory moved away, or a change before the watcher was started)
and `view[w]` is what the client of a stream knows from the events it was
sent; both are history.  Commands work the same way, except that they
have no directories to move and no Watch RPC.

**FileTools.**  A call is one `ToolRegistry::invoke`; `step` is the system call
it is about to make, or the last one it made if only the answer is left
(`renamed`, `edited`, `unlinked`), and every `.await` lies between two steps:
a process that dies after rename(2) has replaced the file and answers nobody.
Names lead to
inodes (`file`, and `tmp` for the temporary sibling a `file_write` makes), so a
writer that has a file open goes on writing to the inode whatever the name
leads to by then.  A text is the sequence of the calls that each put one line
into it, and a flag that says whether somebody meant it (`whole`) or a cut or
mixed write left it.  A `bash` call spawns a `child` that outlives the call,
its timeout and the process.  `grep` and `glob` take the directory's entries
one by one, in any order, while the files change.  `file_read`'s sum is taken
modulo `Wrap`.  `given` is the case of the behaviour: the tools that are
called, and whether writers of one file overlap, system calls fail, the process
dies.  `renamed`, `replaced` and `there` are history.

**FilesContract.**  A workspace of files, each replaced, appended to and read
in one step, and calls that are asked, do one of these at most, and are
answered.  A `file_write` replaces its file once at most: before it reports
success, and never if it reports an error; one whose process dies may have
replaced it or not.  A command adds its line once at most,
before its call reports success, and may do so after a call that did not.  The
promise holds while the calls that write one file take turns and none of them
is a `file_edit` (`Orderly`): a caller that breaks this frees the tools for
good.

**Boot.**  `phase` is how far a replica's process is: `sidecar` (waiting for
it), `store` (building the store), `connected` (a first client in hand),
`begun`, `locked` (the schema's transaction, waiting for and holding the
advisory lock), `ready`, `serving`; `broken` if the connection was lost on the
way, `down` between two starts, `fatal` when supervisord has given up.  `tries`
counts the attempts of the current loop, `backoff` the failed starts in a row.
An exit is a failed start if it came within `startsecs`, which is left open
except where the code has waited longer than that.  `seen` is whether CREATE
TABLE IF NOT EXISTS saw the table.

**SessionStore.**  Calls of the trait's methods are made on serving replicas:
`stage` is where the handler is (`waits` for a client of the pool, `asked`,
`ok`, `failed`), `stmt` where its statement is (`sent`, `done`, `undone`), and
the two part ways when a connection, the caller or the process is lost: the
server finishes what it has received.  With the in-memory store both happen in
one step, under its mutex.  A record is named by the put that wrote it.  The
module extends `Boot`, whose steps its `Next` composes with the calls; a crash
takes a replica's calls and its memory with it.

**SessionContract.**  A map of records in each store and calls on it.  A call is
asked, takes effect in one step (`Take`), is answered.  It may fail at any time
and take effect all the same, before or after, but not twice.  The stores of
`Volatile` may lose their map when calls fail: `SessionStore` takes the
replicas for them, so the database never may.

## 3. What the runs show

Passing:

- `turn` (`TurnLoop_turn.cfg`, about 100 000 states).  Over two rounds with up
  to three deltas each: text the user saw is in the transcript of every call
  that did not fail, a cancelled one included (`NoTextLost`); every recorded
  tool use is answered by the next message (`ToolUseAnswered`); a call that
  ends well publishes one Outcome and nothing after it (`OutcomeClosesBus`);
  the stop reason is the true one (`ReasonIsTrue`); after a cancel no further
  round begins and no more text is shown (`CancelIsPrompt`; the round begun may
  still send its request); no hook is called
  twice for a round, and each round that a later one follows had its start and
  its end (`HooksPaired`); a cancelled call
  returns though the stream is silent, unless a request holds it for ever
  (`CancelReturns`); and the loop implements
  its contract (`KeepsContract`).
- `host` (`QueryHost_host.cfg`, about 670 000 states).  Two turns of one session
  or of two, in six combinations of circumstances: no token outlives its turn
  (`NoStaleToken`), although the test that decides whose token it is looks at
  two flags; without engine errors a running turn is cancelled or can be
  (`UncancelledIsRegistered`).  For clients that wait for their answer, on a
  durable store and on the in-memory one, with a crash or without: what they
  were told is done is in the record, unless its own put failed or something
  that `dropped` names took it out (`AnsweredIsStored`); a record gains turns at
  its end and nothing else, but for resets and stale copies (`RecordsGrow`); and
  what was deleted comes back only with a stale copy (`DeletedStaysGone`).  A
  cancelled turn gets its Outcome though its engine or its put failed, unless
  one of them never ends (`CancelledIsAnswered`).
- `feed` (`SessionFeed_feed.cfg`, about 100 000 states).  Publishers and
  watchers race for the channel, watchers lag, the channel is closed: each event
  owed to a watcher is shown to it in order, waits, or is reported lost
  (`NothingUnaccounted`); only events with a whole ring of newer ones behind
  them are lost (`LossIsLag`); the newest one arrives (`CaughtUp`).
- `tui` (`TuiApp_tui.cfg`, about 210 000 states).  Two prompts, each a plain or
  a slash turn with up to two bash calls: the UI is locked exactly while a turn
  occupies it and the token Esc cancels is that turn's (`TokenIsTheTurns`); an
  open dialog is about a turn that waits for it, a request never replaces
  another dialog, and a waiting turn has one (`DialogIsAwaited`); handing the
  copy back loses nothing of the session (`SessionGrows`); no key allows a
  command while its refusal is being typed (`TypingNeverAllows`); after Esc
  the UI is free again unless a dialog waits for the user, the task panicked, or
  the turn stays with its engine or the sidecar for ever (`EscFrees`).
- `reload` (`HotReload_reload.cfg`, about 1.2 million states).  Two files that
  may bear one name: whenever nothing is under way, the registry and its errors
  are what the disk holds (`QuietIsCurrent`), and it ends so (`Converges`),
  although one flag stands for any number of notices and a scan may be half
  through when a file changes; a client that listed the skills when it
  subscribed knows the registry's names from the events alone (`ViewFollows`).

- `tools` (`FileTools_tools.cfg`, about 250 000 states).  Three calls on one
  file in six combinations of tools and circumstances.  While the calls that
  write the file do not overlap: a file is torn by an edit only, never by a
  `file_write`, whatever fails or dies on the way (`TornByEditOnly`); what a
  caller was told is written stays, and a write that reports an error has not
  been seen (`AnswersAreTrue`); and if none of them edits, readers and writers
  see files that are replaced, appended to and read in one step
  (`KeepsContract`).  A search
  that ends below its limit has found every line that was there from its start
  to its end (`FindsWhatStays`) and none prints more than its limit (`TypeOK`);
  `file_read` returns the lines asked for and panics only on a sum beyond a
  usize (`RangeIsRead`); every call returns (`CallsReturn`).
- `service` (`SessionStore_service.cfg`, about 170 000 states).  Two replicas on
  one database and up to three calls in ten combinations of circumstances: a
  schema transaction finds the table as it saw it (`LookStaysTrue`); waiting
  for sidecar or database never uses up the supervisor's patience
  (`FatalIsEarned`); no statement is under way without the table
  (`StatementsFindTable`); either backend keeps `SessionContract`
  (`KeepsContract`); each replica comes to serve once the outages end
  (`Serves`) and no call hangs (`CallsEnd`).

Violated, each a statement of the repository the code does not keep; see
[section 7](#7-disagreements-between-code-and-documents): `denied_pairing`,
`dropped_call`, `crash_prompt`, `two_writers`, `pool_of_one`.

## 4. Bounds

- `turn`: `MaxTurns = 2`, so that a round follows a round and the limit is
  met both after a tool and by a call that finishes in its last round;
  `MaxDeltas = 3`, so that one stream holds text, a tool call and a finish, or
  two tool calls and a finish.  Two call ids tell a call from another.  The
  stop reasons the loop treats alike are one (`"end_turn"`), beside
  `"tool_use"`.
- `host`: two turns, one to displace the other's token; they run on one session
  or on two, so that what a step does to another session shows.  One crash, one
  delete.  Clients that wait meet a crash on the durable store with and without
  a delete, puts that fail beside a delete, and the in-memory store with all
  that can befall it.  `HostCases` combines what may meet in one of the code's windows; the
  proofs cover any number of turns and any combination.
- `feed`: a ring of one event and three events, so that a watcher lags by one
  and by two; two publishers and two watchers, so that each kind races with
  its own and with the other; one close, so that there is a channel before
  and after it.
- `tui`: two prompts, so that a turn follows a turn and could meet what the
  first left behind; two bash calls a turn, so that a dialog follows a dialog.
  `AutoApprove` is FALSE, since TRUE only takes `Asks` away.
- `reload`: two files, so that one shadows the other and a scan is between
  them; two skills that share a name and one named by its directory; two
  changes, so that a change meets the reload of another; one manual reload
  beside the debounced ones; one stream, because streams do not meet (the
  proofs cover any number).
- `tools`: three calls, so that two writers and a reader, or a writer, a command
  left running and an edit, meet on one file; files of up to two lines and two
  matches, so that both limits are met and passed; sums modulo 8, so that 1 + 7
  wraps; one crash.  Each case of `ToolCases` names at most three tools, since
  three calls are made.
- `service`: two replicas, the least that race for the table; two attempts and
  one retry, so that a loop goes round and is used up, and a start fails after
  a failed one; a pool of two, which a start needs, and a third call (in a
  `crowd` only) for which it has no client.  One outage, or two of any kinds
  (`again`), so that one meets the start another caused.  `Placements`: the
  calls on one replica or on both.  `ServiceCases` names each method and each
  outage somewhere, and together what may meet in one call or one start.
  `pool_of_one`: one replica, no calls, nothing that fails.
- `MaxDeltas`, `MaxEvents`, `MaxCrashes`, `MaxOutages`, `Extra`, `Placements`, `MaxDeletes`, `MaxCloses`, `MaxCalls`,
  `MaxChanges`, `MaxReloads` bound the models; `MaxTurns`, `Capacity`,
  `PoolSize`, `Attempts`, `StartRetries`, `MaxLines`, `MaxMatches` and `Wrap`
  are parameters of the code (10 by default, 256, 8 by default, 10, 10, 2 MB,
  500 lines of a grep or 1000 names of a glob, and 2^64).

The type invariants are checked in the runs `tools` and `reload` and proved of
every component (`TypeCorrect`).

## 5. Fairness and deadlock

- `TurnLoop`: weak fairness of `OwnStep`, the steps the call takes by itself.
  Nobody owes it an answer: no RPC has a timeout (ipc lib.rs:33-35), the sidecar
  sends nothing on ChatStream before the provider's first delta, hooks and tools
  take as long as they like, and none of these awaits looks at the token.  An
  open stream may stay silent too, and there the token has to end the call.
- `QueryHost`: a handler registers and a task tidies up and sends its Outcome;
  these steps wait for a lock that is held for a moment only.  Neither the
  engine nor the store owes an answer (no statement has a timeout),
  and clients owe nothing.
- `SessionFeed`: a thread that entered the bus leaves it (the lock is never
  held across an await), a forwarding task runs.  Nobody owes a publication, a
  watch or a disconnect.

- `TuiApp`: the loop takes what waits in its channels, and a turn whose dialog
  was answered goes on.  The engine, the sidecar and the user owe nothing: a
  turn may stay in an engine held by a request, and a dialog open, for ever.

- `FileTools`: a call that was made runs on (system calls on regular files and
  directories return), and its timer fires.  A command owes nothing: it may hang
  for ever.
- `SessionStore`: supervisord starts what has exited, a start goes on, sidecars
  and database come up again (an outage ends), a handler that can have a client
  takes it, the server executes what it has received, results arrive.  Nobody
  owes a call, and a pool without a client keeps its callers waiting.

- `HotReload`: the event loop runs what is scheduled on it, a timer fires, a
  reload goes on.  Nobody owes a change, a subscription or a read of a queue.

The proofs cannot use `WF` and `SF`, which rest on ENABLED.  They use `GoesOn`,
the same fairness with the guards written out: `[]<>~Guard \/ []<><<Action>>_vars`.
`CancelReturns`, `CancelledIsAnswered` and `EscFrees` state `GoesOn` beside the
response, so TLC checks in their runs that it follows from `FairSpec`: the
proofs assume no more than the runs do.  The `GoesOn` of `FileTools` and
`SessionStore` follows from what the runs check of each call (`CallsReturn`: it
is again and again not in flight; `CallsEnd`: nor waiting for anything).

Every run says `CHECK_DEADLOCK FALSE`: a call returns, the turns a run has and
the events, keys or changes it may see are finite, and nothing is left to do after them.
That nothing stops too early is what the liveness properties say.

## 6. What is proved

All theorems are of the unbounded models: any limit on rounds and deltas, any
sets of turns, sessions, publishers and watchers, any capacity, any number of
crashes, deletes, closes, bash calls, files, changes, reloads, replicas, store
calls, attempts and outages.  They use only the named assumptions on the
constants (`LoopAssumption`, `HostAssumption`, `FeedAssumption`,
`TuiAssumption`, `ReloadAssumption`, `BootAssumption`, `StoreAssumption`,
`ToolsAssumption`, and `NoTextAssumption`: the value that stands for no file is
no text), which TLC evaluates in the runs.  The theorems about liveness assume
`GoesOn` beside (section 5).

**TurnLoopProofs**: `TypeCorrect`, `NoTextLostHolds`, `ToolUseAnsweredHolds`,
`OutcomeClosesBusHolds`, `ReasonIsTrueHolds`, `CancelIsPromptHolds`,
`HooksPairedHolds`, `CancelReturnsHolds` and `KeepsContractHolds`, the whole
refinement: initial states map to initial states and each step of the loop to
a step of `TurnContract` or a stutter (`LoopStepsKeepContract`), and a call that
was asked to stop returns or is held.  None of the invariants is inductive alone: `ReasonIsTrue` needs to
know that a call at the head of a later round has a tool result last in its
transcript, `NoTextLost` that the chunks counted are those shown.  `LoopInv`
gathers these facts and is the inductive invariant.  `HooksInv` says beside it
which hooks the current round may have been called where: while it streams its
start only, before the tool hook its start and its end.  `CancelReturns`
divides the awaits by how far they are from the end: a cancelled call never
takes a step back, since a round starts by looking at the token, so it either
reaches the end or stays at one await for ever, and that is no stream's.

**QueryHostProofs**: `TypeCorrect`, `NoStaleTokenHolds`,
`UncancelledIsRegisteredHolds`, `OneUncancelledTurnHolds`,
`AnsweredIsStoredHolds`, `RecordsGrowHolds`, `DeletedStaysGoneHolds`,
`CancelledIsAnsweredHolds` and `EnginesKeepContract`.  The token properties rest on an invariant about who
can be in the map beside whom: a token that is not in the map and whose turn is
still running was displaced, so it is cancelled, so comparing flags finds
another's token "ours" only if that one is cancelled too, and then taking it
out costs nobody anything.  `AnsweredIsStored` rests on `TranscriptInv`: with
clients that wait, at most one turn of a session is under way, its copy holds
all the record held when it was loaded unless it is stale or a reset, and an
answered turn stays in the record until something drops it.  `RecordsGrow`
follows from `GrowInv`, at the two steps that write a record: what a put writes
is what the record holds and the turn itself, unless its copy is stale.
`DeletedStaysGone` is about what a turn carries across a delete: `GoneInv` says
of each copy what the property says of each record, and that only turns written
back before, or whose put failed, are dropped or are in another turn's copy, so
that what a new turn adds is never something dropped.  `CancelledIsAnswered`
follows a turn through its places; `AnswerInv` says that only a spawned turn is
registered or cancelled, and that one past its engine has an outcome.
`EnginesKeepContract` says that the host sees of each engine
call what `TurnContract` allows.

**SessionFeedProofs**: `TypeCorrect`, `OneChannelHolds`,
`NothingUnaccountedHolds`, `LossIsLagHolds`.  `OneChannel` says that two channels are never made
between the same two closes; that is what looking again under the write lock
is for.  `FeedInv` says that a channel takes events in rising order, that a
feed ends below what waits, and that feed, waiting events and reported losses
are together what is owed.  `LossIsLag` needs `Spaced`: two events of a channel
were published at least as far apart as they stand in it, so what the ring has
pushed out has `Capacity` later ones.

**TuiAppProofs**: `TypeCorrect`, `TokenIsTheTurnsHolds`,
`DialogIsAwaitedHolds`, `SessionGrowsHolds`, `TypingNeverAllowsHolds`,
`EscFreesHolds`.
`OccupiedInv` says that at most one Done waits, and that a turn occupies the UI
exactly if it is locked with that turn's token: so only one task is alive, and
that is why a dialog is never replaced and its responder never dropped.
`CopyInv` says that the UI's session is a prefix of the copy of the turn that
occupies it, from which `SessionGrows` follows at the Done.  `EscFrees` follows
a cancelled turn from an answered dialog back to its engine and from its Done to
the UI: while it is not free, it is in other hands or on its way there.

**HotReloadProofs**: `TypeCorrect`, `QuietIsCurrentHolds`,
`ViewFollowsHolds`.  `QuietInv` says that a scan into which no change has come
is `Faithful`: every file present is still to be read, or has been read as it
is.  A change breaks that only by leaving a notice behind (or by being
unheard), and the notice leads to another scan.  `ViewFollows` needs `TodoTrue`
(the events still to be emitted are one for a name, and right about it) and
two lemmas about queues, `FollowsAppend` and `FollowsTail`.

**SessionStoreProofs**: `TypeCorrect`, `StartsAsAlone`, `LookStaysTrueHolds`,
`FatalIsEarnedHolds`, `StatementsFindTableHolds`, `KeepsContractHolds` and
`ClientsComeBackHolds`.
`StartsAsAlone` says that the composed system, seen through the variables of
`Boot`, is a behaviour of `Boot`: calls never interfere with a start, so what
is proved of starts alone holds with calls beside them.  `LookStaysTrue` rests
on the lock: who is in `locked` holds it, so no one else commits, and a death
lets go of it together with the place.  `FatalIsEarned` counts: each failed
start of a well configured replica in a row was an outage's.
`StatementsFindTable` needs that who is past `locked` has seen the table made
and that tables are never dropped.  `KeepsContractHolds` is the whole safety
refinement `Spec => Contract!Spec`, with one lemma for each step and the step
of the contract it maps to; the invariant beside it says which pairs of `stage`
and `stmt` there are.  `ClientsComeBack` is `CallsEnd` from where a call has its
client, or is at the in-memory map: it ends.  It needs `SentInv`: who has a
client has sent its statement, and what is sent and not executed is with a
database that is up.

**FileToolsProofs**: `TypeCorrect`, `RangeIsReadHolds`, `TornByEditOnlyHolds`,
`AnswersAreTrueHolds`, `FindsWhatStaysHolds`, `KeepsContractHolds` and
`ShortCallsReturnHolds`.  Of writers that do not overlap
`Good` says: no two calls in flight write one file (`Alone`); a file and its
temporary sibling are two inodes of that path (`Owned`), and a call that has
opened nothing yet has made none (`Fresh`); a writer with a file open has the
inode it believes to have, empty or its own whole text, and an edit holds what
the file held (`Lone`); a file is torn, or lacks a line it was given, only
where an edit is to blame (`Safe`).  Ownership is what the argument needs most:
without it filling a temporary file could change a file already published.
`TornByEditOnly` and `AnswersAreTrue` follow.  `SearchInv` says beside it that a line that was in a
file when a search began, and is in a file the search has been to, is among
what it has found unless a limit was met; it is kept because, with no edit
about, the only line a step adds to a file is the acting call's own, which was
in no file before.  `RangeIsRead` rests on one fact of arithmetic: if the sum
wraps, it ends up below the start.  `KeepsContract` maps each step to the one of
`FilesContract` that does the same at once: the rename is the `Replace`, which
`renamed` remembers until the answer, and what a write does before it is not seen (`Hidden`: the inode it fills is not a
file's, by `Owned`); the command's own write is the `Add`, the load the `Read`.
`ShortCallsReturn` is `CallsReturn` of every call that is not a search: each is
at most five steps of its own from its end.

What stays with TLC: `CaughtUp`, `Converges`, `Serves`,
`CallsReturn` for searches and `CallsEnd` for calls that wait for a client.
Each of them counts something down (the events before the newest, the changes,
the attempts, the entries of a directory, the calls ahead), and the induction
theorems of the library take an operator as a parameter, which no installed
prover can instantiate.  That `WF` gives `GoesOn` stays with TLC too.

## 7. Disagreements between code and documents

| Run | What the code does | What is said of it |
|---|---|---|
| `denied_pairing` | a denied tool leaves a `tool_result` without its `tool_use` in the session (query:447) | query:456-458: the pairing is strictly required |
| `dropped_call` | a second tool call in one stream replaces the first, which has been announced to user and bus (query:364) | query:9-12: each tool call is invoked or denied and answered |
| `crash_prompt` | a turn is put into the store once, after its engine has returned (api:327), so a process that dies meanwhile leaves no trace of it | persistence.md:203-204: a turn that crashes mid-stream commits the user message |
| `two_writers` | two `file_write`s of a path use one temporary file, and one publishes what the other has just truncated (file_write:52) | file_write:25: "Atomic." |
| `pool_of_one` | a start keeps its first client while it asks the pool for a second (postgres:91, 117): with ASH_POSTGRES_POOL_SIZE=1 it hangs, and as it does not exit it is not restarted | M9_1_TASK_REPORT.md:72-73: the loop is bounded; persistence.md:28: the pool's size has no minimum |

More that the models show and no run is spent on:

- Of two turns of a session that overlap, the last writes its own copy over the
  other's (`Put`; api:329), where persistence.md:3-5 says that the full
  transcript is persisted: `AnsweredIsStored` is about clients that wait.
- The error path answers the client first and then removes the session's token,
  whoever's it is (`EngineErrs`, `FailedCleanup`; api:312): after it a
  CancelTurn may answer ok=false beside a running turn, which
  M9_2_TASK_REPORT.md:41 says means that there is none.
- A digit confirms the approval dialog even while feedback is typed
  (`DialogDigit`; event:215-238), where tui.md:119-120 says that Enter submits
  it.  `TypingNeverAllows` says that at least it cannot allow the command.
- An edit that meets a command a bash call, timed out or gone with its process,
  has left running loses that
  command's line or its own (`EditRead`, `ChildWrites`, `EditOpen`; bash:103,
  file_edit:69), which `AnswersAreTrue` names as its exception.
- A message with a NUL character is stored by the memory backend and refused by
  jsonb (`Refuse`; postgres:164): the host logs it and answers as if the turn
  were stored.
- A put replaces `created_at_ms` in memory and keeps it in the database
  (memory:32, postgres:170-177), where mod:116-117 says that the backends
  cannot drift; the models leave the times out.

- A tool that panics ends the host's task without taking its token out of the
  map (api:293; M9_2_TASK_REPORT.md:62-63 says every path does), which
  `NoStaleToken` names as its exception; in the TUI it leaves the screen
  locked.
- OnTurnEnd precedes the round's OnToolCall (query:428), where the diagram in
  query:6-16 has it after the tools.
- A CancelTurn that comes between the engine's return and the task's write
  lock (`EngineReturns`, `CancelTurn`) answers ok:true and changes nothing,
  where api_guide.md:206 says that the turn was cancelled.
- A turn in flight when its session is deleted writes the session back
  (`DeleteSession`, `Put`; api:329).
- A directory moved out of the tree gives no reload (watcher:49), where
  skills.md:118-120 says that changes are rescanned automatically.
- A token cancelled while a stream is being opened, a hook asked or a tool run is
  looked at only when that is answered (query:297, 319, 428, 462), and a cancel
  during OnTurnStart is followed by that round's request to the model; the
  comments at query:270 and 327 name the two places that look.  With a provider
  that never sends a first delta a cancelled call hangs, and with it the TUI.
- tui.md:191-193 says that there is no mid-turn cancellation and that Ctrl-C
  quits; Esc cancels a running turn (`EscCancels`; event:302-308).
- A put that fails may have reached the database and be executed after the next
  turn's, or after a delete: it then writes its stale copy over the record
  (`LatePut`; api:329, postgres:164), where persistence.md:3-5 says that the full
  transcript is persisted.
- A receiver of a closed channel is told `Closed` only when it has read what is
  left in the ring (`FindClosed`), where bus:74-75 says at its next `recv`.  No
  production code calls `close`.
- A search that meets its limit in the last entry of its walk is cut without the
  notice (grep:103-106; it comes with the next entry, grep:88-91), so a single
  file with more matches than the limit looks as if it had no more.

## 8. What is not modelled

- *Middleware chain.*  It is a loop over a list sorted once at the start and
  keeps no state between hooks.  `TurnLoop` lets each hook decide anything, late
  or never, and `HooksPaired` says which hooks a round gets; a middleware with
  state of its own is its author's.  The sample that counts tokens
  (`samples/middleware/token_budget_middleware.py:45`) checks at a turn's start
  and charges at its end, so turns that run at the same time all pass.
- *Provider registry and adapters.*  The registry's methods run without a
  suspension and each sets one choice.  The adapters translate the wire formats
  of external services; `TurnLoop` takes any stream.
- *HTTP gateway.*  It translates requests and streams and keeps nothing.
- *Terminal UI.*  Drawing (`ui.rs`), the chat log, scrolling, the palette's
  filter and selection.
- *IPC client, CLI, sidecar server.*  Beside connecting, starting and exiting,
  which `Boot` has, they pass requests on.  `ash doctor` probes once.
- *Storage.*  A record's times and the order of a listing; the host uses
  neither for a decision.
- *Tools.*  FIFOs and other special files, whose opening may wait for ever; what
  a pattern matches, how often `old` occurs in a text
  (`EditRefused` may happen to any edit), the wording of results.
- Formats, the generated protobuf code, argument parsing, logging, and the
  external services.

## 9. What could come next

1. `Conversation`: `QueryHost` with the transcripts of `TurnLoop` in place of
   turns, to state the pairing property across the turns of a session, after
   failed puts and deletes included.
2. `Middleware` with a stateful budget, and a provider switch between two
   rounds of a turn.
