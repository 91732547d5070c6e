----------------------------- MODULE QueryHost ------------------------------
(***************************************************************************)
(* QueryHostService (crates/api/src/lib.rs): the gRPC host that runs turns  *)
(* of many sessions at once.  A RunTurn handler loads its session from the  *)
(* store, registers a CancellationToken for the session and spawns a task   *)
(* that runs the engine, takes the token out, writes the whole session back *)
(* and sends the outcome.  CancelTurn, DeleteSession and other RunTurns     *)
(* interleave at every .await; the process may die at any time.             *)
(*                                                                         *)
(* A turn is one RunTurn request and stands for its token and for what it   *)
(* adds to the transcript (the prompt and all the engine appends to it): a  *)
(* transcript is the sequence of turns it holds.  The engine is used        *)
(* through its contract (TurnOutcomes), which TurnLoop is shown to keep;    *)
(* the store as SessionContract has it: a put that failed, or whose process *)
(* died, may still take effect.                                             *)
(* A request with no session id names a session nobody used (a fresh uuid). *)
(***************************************************************************)
EXTENDS Naturals, Sequences, FiniteSets, Functions, TurnOutcomes

CONSTANTS Turns,        \* RunTurn requests (each is made at most once)
          Sessions,     \* session ids
          NoTurn,       \* no token registered
          NoRecord,     \* the store has no row for the session
          MaxCrashes,   \* bound: deaths of the process
          MaxDeletes,   \* bound: DeleteSession requests
          Cases         \* the combinations of circumstances to look at

\* What may happen in a behaviour besides a turn's own course.
Circumstances == {
    "overlap",   \* a client starts a turn while one is in flight
    "engine",    \* run_turn returns Err
    "panic",     \* a tool panics and takes the task with it
    "store",     \* the database's calls fail
    "volatile",  \* the store is the in-memory one, not Postgres
    "crash",     \* the process dies
    "delete"}    \* a client deletes the session

ASSUME HostAssumption ==
    /\ NoTurn \notin Turns
    /\ MaxCrashes \in Nat
    /\ MaxDeletes \in Nat
    /\ Cases \subseteq SUBSET Circumstances
    /\ NoRecord \notin Seq(Turns)

VARIABLES pc,         \* where each turn's handler or task is
          session,    \* the session a turn runs on
          reset,      \* its reset_session flag
          log,        \* its own copy of the transcript
          cancelled,  \* its CancellationToken
          result,     \* what engine.run_turn returned to its task
          active,     \* active_tokens: session -> the turn whose token it holds
          store,      \* SessionStore: session -> transcript stored
          late,       \* turns whose put the database may still execute
          answered,   \* history: the Outcome delta each turn's client got
          dropped,    \* history: turns a reset, a delete, a lost store or a
                      \* stale copy took out of their session's record, or a
                      \* failed put did not let in
          stale,      \* history: turns in flight when a delete or a late put
                      \* changed the record they had loaded, and those whose
                      \* put was late
          crashes, deletes,
          given       \* the circumstances of this behaviour

task     == <<session, reset, log>>
history  == <<answered, dropped, stale>>
counters == <<crashes, deletes, given>>
vars     == <<pc, task, cancelled, result, active, store, late, history, counters>>

-----------------------------------------------------------------------------
Overlap     == "overlap" \in given
EngineFails == "engine" \in given
TaskPanics  == "panic" \in given
Durable     == "volatile" \notin given
StoreFails  == "store" \in given /\ Durable   \* the in-memory one cannot

\* The turns the session's record holds.
Stored(s) == IF store[s] = NoRecord THEN {} ELSE Range(store[s])

\* The turn's task has been spawned and still holds its session.
Alive == {"running", "returned", "failed", "cleaned", "stored"}

\* Its token is, or was, in the map and the task has not tidied up.
Registered == {"running", "returned", "failed"}

InFlight(s) == {t \in Turns : session[t] = s /\ pc[t] \in {"loaded"} \union Alive}

\* The client of the session has had its answer for every turn it started.
Quiet(s) == \A t \in InFlight(s) : answered[t] # Running

Init == /\ pc = [t \in Turns |-> "idle"]
        /\ session \in [Turns -> Sessions]
        /\ reset = [t \in Turns |-> FALSE]
        /\ log = [t \in Turns |-> <<>>]
        /\ cancelled = [t \in Turns |-> FALSE]
        /\ result = [t \in Turns |-> Running]
        /\ active = [s \in Sessions |-> NoTurn]
        /\ store = [s \in Sessions |-> NoRecord]
        /\ answered = [t \in Turns |-> Running]
        /\ late = {}
        /\ dropped = {}
        /\ stale = {}
        /\ crashes = 0
        /\ deletes = 0
        /\ given \in Cases

Move(t, from, to) == pc[t] = from /\ pc' = [pc EXCEPT ![t] = to]

-----------------------------------------------------------------------------
(* The RunTurn handler.                                                     *)

\* Mutant: every turn starts from an empty session.
AlwaysFresh(s, fresh) == <<>>

\* Mutant: reset_session is not looked at.
NeverFresh(s, fresh) == IF store[s] # NoRecord THEN store[s] ELSE <<>>

\* The stored transcript, unless there is none or the request resets it.
Earlier(s, fresh) ==
    IF store[s] # NoRecord /\ ~fresh THEN store[s] ELSE <<>>

\* store.get, then the session in memory: what there was, plus the prompt.
Load(t, fresh) ==
    LET s == session[t]
    IN  /\ Overlap \/ Quiet(s)
        /\ Move(t, "idle", "loaded")
        /\ reset' = [reset EXCEPT ![t] = fresh]
        /\ log' = [log EXCEPT ![t] = Append(Earlier(s, fresh), t)]
        /\ UNCHANGED <<session, cancelled, result, active, store, late, history, counters>>

\* store.get failed: the client gets a Status, nothing was registered.
LoadFails(t) ==
    /\ StoreFails
    /\ Overlap \/ Quiet(session[t])
    /\ Move(t, "idle", "rejected")
    /\ UNCHANGED <<task, cancelled, result, active, store, late, history, counters>>

\* Under the write lock: insert the token, cancel the one it displaces; then
\* the task is spawned.
Register(t) ==
    LET s == session[t]
        prev == active[s]
    IN  /\ Move(t, "loaded", "running")
        /\ active' = [active EXCEPT ![s] = t]
        /\ cancelled' = [u \in Turns |-> cancelled[u] \/ u = prev]
        /\ UNCHANGED <<task, result, store, late, history, counters>>

\* The client went away before the response: the handler is dropped at one of
\* its awaits, before it registered anything.
HandlerDropped(t) ==
    /\ Move(t, "loaded", "rejected")
    /\ UNCHANGED <<task, cancelled, result, active, store, late, history, counters>>

-----------------------------------------------------------------------------
(* The spawned task.                                                        *)

\* engine.run_turn returned Ok.
EngineReturns(t) ==
    /\ Move(t, "running", "returned")
    /\ \E o \in TurnOutcomes(cancelled[t]) \ {"error"} :
          result' = [result EXCEPT ![t] = o]
    /\ UNCHANGED <<task, cancelled, active, store, late, history, counters>>

\* It returned Err: the client is told at once, and sees its outcome before
\* the token is removed.
EngineErrs(t) ==
    /\ EngineFails
    /\ Move(t, "running", "failed")
    /\ result' = [result EXCEPT ![t] = "error"]
    /\ answered' = [answered EXCEPT ![t] = "error"]
    /\ UNCHANGED <<task, cancelled, active, store, late, dropped, stale, counters>>

\* A tool panicked (file_read does, on a limit near usize::MAX): the task is
\* gone, its stream ends without an Outcome and nobody removes its token.
Panics(t) ==
    /\ TaskPanics
    /\ Move(t, "running", "lost")
    /\ UNCHANGED <<task, cancelled, result, active, store, late, history, counters>>

\* Mutant: the error path forgets the map.
FailedKeepsToken(t) ==
    /\ Move(t, "failed", "done")
    /\ UNCHANGED <<task, cancelled, result, active, store, late, history, counters>>

\* The error path removes whatever token the session has, and writes nothing.
FailedCleanup(t) ==
    /\ Move(t, "failed", "done")
    /\ active' = [active EXCEPT ![session[t]] = NoTurn]
    /\ UNCHANGED <<task, cancelled, result, store, late, history, counters>>

\* Mutant: the token is removed without a look at whose it is.
RemovesAny(t) == active[session[t]] # NoTurn

\* "only if it's still ours": the test compares the two tokens' flags.
LooksOurs(t) ==
    LET existing == active[session[t]]
    IN  existing # NoTurn /\ cancelled[existing] = cancelled[t]

Cleanup(t) ==
    /\ Move(t, "returned", "cleaned")
    /\ active' = IF LooksOurs(t)
                 THEN [active EXCEPT ![session[t]] = NoTurn] ELSE active
    /\ UNCHANGED <<task, cancelled, result, store, late, history, counters>>

\* What a put of t's copy takes out of the record, by a reset or because the
\* copy is stale; one that is neither carries all of it along.
TakenOut(t) ==
    LET was == Stored(session[t])
    IN  IF reset[t] THEN was ELSE IF t \in stale THEN was \ Range(log[t]) ELSE {}

\* Mutant: a cancelled turn is not written back.
PutUnlessCancelled(t) ==
    LET s == session[t]
    IN  /\ Move(t, "cleaned", "stored")
        /\ store' = IF result[t] = "cancelled" THEN store
                    ELSE [store EXCEPT ![s] = log[t]]
        /\ dropped' = dropped \union TakenOut(t)
        /\ UNCHANGED <<task, cancelled, result, active, late, answered, stale, counters>>

\* store.put replaces the session's whole record by the task's copy.
Put(t) ==
    LET s == session[t]
    IN  /\ Move(t, "cleaned", "stored")
        /\ store' = [store EXCEPT ![s] = log[t]]
        /\ dropped' = dropped \union TakenOut(t)
        /\ UNCHANGED <<task, cancelled, result, active, late, answered, stale, counters>>

\* Mutant: a failed put ends the task.
PutFailureEndsTask(t) ==
    /\ StoreFails
    /\ Move(t, "cleaned", "done")
    /\ UNCHANGED <<task, cancelled, result, active, store, late, history, counters>>

\* A failed put is logged; the client is answered as if nothing happened.  The
\* database may have the statement, and execute it yet.
PutFails(t) ==
    /\ StoreFails
    /\ Move(t, "cleaned", "stored")
    /\ late' \in {late, late \union {t}}
    /\ dropped' = dropped \union {t}
    /\ UNCHANGED <<task, cancelled, result, active, store, answered, stale, counters>>

\* The database executes the put of a call that failed or died: it is out of
\* date, and what the turns in flight have loaded is too.
LatePut(t) ==
    LET s == session[t]
    IN  /\ t \in late
        /\ late' = late \ {t}
        /\ store' = [store EXCEPT ![s] = log[t]]
        /\ stale' = stale \union InFlight(s) \union {t}
        /\ dropped' = dropped \union (Stored(s) \ Range(log[t]))
        /\ UNCHANGED <<pc, task, cancelled, result, active, answered, counters>>

\* The Outcome delta, the stream's last; the task ends.
SendOutcome(t) ==
    /\ Move(t, "stored", "done")
    /\ answered' = [answered EXCEPT ![t] = result[t]]
    /\ UNCHANGED <<task, cancelled, result, active, store, late, dropped, stale, counters>>

-----------------------------------------------------------------------------
(* The other RPCs, and the end of the process.                              *)

\* CancelTurn answers ok:true if the session has a token.
CancelTurn(s) ==
    /\ active[s] # NoTurn
    /\ cancelled' = [cancelled EXCEPT ![active[s]] = TRUE]
    /\ UNCHANGED <<pc, task, result, active, store, late, history, counters>>

\* DeleteSession looks at the store only.  (One that fails and takes effect
\* later is this step, later.)
DeleteSession(s) ==
    /\ "delete" \in given
    /\ deletes < MaxDeletes
    /\ deletes' = deletes + 1
    /\ store' = [store EXCEPT ![s] = NoRecord]
    /\ dropped' = dropped \union Stored(s)
    /\ stale' = stale \union InFlight(s)
    /\ UNCHANGED <<pc, task, cancelled, result, active, late, answered, crashes, given>>

\* The process dies and is restarted: handlers, tasks, tokens and, with the
\* in-memory store, the records are gone.  The database may still execute the
\* puts it was sent.
Crash ==
    /\ "crash" \in given
    /\ crashes < MaxCrashes
    /\ crashes' = crashes + 1
    /\ pc' = [t \in Turns |-> IF pc[t] \in {"loaded"} \union Alive
                              THEN "lost" ELSE pc[t]]
    /\ active' = [s \in Sessions |-> NoTurn]
    /\ store' = IF Durable THEN store ELSE [s \in Sessions |-> NoRecord]
    /\ \E sent \in SUBSET {t \in Turns : pc[t] = "cleaned"} :
          late' = IF Durable THEN late \union sent ELSE late
    /\ dropped' = IF Durable THEN dropped
                  ELSE dropped \union UNION {Stored(s) : s \in Sessions}
    /\ UNCHANGED <<task, cancelled, result, answered, stale, deletes, given>>

Handler(t) == \/ \E fresh \in BOOLEAN : Load(t, fresh)
              \/ LoadFails(t) \/ HandlerDropped(t) \/ Register(t)

Task(t) == \/ EngineReturns(t) \/ EngineErrs(t) \/ Panics(t) \/ FailedCleanup(t)
           \/ Cleanup(t) \/ Put(t) \/ PutFails(t) \/ SendOutcome(t)

Next == \/ \E t \in Turns : Handler(t) \/ Task(t) \/ LatePut(t)
        \/ \E s \in Sessions : CancelTurn(s) \/ DeleteSession(s)
        \/ Crash

Spec == Init /\ [][Next]_vars

(***************************************************************************)
(* The handler and the task take their own steps, which wait for nothing    *)
(* but a lock that is held for a moment.  Nobody owes them an answer: a     *)
(* cancelled engine may be held by a request (TurnContract), and a put by a *)
(* database that neither executes it nor goes away, for it has no timeout.  *)
(***************************************************************************)
OwnStep(t) == FailedCleanup(t) \/ Cleanup(t) \/ SendOutcome(t)

FairSpec == Spec /\ \A t \in Turns : WF_vars(Register(t)) /\ WF_vars(OwnStep(t))

\* The turn's task waits for an answer of its engine or its store.
Waits(t) == pc[t] \in {"running", "cleaned"}

\* The fairness of one turn's task, as the proofs use it, with ENABLED spelled
\* out.
GoesOn(t) == []<>~(pc[t] \in {"failed", "returned", "stored"}) \/ []<><<OwnStep(t)>>_vars

-----------------------------------------------------------------------------
(* Properties.                                                              *)

States == {"idle", "loaded", "rejected", "lost", "done"} \union Alive

\* The values each piece of the host's state may take.
TypeOK ==
    /\ pc \in [Turns -> States]
    /\ session \in [Turns -> Sessions]
    /\ reset \in [Turns -> BOOLEAN]
    /\ log \in [Turns -> Seq(Turns)]
    /\ cancelled \in [Turns -> BOOLEAN]
    /\ result \in [Turns -> AllOutcomes \union {Running}]
    /\ active \in [Sessions -> Turns \union {NoTurn}]
    /\ store \in [Sessions -> Seq(Turns) \union {NoRecord}]
    /\ answered \in [Turns -> AllOutcomes \union {Running}]
    /\ late \in SUBSET Turns
    /\ dropped \in SUBSET Turns
    /\ stale \in SUBSET Turns
    /\ crashes \in 0 .. MaxCrashes
    /\ deletes \in 0 .. MaxDeletes
    /\ given \in Cases

\* active_tokens never names a turn that is over: every way out of a task
\* takes its own token out (api:312, 317-325), even though both tests there
\* look at something else than whose token it is, so a CancelTurn that
\* answers ok:true has found a turn of that session that is still running or
\* about to tidy up (docs/task/M9_2_TASK_REPORT.md:62).  A panic escapes it.
NoStaleToken == ~TaskPanics =>
    \A s \in Sessions : active[s] # NoTurn =>
        session[active[s]] = s /\ pc[active[s]] \in Registered

\* Unless an engine failed, a running turn nobody asked to stop can be asked
\* to: it is the one its session's token belongs to, so CancelTurn does not
\* miss it and the next RunTurn cancels it first (api:283).
UncancelledIsRegistered == ~EngineFails =>
    \A t \in Turns :
        pc[t] \in {"running", "returned"} /\ ~cancelled[t]
            => active[session[t]] = t

\* "If there is already an active turn for this session, cancel it first"
\* (api:283): unless an engine failed, a session has at most one running turn
\* that was not cancelled.
OneUncancelledTurn == ~EngineFails =>
    \A t, u \in Turns :
        /\ session[t] = session[u]
        /\ pc[t] = "running" /\ ~cancelled[t]
        /\ pc[u] = "running" /\ ~cancelled[u]
        => t = u

\* Sessions hold the "full transcript" (docs/persistence.md:3): what a client
\* that waits for its answers was told is done is in its session's record,
\* across restarts of the process, unless a reset, a delete or the end of an
\* in-memory store took it out, its own put failed, or a stale copy was written
\* over it: by a put that failed or died and took effect late, or by a turn
\* that one had overtaken.  A later turn of the session carries it along.
AnsweredIsStored == ~Overlap =>
    \A t \in Turns : answered[t] \notin {Running, "error"}
                        => t \in Stored(session[t]) \union dropped

\* The record is left alone, or a turn of the session is added at its end, or
\* a turn that resets the session is all there is, or it is a stale copy.
Grows(s) ==
    store[s] # NoRecord /\ store'[s] # NoRecord /\ store'[s] # store[s] =>
        \E t \in Turns :
            /\ session[t] = s
            /\ \/ store'[s] = IF reset[t] THEN <<t>> ELSE Append(store[s], t)
               \/ t \in stale' /\ store'[s] = log[t]

\* When clients wait for their answers a session's record only gains turns, at
\* its end, unless a request resets or deletes the session or the store loses
\* it; only a put that takes effect late, and a turn in flight when one does,
\* write a record that leaves others out (api:327-331).
RecordsGrow == [][~Overlap => \A s \in Sessions : Grows(s)]_vars

\* What was taken out of a record, by a delete, a reset or otherwise, does not
\* come back when clients wait for their answers, not even after a restart, but
\* with a turn whose copy is stale: it was in flight when its session was
\* deleted, or its put failed or died and takes effect late; it writes back what
\* it had loaded, itself last (api:329, 457).
DeletedStaysGone == ~Overlap =>
    \A s \in Sessions : Stored(s) \intersect dropped # {}
                            => Stored(s) \intersect stale # {}

\* docs/persistence.md:203 says of the store: "A turn that crashes mid-stream
\* commits the user message but not the partial assistant response".  A turn is
\* written back once, after the engine has returned (api:327), so its prompt goes
\* with the rest.
CrashKeepsPrompt == [][Durable => \A t \in Turns :
    pc[t] = "running" /\ pc'[t] = "lost" => t \in Stored(session[t])']_vars

\* A turn that was cancelled gets its Outcome, dies, or waits for ever.
Answered(t) == cancelled[t] ~> answered[t] # Running \/ pc[t] = "lost" \/ []Waits(t)

\* A turn that was cancelled, by a client or by the next turn of its session,
\* gets its Outcome, also when its engine or its put failed; only the death of
\* the process or of its task takes it away, and only an engine held by a
\* request nobody answers, or a put the database does not, keeps it for ever.
CancelledIsAnswered == \A t \in Turns : GoesOn(t) /\ Answered(t)

=============================================================================
