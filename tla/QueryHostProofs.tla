-------------------------- MODULE QueryHostProofs ---------------------------
(***************************************************************************)
(* Proofs about QueryHost, for any sets of turns and sessions and any       *)
(* bounds: the tokens in active_tokens, who can be cancelled, and what a    *)
(* session's record holds.                                                  *)
(***************************************************************************)
EXTENDS QueryHost, TLAPS

(***************************************************************************)
(* Type correctness.                                                        *)
(***************************************************************************)

\* Every piece of the host's state keeps its type.
THEOREM TypeCorrect == Spec => []TypeOK
<1>1. Init => TypeOK
  BY HostAssumption DEF Init, TypeOK, States, AllOutcomes, TurnOutcomes, Spontaneous
<1>2. TypeOK /\ [Next]_vars => TypeOK'
  <2> SUFFICES ASSUME TypeOK, [Next]_vars PROVE TypeOK'
    OBVIOUS
  <2> USE DEF TypeOK, States, Alive
  <2>1. ASSUME NEW t \in Turns, NEW fresh \in BOOLEAN, Load(t, fresh)
        PROVE  TypeOK'
    <3>1. Earlier(session[t], fresh) \in Seq(Turns)
      BY DEF Earlier
    <3>2. Append(Earlier(session[t], fresh), t) \in Seq(Turns)
      BY <3>1
    <3>3. log' \in [Turns -> Seq(Turns)]
      BY <2>1, <3>2 DEF Load
    <3> QED BY <2>1, <3>3 DEF history, Load, Move, counters
  <2>2. ASSUME NEW t \in Turns, LoadFails(t) PROVE TypeOK'
    BY <2>2 DEF LoadFails, Move, task, history, counters
  <2>3. ASSUME NEW t \in Turns, HandlerDropped(t) PROVE TypeOK'
    BY <2>3 DEF HandlerDropped, Move, task, history, counters
  <2>4. ASSUME NEW t \in Turns, Register(t) PROVE TypeOK'
    <3>1. cancelled' \in [Turns -> BOOLEAN]
      BY <2>4 DEF Register
    <3> QED BY <2>4, <3>1 DEF Register, Move, task, history, counters
  <2>5. ASSUME NEW t \in Turns, EngineReturns(t) PROVE TypeOK'
    <3>1. TurnOutcomes(cancelled[t]) \subseteq AllOutcomes
      BY DEF TurnOutcomes, AllOutcomes
    <3> QED BY <2>5, <3>1 DEF EngineReturns, Move, task, history, counters
  <2>6. ASSUME NEW t \in Turns, EngineErrs(t) PROVE TypeOK'
    <3>1. "error" \in AllOutcomes
      BY DEF TurnOutcomes, AllOutcomes, Spontaneous
    <3> QED BY <2>6, <3>1 DEF EngineErrs, Move, task, counters
  <2>7. ASSUME NEW t \in Turns, Panics(t) PROVE TypeOK'
    BY <2>7 DEF Panics, Move, task, history, counters
  <2>8. ASSUME NEW t \in Turns, FailedCleanup(t) PROVE TypeOK'
    BY <2>8 DEF FailedCleanup, Move, task, history, counters
  <2>9. ASSUME NEW t \in Turns, Cleanup(t) PROVE TypeOK'
    BY <2>9 DEF Cleanup, Move, task, history, counters
  <2>10. ASSUME NEW t \in Turns, Put(t) PROVE TypeOK'
    <3>1. dropped' \in SUBSET Turns
      BY <2>10 DEF Put, TakenOut, Stored, Range
    <3> QED BY <2>10, <3>1 DEF Put, Move, task, counters
  <2>11. ASSUME NEW t \in Turns, PutFails(t) PROVE TypeOK'
    <3>1. late' \in SUBSET Turns /\ dropped' \in SUBSET Turns
      BY <2>11 DEF PutFails
    <3> QED BY <2>11, <3>1 DEF PutFails, Move, task, counters
  <2>11a. ASSUME NEW t \in Turns, LatePut(t) PROVE TypeOK'
    <3>1. late' \in SUBSET Turns /\ dropped' \in SUBSET Turns
      BY <2>11a DEF LatePut, Stored, Range
    <3>2. stale' \in SUBSET Turns
      BY <2>11a DEF LatePut, InFlight
    <3> QED BY <2>11a, <3>1, <3>2 DEF LatePut, task, counters
  <2>12. ASSUME NEW t \in Turns, SendOutcome(t) PROVE TypeOK'
    BY <2>12 DEF SendOutcome, Move, task, counters
  <2>13. ASSUME NEW s \in Sessions, CancelTurn(s) PROVE TypeOK'
    BY <2>13 DEF history, CancelTurn, task, counters
  <2>14. ASSUME NEW s \in Sessions, DeleteSession(s) PROVE TypeOK'
    <3>1. dropped' \in SUBSET Turns
      BY <2>14 DEF DeleteSession, Stored, Range
    <3>2. deletes' \in 0 .. MaxDeletes
      BY <2>14, HostAssumption DEF DeleteSession
    <3>3. stale' \in SUBSET Turns
      BY <2>14 DEF DeleteSession, InFlight
    <3> QED BY <2>14, <3>1, <3>2, <3>3 DEF DeleteSession, task
  <2>15. ASSUME Crash PROVE TypeOK'
    <3>1. dropped' \in SUBSET Turns
      BY <2>15 DEF Crash, Stored, Range
    <3>2. crashes' \in 0 .. MaxCrashes
      BY <2>15, HostAssumption DEF Crash
    <3>3. pc' \in [Turns -> States]
      BY <2>15 DEF Crash
    <3>4. store' \in [Sessions -> Seq(Turns) \union {NoRecord}]
      BY <2>15 DEF Crash
    <3>5. late' \in SUBSET Turns
      BY <2>15 DEF Crash
    <3> QED BY <2>15, <3>1, <3>2, <3>3, <3>4, <3>5 DEF Crash, task
  <2>16. CASE UNCHANGED vars
    BY <2>16 DEF vars, task, history, counters
  <2> QED
    BY <2>1, <2>2, <2>3, <2>4, <2>5, <2>6, <2>7, <2>8, <2>9, <2>10, <2>11,
       <2>11a, <2>12, <2>13, <2>14, <2>15, <2>16 DEF Next, Handler, Task
<1> QED BY <1>1, <1>2, PTL DEF Spec

\* The circumstances of a behaviour do not change.
LEMMA GivenStays == [Next]_vars => given' = given
BY DEF Next, Handler, Task, Load, LoadFails, HandlerDropped, Register, EngineReturns,
       EngineErrs, Panics, FailedCleanup, Cleanup, Put, PutFails, SendOutcome,
       LatePut, CancelTurn, DeleteSession, Crash, counters, vars

(***************************************************************************)
(* The map of tokens.                                                       *)
(***************************************************************************)

\* Without panics, no token outlives its turn: CancelTurn's ok:true is about
\* a turn of that session whose task has not tidied up.
THEOREM NoStaleTokenHolds == Spec => []NoStaleToken
<1> USE DEF NoStaleToken
<1>1. Init => NoStaleToken
  BY DEF Init
<1>2. TypeOK /\ NoStaleToken /\ [Next]_vars => NoStaleToken'
  <2> SUFFICES ASSUME TypeOK, NoStaleToken, [Next]_vars, ~TaskPanics
               PROVE  NoStaleToken'
    BY GivenStays DEF TaskPanics
  <2>0. /\ NoTurn \notin Turns
        /\ session \in [Turns -> Sessions]
        /\ active \in [Sessions -> Turns \union {NoTurn}]
        /\ pc \in [Turns -> States]
    BY HostAssumption DEF TypeOK
  <2> USE <2>0 DEF Registered
  <2>1. ASSUME NEW t \in Turns,
               \/ \E fresh \in BOOLEAN : Load(t, fresh)
               \/ LoadFails(t) \/ HandlerDropped(t)
        PROVE  NoStaleToken'
    <3>1. /\ active' = active /\ session' = session
          /\ pc[t] \in {"idle", "loaded"}
          /\ \A u \in Turns : u # t => pc'[u] = pc[u]
      BY <2>1 DEF Load, LoadFails, HandlerDropped, Move, task, history, counters
    <3> QED BY <3>1
  <2>1a. ASSUME NEW t \in Turns, Register(t) PROVE NoStaleToken'
    BY <2>1a DEF Register, Move, task, history, counters
  <2>2. ASSUME NEW t \in Turns, EngineReturns(t) \/ EngineErrs(t)
        PROVE  NoStaleToken'
    <3>1. /\ active' = active /\ session' = session
          /\ pc'[t] \in Registered /\ pc[t] \in Registered
          /\ \A u \in Turns : u # t => pc'[u] = pc[u]
      BY <2>2 DEF EngineReturns, EngineErrs, Move, task, history, counters
    <3> QED BY <3>1
  <2>3. ASSUME NEW t \in Turns, FailedCleanup(t) PROVE NoStaleToken'
    BY <2>3 DEF FailedCleanup, Move, task, history, counters
  <2>4. ASSUME NEW t \in Turns, Cleanup(t) PROVE NoStaleToken'
    <3>1. active'[session[t]] # t
      \* A token compared with itself always passes the test.
      BY <2>4 DEF Cleanup, LooksOurs
    <3>2. \A s \in Sessions : active'[s] \in {active[s], NoTurn}
      BY <2>4 DEF Cleanup
    <3> QED BY <2>4, <3>1, <3>2 DEF Cleanup, Move, task, history, counters
  <2>5. ASSUME NEW t \in Turns, Put(t) \/ PutFails(t) \/ SendOutcome(t)
        PROVE  NoStaleToken'
    <3>1. /\ active' = active /\ session' = session
          /\ pc[t] \in {"cleaned", "stored"}
          /\ \A u \in Turns : u # t => pc'[u] = pc[u]
      BY <2>5 DEF Put, PutFails, SendOutcome, Move, task, history, counters
    <3> QED BY <3>1
  <2>6. ASSUME NEW s \in Sessions, CancelTurn(s) \/ DeleteSession(s)
        PROVE  NoStaleToken'
    BY <2>6 DEF CancelTurn, DeleteSession, task, history, counters
  <2>6a. ASSUME NEW t \in Turns, LatePut(t) PROVE NoStaleToken'
    BY <2>6a DEF LatePut, task
  <2>7. CASE Crash
    BY <2>7 DEF Crash
  <2>8. CASE UNCHANGED vars
    BY <2>8 DEF vars, task, history, counters
  <2> QED
    BY <2>1, <2>1a, <2>2, <2>3, <2>4, <2>5, <2>6, <2>6a, <2>7, <2>8
       DEF Next, Handler, Task, Panics
<1> QED BY <1>1, <1>2, TypeCorrect, PTL DEF Spec

\* When the engine does not fail, a turn nobody asked to stop holds the
\* session's token; the error path's unconditional remove is what breaks it.
THEOREM UncancelledIsRegisteredHolds == Spec => []UncancelledIsRegistered
<1> USE DEF UncancelledIsRegistered
<1> DEFINE NoneFailed == ~EngineFails => \A t \in Turns : pc[t] # "failed"
           IInv == NoneFailed /\ UncancelledIsRegistered
<1>1. Init => IInv
  BY DEF Init
<1>2. TypeOK /\ IInv /\ [Next]_vars => IInv'
  <2> SUFFICES ASSUME TypeOK, IInv, [Next]_vars, ~EngineFails PROVE IInv'
    BY GivenStays DEF EngineFails
  <2>0. NoTurn \notin Turns
    BY HostAssumption
  <2> USE <2>0 DEF TypeOK
  <2>1. ASSUME NEW t \in Turns,
               \/ \E fresh \in BOOLEAN : Load(t, fresh)
               \/ LoadFails(t) \/ HandlerDropped(t)
        PROVE  IInv'
    BY <2>1 DEF Load, LoadFails, HandlerDropped, Move, task, history, counters
  <2>2. ASSUME NEW t \in Turns, Register(t) PROVE IInv'
    <3>1. active[session[t]] # NoTurn => cancelled'[active[session[t]]]
      BY <2>2 DEF Register
    <3>2. \A u \in Turns : cancelled[u] => cancelled'[u]
      BY <2>2 DEF Register
    <3> QED BY <2>2, <3>1, <3>2 DEF Register, Move, task, history, counters
  <2>3. ASSUME NEW t \in Turns, EngineReturns(t) \/ Panics(t) PROVE IInv'
    BY <2>3 DEF EngineReturns, Panics, Move, task, history, counters
  <2>4. ASSUME NEW t \in Turns, Cleanup(t) PROVE IInv'
    <3>1. ASSUME NEW u \in Turns, pc'[u] \in {"running", "returned"},
                 ~cancelled'[u]
          PROVE  active'[session'[u]] = u
      <4>1. u # t /\ active[session[u]] = u /\ ~cancelled[u]
        BY <2>4, <3>1 DEF Cleanup, Move, task, history, counters
      <4>2. session[u] = session[t] => ~LooksOurs(t)
        \* t would be uncancelled too, and so the token would be t's.
        BY <2>4, <4>1 DEF Cleanup, LooksOurs, Move
      <4> QED BY <2>4, <4>1, <4>2 DEF Cleanup, task, history, counters
    <3> QED BY <2>4, <3>1 DEF Cleanup, Move
  <2>5. ASSUME NEW t \in Turns, Put(t) \/ PutFails(t) \/ SendOutcome(t)
        PROVE  IInv'
    BY <2>5 DEF Put, PutFails, SendOutcome, Move, task, history, counters
  <2>6. ASSUME NEW s \in Sessions, CancelTurn(s) \/ DeleteSession(s)
        PROVE  IInv'
    BY <2>6 DEF CancelTurn, DeleteSession, task, history, counters
  <2>6a. ASSUME NEW t \in Turns, LatePut(t) PROVE IInv'
    BY <2>6a DEF LatePut, task
  <2>7. CASE Crash
    BY <2>7 DEF Crash, Alive
  <2>8. CASE UNCHANGED vars
    BY <2>8 DEF vars, task, history, counters
  <2> QED
    BY <2>1, <2>2, <2>3, <2>4, <2>5, <2>6, <2>6a, <2>7, <2>8
       DEF Next, Handler, Task, EngineErrs, FailedCleanup, Move
<1> QED BY <1>1, <1>2, TypeCorrect, PTL DEF Spec

\* Under the same condition a session has one running turn at most that was
\* not cancelled: the turn it displaced was.
THEOREM OneUncancelledTurnHolds == Spec => []OneUncancelledTurn
<1>1. UncancelledIsRegistered => OneUncancelledTurn
  BY DEF UncancelledIsRegistered, OneUncancelledTurn
<1> QED BY <1>1, UncancelledIsRegisteredHolds, PTL

(***************************************************************************)
(* What the store holds, for clients that wait for their answers.           *)
(*                                                                         *)
(* AnsweredIsStored is not inductive: it needs that a session has one turn  *)
(* at work, that the copy this turn writes back carries all the record      *)
(* holds unless it is stale, and that what was written back stays until it  *)
(* is dropped.                                                              *)
(***************************************************************************)
AtWork == {"loaded", "running", "returned", "cleaned", "stored"}

NotYetAnswered == \A t \in Turns : pc[t] \in AtWork => answered[t] = Running

IdleUnanswered == \A t \in Turns : pc[t] = "idle" => answered[t] = Running

OneAtWork ==
    \A t, u \in Turns :
        session[t] = session[u] /\ pc[t] \in AtWork /\ pc[u] \in AtWork => t = u

CopyCarriesRecord ==
    \A t \in Turns : pc[t] \in AtWork \ {"stored"} =>
        /\ t \in Range(log[t])
        /\ ~reset[t] /\ t \notin stale => Stored(session[t]) \subseteq Range(log[t])

WrittenIsKept ==
    \A t \in Turns : pc[t] = "stored" => t \in Stored(session[t]) \union dropped

AnsweredKept ==
    \A t \in Turns : answered[t] \notin {Running, "error"}
                        => t \in Stored(session[t]) \union dropped

TranscriptInv == /\ NotYetAnswered /\ IdleUnanswered /\ OneAtWork
                 /\ CopyCarriesRecord /\ WrittenIsKept /\ AnsweredKept

\* Appending the prompt's turn to a transcript adds just that turn.
LEMMA RangeAppend ==
    ASSUME NEW l \in Seq(Turns), NEW t \in Turns
    PROVE  Range(Append(l, t)) = Range(l) \union {t}
<1>1. \A x : x \in Range(Append(l, t)) <=> x \in Range(l) \union {t}
  <2> TAKE x
  <2>1. /\ Len(l) \in Nat
        /\ DOMAIN l = 1 .. Len(l)
        /\ DOMAIN Append(l, t) = 1 .. Len(l) + 1
        /\ \A i \in 1 .. Len(l) : Append(l, t)[i] = l[i]
        /\ Append(l, t)[Len(l) + 1] = t
    OBVIOUS
  <2> QED BY <2>1 DEF Range
<1> QED BY <1>1

\* A record is what its turns are; no record, no turns.
LEMMA StoredIs ==
    ASSUME NEW s \in Sessions
    PROVE  /\ store[s] = NoRecord => Stored(s) = {}
           /\ store[s] # NoRecord => Stored(s) = Range(store[s])
BY DEF Stored, Range

\* A step that leaves the records alone and only moves one turn on, inside
\* AtWork or out of it unanswered, keeps the invariant.
LEMMA QuietStep ==
    ASSUME TypeOK, TranscriptInv, NEW t \in Turns,
           pc'[t] # "idle",
           pc' = [pc EXCEPT ![t] = pc'[t]],
           pc'[t] \in AtWork => /\ pc[t] \in AtWork \ {"stored"}
                                /\ pc'[t] \in AtWork \ {"stored"},
           \/ answered' = answered
           \/ answered' = [answered EXCEPT ![t] = "error"] /\ pc'[t] \notin AtWork,
           UNCHANGED <<task, store, dropped, stale>>
    PROVE  TranscriptInv'
<1> USE DEF TypeOK, TranscriptInv, AtWork
<1>1. \A s \in Sessions : Stored(s)' = Stored(s)
  BY DEF Stored
<1>2. /\ session' = session /\ reset' = reset /\ log' = log
      /\ dropped' = dropped /\ stale' = stale
  BY DEF task
<1>3. \A u \in Turns : session[u] \in Sessions
  OBVIOUS
<1>4. \A u \in Turns : u # t => pc'[u] = pc[u] /\ answered'[u] = answered[u]
  OBVIOUS
<1>5. NotYetAnswered' /\ IdleUnanswered'
  BY <1>4 DEF NotYetAnswered, IdleUnanswered
<1>6. OneAtWork'
  BY <1>2, <1>4 DEF OneAtWork
<1>7. CopyCarriesRecord'
  BY <1>1, <1>2, <1>3, <1>4 DEF CopyCarriesRecord
<1>8. WrittenIsKept'
  BY <1>1, <1>2, <1>3, <1>4 DEF WrittenIsKept
<1>9. AnsweredKept'
  BY <1>1, <1>2, <1>3, <1>4 DEF AnsweredKept
<1> QED BY <1>5, <1>6, <1>7, <1>8, <1>9

\* So does a step that takes turns out of records and writes down which.
LEMMA RecordsShrink ==
    ASSUME TypeOK, TranscriptInv, UNCHANGED <<pc, task, answered>>,
           \A r \in Sessions : /\ Stored(r)' \subseteq Stored(r)
                               /\ Stored(r) \subseteq Stored(r)' \union dropped',
           dropped \subseteq dropped', stale \subseteq stale'
    PROVE  TranscriptInv'
BY DEF TypeOK, TranscriptInv, NotYetAnswered, IdleUnanswered, OneAtWork,
       CopyCarriesRecord, WrittenIsKept, AnsweredKept, task

\* What clients that wait for their answers were told is done is in the record,
\* across restarts, cancels, engine errors and panics, until a reset, a delete
\* or a stale copy (or the end of an in-memory store) takes it out, or unless
\* its own put failed.
THEOREM AnsweredIsStoredHolds == Spec => []AnsweredIsStored
<1> DEFINE IInv == ~Overlap => TranscriptInv
<1>1. Init => IInv
  BY DEF Init, TranscriptInv, NotYetAnswered, IdleUnanswered, OneAtWork, CopyCarriesRecord,
         WrittenIsKept, AnsweredKept, AtWork
<1>2. TypeOK /\ IInv /\ [Next]_vars => IInv'
  <2> SUFFICES ASSUME TypeOK, TranscriptInv, [Next]_vars, ~Overlap
               PROVE  TranscriptInv'
    BY GivenStays DEF Overlap
  <2>1. ASSUME NEW t \in Turns, NEW fresh \in BOOLEAN, Load(t, fresh)
        PROVE  TranscriptInv'
    <3> DEFINE s == session[t]
    <3>1. \A u \in Turns : session[u] = s => pc[u] \notin AtWork
      BY <2>1 DEF Load, Quiet, InFlight, Alive, TranscriptInv, NotYetAnswered,
                  AtWork
    <3>2. s \in Sessions /\ Earlier(s, fresh) \in Seq(Turns)
      BY DEF TypeOK, Earlier
    <3>3. log'[t] = Append(Earlier(s, fresh), t)
      BY <2>1 DEF Load, TypeOK
    <3>4. t \in Range(log'[t]) /\ (~fresh => Stored(s) \subseteq Range(log'[t]))
      <4>1. Range(log'[t]) = Range(Earlier(s, fresh)) \union {t}
        BY <3>2, <3>3, RangeAppend
      <4>2. ~fresh => Stored(s) \subseteq Range(Earlier(s, fresh))
        BY <3>2, StoredIs DEF Earlier
      <4> HIDE DEF s
      <4> QED BY <4>1, <4>2
    <3>5. \A r \in Sessions : Stored(r)' = Stored(r)
      BY <2>1 DEF Load, Stored
    <3>6. /\ pc[t] = "idle" /\ pc'[t] = "loaded" /\ reset'[t] = fresh
          /\ \A u \in Turns : u # t => /\ pc'[u] = pc[u] /\ log'[u] = log[u]
                                       /\ reset'[u] = reset[u]
          /\ session' = session /\ answered' = answered /\ dropped' = dropped
          /\ stale' = stale
      BY <2>1 DEF history, Load, Move, TypeOK
    <3>7. \A u \in Turns : session[u] \in Sessions
      BY DEF TypeOK
    <3>8. answered[t] = Running
      BY <3>6 DEF TranscriptInv, IdleUnanswered
    <3>9. NotYetAnswered'
      BY <3>6, <3>8 DEF TranscriptInv, NotYetAnswered
    <3>10. OneAtWork'
      BY <3>1, <3>6 DEF TranscriptInv, OneAtWork
    <3>11. CopyCarriesRecord'
      BY <3>4, <3>5, <3>6, <3>7 DEF TranscriptInv, CopyCarriesRecord
    <3>12. WrittenIsKept' /\ AnsweredKept' /\ IdleUnanswered'
      BY <3>5, <3>6, <3>7
         DEF TranscriptInv, WrittenIsKept, AnsweredKept, IdleUnanswered
    <3> QED BY <3>9, <3>10, <3>11, <3>12 DEF TranscriptInv
  <2>2. ASSUME NEW t \in Turns,
               HandlerDropped(t) \/ Register(t) \/ EngineReturns(t)
                 \/ EngineErrs(t) \/ Panics(t) \/ FailedCleanup(t) \/ Cleanup(t)
                 \/ LoadFails(t)
        PROVE  TranscriptInv'
    <3>1. /\ pc[t] \in AtWork \union {"idle", "failed"} /\ pc[t] # "stored"
          /\ pc' = [pc EXCEPT ![t] = pc'[t]]
          /\ pc'[t] \in {"rejected", "running", "returned", "failed", "lost",
                         "done", "cleaned"}
      BY <2>2 DEF HandlerDropped, Register, EngineReturns, EngineErrs, Panics,
                  FailedCleanup, Cleanup, LoadFails, Move, TypeOK, AtWork
    <3>2. pc'[t] \in AtWork => pc[t] \in AtWork
      BY <2>2, <3>1 DEF HandlerDropped, Register, EngineReturns, EngineErrs,
                  Panics, FailedCleanup, Cleanup, LoadFails, Move, TypeOK, AtWork
    <3>3. \/ answered' = answered
          \/ /\ answered' = [answered EXCEPT ![t] = "error"]
             /\ pc'[t] \notin AtWork
      BY <2>2 DEF HandlerDropped, Register, EngineReturns, EngineErrs, Panics,
                  FailedCleanup, Cleanup, LoadFails, Move, TypeOK, AtWork, history
    <3>4. UNCHANGED <<task, store, dropped, stale>>
      BY <2>2 DEF HandlerDropped, Register, EngineReturns, EngineErrs, Panics,
                  FailedCleanup, Cleanup, LoadFails, task, history
    <3> QED BY <3>1, <3>2, <3>3, <3>4, QuietStep DEF AtWork
  <2>3. ASSUME NEW t \in Turns, Put(t) PROVE TranscriptInv'
    <3> DEFINE s == session[t]
    <3>1. /\ pc[t] = "cleaned" /\ pc'[t] = "stored" /\ store'[s] = log[t]
          /\ \A r \in Sessions : r # s => store'[r] = store[r]
          /\ \A u \in Turns : u # t => pc'[u] = pc[u]
          /\ session' = session /\ log' = log /\ reset' = reset
          /\ answered' = answered /\ stale' = stale
          /\ dropped' = dropped \union TakenOut(t)
      BY <2>3 DEF Put, Move, TypeOK, task
    <3>2. s \in Sessions /\ log[t] \in Seq(Turns)
          /\ \A u \in Turns : session[u] \in Sessions
      BY DEF TypeOK
    <3>3. Stored(s)' = Range(log[t])
      <4>1. log[t] # NoRecord
        BY <3>2, HostAssumption
      <4> QED BY <3>1, <4>1 DEF Stored, Range
    <3>4. \A r \in Sessions : r # s => Stored(r)' = Stored(r)
      BY <3>1 DEF Stored
    <3>5. t \in Stored(s)'
      BY <3>1, <3>3 DEF TranscriptInv, CopyCarriesRecord, AtWork
    <3>6. Stored(s) \subseteq Stored(s)' \union dropped'
      BY <3>1, <3>3 DEF TakenOut, TranscriptInv, CopyCarriesRecord, AtWork
    <3>7. dropped \subseteq dropped'
      BY <3>1
    <3>8. \A u \in Turns : session[u] = s /\ u # t => pc[u] \notin AtWork
      BY <3>1 DEF TranscriptInv, OneAtWork, AtWork
    <3>9. NotYetAnswered' /\ OneAtWork' /\ IdleUnanswered'
      BY <3>1 DEF TranscriptInv, NotYetAnswered, OneAtWork, IdleUnanswered,
                  AtWork
    <3>10. CopyCarriesRecord'
      BY <3>1, <3>2, <3>4, <3>8 DEF TranscriptInv, CopyCarriesRecord, AtWork
    <3>11. WrittenIsKept' /\ AnsweredKept'
      BY <3>1, <3>2, <3>4, <3>5, <3>6, <3>7
         DEF TranscriptInv, WrittenIsKept, AnsweredKept
    <3> QED BY <3>9, <3>10, <3>11 DEF TranscriptInv
  <2>3a. ASSUME NEW t \in Turns, PutFails(t) PROVE TranscriptInv'
    <3>1. /\ pc[t] = "cleaned" /\ pc'[t] = "stored"
          /\ \A u \in Turns : u # t => pc'[u] = pc[u]
          /\ session' = session /\ log' = log /\ reset' = reset
          /\ answered' = answered /\ stale' = stale
          /\ dropped' = dropped \union {t}
          /\ \A r \in Sessions : Stored(r)' = Stored(r)
      BY <2>3a DEF PutFails, Move, TypeOK, task, Stored
    <3>2. \A u \in Turns : session[u] \in Sessions
      BY DEF TypeOK
    <3>3. NotYetAnswered' /\ OneAtWork' /\ IdleUnanswered'
      BY <3>1 DEF TranscriptInv, NotYetAnswered, OneAtWork, IdleUnanswered, AtWork
    <3>4. CopyCarriesRecord'
      BY <3>1, <3>2 DEF TranscriptInv, CopyCarriesRecord, AtWork
    <3>5. WrittenIsKept' /\ AnsweredKept'
      BY <3>1, <3>2 DEF TranscriptInv, WrittenIsKept, AnsweredKept
    <3> QED BY <3>3, <3>4, <3>5 DEF TranscriptInv
  <2>3b. ASSUME NEW t \in Turns, LatePut(t) PROVE TranscriptInv'
    <3> DEFINE s == session[t]
    <3>1. /\ store'[s] = log[t]
          /\ \A r \in Sessions : r # s => store'[r] = store[r]
          /\ pc' = pc /\ session' = session /\ log' = log /\ reset' = reset
          /\ answered' = answered
          /\ stale' = stale \union InFlight(s) \union {t}
          /\ dropped' = dropped \union (Stored(s) \ Range(log[t]))
      BY <2>3b DEF LatePut, TypeOK, task
    <3>2. s \in Sessions /\ log[t] \in Seq(Turns)
          /\ \A u \in Turns : session[u] \in Sessions
      BY DEF TypeOK
    <3>3. Stored(s)' = Range(log[t])
      <4>1. log[t] # NoRecord
        BY <3>2, HostAssumption
      <4> QED BY <3>1, <4>1 DEF Stored, Range
    <3>4. \A r \in Sessions : r # s => Stored(r)' = Stored(r)
      BY <3>1 DEF Stored
    <3>5. NotYetAnswered' /\ OneAtWork' /\ IdleUnanswered'
      BY <3>1 DEF TranscriptInv, NotYetAnswered, OneAtWork, IdleUnanswered
    <3>6. CopyCarriesRecord'
      \* The copies of the session's turns in flight are stale now.
      <4>1. ASSUME NEW u \in Turns, pc[u] \in AtWork \ {"stored"}, u \notin stale'
            PROVE  session[u] # s /\ u \notin stale
        BY <3>1, <4>1 DEF InFlight, Alive, AtWork
      <4> QED BY <3>1, <3>2, <3>4, <4>1 DEF TranscriptInv, CopyCarriesRecord
    <3>7. WrittenIsKept' /\ AnsweredKept'
      BY <3>1, <3>2, <3>3, <3>4 DEF TranscriptInv, WrittenIsKept, AnsweredKept
    <3> QED BY <3>5, <3>6, <3>7 DEF TranscriptInv
  <2>4. ASSUME NEW t \in Turns, SendOutcome(t) PROVE TranscriptInv'
    <3>1. /\ pc[t] = "stored" /\ pc'[t] = "done"
          /\ \A u \in Turns : u # t => /\ pc'[u] = pc[u]
                                       /\ answered'[u] = answered[u]
          /\ session' = session /\ log' = log /\ reset' = reset
          /\ dropped' = dropped /\ stale' = stale
          /\ \A r \in Sessions : Stored(r)' = Stored(r)
      BY <2>4 DEF SendOutcome, Move, TypeOK, task, Stored
    <3>2. \A u \in Turns : session[u] \in Sessions
      BY DEF TypeOK
    <3> QED
      BY <3>1, <3>2
         DEF TranscriptInv, NotYetAnswered, OneAtWork, CopyCarriesRecord,
             WrittenIsKept, AnsweredKept, IdleUnanswered, AtWork
  <2>5. ASSUME NEW s \in Sessions, CancelTurn(s) \/ DeleteSession(s)
        PROVE  TranscriptInv'
    <3>1. /\ pc' = pc /\ session' = session /\ log' = log /\ reset' = reset
          /\ answered' = answered
      BY <2>5 DEF history, CancelTurn, DeleteSession, task
    <3>2. \A r \in Sessions : /\ Stored(r)' \subseteq Stored(r)
                              /\ Stored(r) \subseteq Stored(r)' \union dropped'
      <4>1. CASE CancelTurn(s)
        BY <4>1 DEF CancelTurn, Stored
      <4>2. CASE DeleteSession(s)
        <5>1. /\ dropped' = dropped \union Stored(s)
              /\ store' = [store EXCEPT ![s] = NoRecord]
          BY <4>2 DEF DeleteSession
        <5>2. Stored(s)' = {} /\ \A r \in Sessions \ {s} : Stored(r)' = Stored(r)
          BY <5>1 DEF Stored, TypeOK
        <5> QED BY <5>1, <5>2
      <4> QED BY <2>5, <4>1, <4>2
    <3>3. dropped \subseteq dropped' /\ stale \subseteq stale'
      BY <2>5 DEF history, CancelTurn, DeleteSession
    <3>4. UNCHANGED <<pc, task, answered>>
      BY <3>1 DEF task
    <3> QED BY <3>2, <3>3, <3>4, RecordsShrink
  <2>6. CASE Crash
    <3>1. /\ session' = session /\ log' = log /\ reset' = reset
          /\ answered' = answered
          /\ \A u \in Turns : /\ pc'[u] \notin AtWork
                              /\ pc'[u] = "idle" => pc[u] = "idle"
      BY <2>6 DEF Crash, task, Alive, AtWork
    <3>2. \A r \in Sessions : Stored(r) \subseteq Stored(r)' \union dropped'
      BY <2>6 DEF Crash, Stored
    <3>3. dropped \subseteq dropped'
      BY <2>6 DEF Crash
    <3> QED
      BY <3>1, <3>2, <3>3
         DEF TranscriptInv, NotYetAnswered, OneAtWork, CopyCarriesRecord,
             WrittenIsKept, AnsweredKept, IdleUnanswered, AtWork, TypeOK
  <2>7. CASE UNCHANGED vars
    BY <2>7, RecordsShrink DEF vars, task, history, Stored
  <2> QED
    BY <2>1, <2>2, <2>3, <2>3a, <2>3b, <2>4, <2>5, <2>6, <2>7 DEF Next, Handler, Task
<1>3. IInv => AnsweredIsStored
  BY DEF TranscriptInv, AnsweredKept, AnsweredIsStored
<1> QED BY <1>1, <1>2, <1>3, TypeCorrect, PTL DEF Spec

-----------------------------------------------------------------------------
(* RecordsGrow.                                                             *)

\* With clients that wait, the copy a turn works on is its session's record
\* and the turn itself, or just the turn if it resets the session, unless a
\* late put came in between.
CopyExtends ==
    \A t \in Turns : pc[t] \in AtWork \ {"stored"} =>
        IF reset[t] THEN log[t] = <<t>>
        ELSE store[session[t]] # NoRecord /\ t \notin stale
                => log[t] = Append(store[session[t]], t)

GrowInv == /\ NotYetAnswered /\ IdleUnanswered /\ OneAtWork /\ CopyExtends

\* A step that moves one turn on, inside AtWork or out of it, and changes no
\* copy and no record.
LEMMA MoveKeepsCopies ==
    ASSUME TypeOK, GrowInv, NEW t \in Turns,
           pc' = [pc EXCEPT ![t] = pc'[t]],
           pc[t] \in {"idle", "failed"} => pc'[t] \notin AtWork,
           pc'[t] # "idle",
           pc'[t] \in AtWork \ {"stored"} => pc[t] \in AtWork \ {"stored"},
           pc'[t] = "stored" => pc[t] \in AtWork,
           \/ answered' = answered
           \/ /\ answered' = [answered EXCEPT ![t] = answered'[t]]
              /\ pc'[t] \notin AtWork,
           UNCHANGED <<task, store, stale>>
    PROVE  GrowInv'
<1>1. /\ session' = session /\ reset' = reset /\ log' = log
      /\ store' = store /\ stale' = stale
  BY DEF task
<1>2. \A u \in Turns : u # t => pc'[u] = pc[u] /\ answered'[u] = answered[u]
  BY DEF TypeOK
<1>3. pc'[t] \in AtWork => pc[t] \in AtWork
  BY DEF AtWork
<1>4. NotYetAnswered' /\ IdleUnanswered'
  BY <1>2, <1>3 DEF GrowInv, NotYetAnswered, IdleUnanswered
<1>5. OneAtWork'
  BY <1>1, <1>2, <1>3 DEF GrowInv, OneAtWork
<1>6. CopyExtends'
  BY <1>1, <1>2 DEF GrowInv, CopyExtends
<1> QED BY <1>4, <1>5, <1>6 DEF GrowInv

\* Clients that wait for their answers, whatever fails or dies: a record that
\* changes gains one turn at its end, is started again by a reset, or is
\* replaced by the copy of a put that was late or that one had overtaken.
THEOREM RecordsGrowHolds == Spec => RecordsGrow
<1> DEFINE IInv == ~Overlap => GrowInv
<1>1. Init => IInv
  BY DEF Init, GrowInv, NotYetAnswered, IdleUnanswered, OneAtWork, CopyExtends, AtWork
<1>2. TypeOK /\ IInv /\ [Next]_vars => IInv'
  <2> SUFFICES ASSUME TypeOK, GrowInv, [Next]_vars, ~Overlap PROVE GrowInv'
    BY GivenStays DEF Overlap
  <2>1. ASSUME NEW t \in Turns, NEW fresh \in BOOLEAN, Load(t, fresh) PROVE GrowInv'
    <3> DEFINE s == session[t]
    <3>1. \A u \in Turns : session[u] = s => pc[u] \notin AtWork
      BY <2>1 DEF Load, Quiet, InFlight, Alive, GrowInv, NotYetAnswered, AtWork
    <3>2. s \in Sessions /\ (store[s] # NoRecord => store[s] \in Seq(Turns))
      BY DEF TypeOK
    <3>3. log'[t] = Append(Earlier(s, fresh), t)
      BY <2>1 DEF Load, TypeOK
    <3>4. /\ fresh => log'[t] = <<t>>
          /\ ~fresh /\ store[s] # NoRecord => log'[t] = Append(store[s], t)
      <4>1. Append(<<>>, t) = <<t>>
        OBVIOUS
      <4>2. fresh => Earlier(s, fresh) = <<>>
        BY DEF Earlier
      <4>3. ~fresh /\ store[s] # NoRecord => Earlier(s, fresh) = store[s]
        BY DEF Earlier
      <4> HIDE DEF s
      <4> QED BY <3>3, <4>1, <4>2, <4>3
    <3>5. /\ pc[t] = "idle" /\ pc'[t] = "loaded" /\ reset'[t] = fresh
          /\ \A u \in Turns : u # t => /\ pc'[u] = pc[u] /\ log'[u] = log[u]
                                       /\ reset'[u] = reset[u]
          /\ session' = session /\ answered' = answered /\ store' = store
          /\ stale' = stale
      BY <2>1 DEF history, Load, Move, TypeOK
    <3>6. NotYetAnswered' /\ IdleUnanswered'
      BY <3>5 DEF GrowInv, NotYetAnswered, IdleUnanswered
    <3>7. OneAtWork'
      BY <3>1, <3>5 DEF GrowInv, OneAtWork
    <3>8. CopyExtends'
      BY <3>4, <3>5 DEF GrowInv, CopyExtends
    <3> QED BY <3>6, <3>7, <3>8 DEF GrowInv
  <2>2. ASSUME NEW t \in Turns,
               HandlerDropped(t) \/ Register(t) \/ EngineReturns(t)
                 \/ EngineErrs(t) \/ Panics(t) \/ FailedCleanup(t) \/ Cleanup(t)
                 \/ LoadFails(t) \/ PutFails(t) \/ SendOutcome(t)
        PROVE  GrowInv'
    <3>1. /\ pc' = [pc EXCEPT ![t] = pc'[t]]
          /\ pc[t] \in {"idle", "failed"} => pc'[t] \notin AtWork
          /\ pc'[t] # "idle"
          /\ pc'[t] \in AtWork \ {"stored"} => pc[t] \in AtWork \ {"stored"}
          /\ pc'[t] = "stored" => pc[t] \in AtWork
      BY <2>2 DEF HandlerDropped, Register, EngineReturns, EngineErrs, Panics,
                  FailedCleanup, Cleanup, LoadFails, PutFails, SendOutcome, Move,
                  TypeOK, AtWork
    <3>2. \/ answered' = answered
          \/ /\ answered' = [answered EXCEPT ![t] = answered'[t]]
             /\ pc'[t] \notin AtWork
      BY <2>2 DEF HandlerDropped, Register, EngineReturns, EngineErrs, Panics,
                  FailedCleanup, Cleanup, LoadFails, PutFails, SendOutcome, Move,
                  TypeOK, AtWork, history
    <3>3. UNCHANGED <<task, store, stale>>
      BY <2>2 DEF HandlerDropped, Register, EngineReturns, EngineErrs, Panics,
                  FailedCleanup, Cleanup, LoadFails, PutFails, SendOutcome, task,
                  history
    <3> QED BY <3>1, <3>2, <3>3, MoveKeepsCopies
  <2>3. ASSUME NEW t \in Turns, Put(t) PROVE GrowInv'
    <3> DEFINE s == session[t]
    <3>1. /\ pc[t] = "cleaned" /\ pc'[t] = "stored"
          /\ \A r \in Sessions : r # s => store'[r] = store[r]
          /\ \A u \in Turns : u # t => pc'[u] = pc[u]
          /\ session' = session /\ log' = log /\ reset' = reset
          /\ answered' = answered /\ stale' = stale
      BY <2>3 DEF Put, Move, TypeOK, task
    <3>2. \A u \in Turns : session[u] = s /\ u # t => pc[u] \notin AtWork
      BY <3>1 DEF GrowInv, OneAtWork, AtWork
    <3>3. NotYetAnswered' /\ IdleUnanswered' /\ OneAtWork'
      BY <3>1 DEF GrowInv, NotYetAnswered, IdleUnanswered, OneAtWork, AtWork
    <3>4. CopyExtends'
      BY <3>1, <3>2 DEF GrowInv, CopyExtends, AtWork, TypeOK
    <3> QED BY <3>3, <3>4 DEF GrowInv
  <2>3a. ASSUME NEW t \in Turns, LatePut(t) PROVE GrowInv'
    <3> DEFINE s == session[t]
    <3>1. /\ pc' = pc /\ session' = session /\ log' = log /\ reset' = reset
          /\ answered' = answered
          /\ \A r \in Sessions : r # s => store'[r] = store[r]
          /\ stale' = stale \union InFlight(s) \union {t}
      BY <2>3a DEF LatePut, TypeOK, task
    <3>2. \A u \in Turns : session[u] \in Sessions
      BY DEF TypeOK
    <3>3. NotYetAnswered' /\ IdleUnanswered' /\ OneAtWork'
      BY <3>1 DEF GrowInv, NotYetAnswered, IdleUnanswered, OneAtWork
    <3>4. CopyExtends'
      <4>1. ASSUME NEW u \in Turns, pc[u] \in AtWork \ {"stored"}, u \notin stale'
            PROVE  session[u] # s /\ u \notin stale
        BY <3>1, <4>1 DEF InFlight, Alive, AtWork
      <4> QED BY <3>1, <3>2, <4>1 DEF GrowInv, CopyExtends
    <3> QED BY <3>3, <3>4 DEF GrowInv
  <2>4. ASSUME NEW s \in Sessions, CancelTurn(s) \/ DeleteSession(s) PROVE GrowInv'
    <3>1. /\ pc' = pc /\ session' = session /\ reset' = reset /\ log' = log
          /\ answered' = answered
      BY <2>4 DEF history, CancelTurn, DeleteSession, task
    <3>2. /\ \A r \in Sessions : store'[r] = NoRecord \/ store'[r] = store[r]
          /\ stale \subseteq stale'
      BY <2>4 DEF CancelTurn, DeleteSession, TypeOK, history
    <3>3. NotYetAnswered' /\ IdleUnanswered' /\ OneAtWork'
      BY <3>1 DEF GrowInv, NotYetAnswered, IdleUnanswered, OneAtWork
    <3>4. CopyExtends'
      BY <3>1, <3>2 DEF GrowInv, CopyExtends, TypeOK
    <3> QED BY <3>3, <3>4 DEF GrowInv
  <2>5. CASE Crash
    <3>1. /\ answered' = answered
          /\ \A u \in Turns : /\ pc'[u] \notin AtWork
                              /\ pc'[u] = "idle" => pc[u] = "idle"
      BY <2>5 DEF Crash, Alive, AtWork
    <3> QED BY <3>1 DEF GrowInv, NotYetAnswered, IdleUnanswered, OneAtWork,
                        CopyExtends
  <2>6. CASE UNCHANGED vars
    BY <2>6 DEF vars, task, history, GrowInv, NotYetAnswered, IdleUnanswered,
                OneAtWork, CopyExtends
  <2> QED BY <2>1, <2>2, <2>3, <2>3a, <2>4, <2>5, <2>6 DEF Next, Handler, Task
<1>3. TypeOK /\ IInv /\ [Next]_vars
        => [~Overlap => \A s \in Sessions : Grows(s)]_vars
  <2> SUFFICES ASSUME TypeOK, IInv, [Next]_vars, NEW s \in Sessions, ~Overlap,
                      store[s] # NoRecord, store'[s] # NoRecord,
                      store'[s] # store[s]
               PROVE  \E t \in Turns :
                         /\ session[t] = s
                         /\ \/ store'[s] = IF reset[t] THEN <<t>>
                                            ELSE Append(store[s], t)
                            \/ t \in stale' /\ store'[s] = log[t]
    BY DEF Grows
  <2>1. PICK t \in Turns : Put(t) \/ LatePut(t)
    BY DEF Next, Handler, Task, Load, LoadFails, HandlerDropped, Register, EngineReturns,
           EngineErrs, Panics, FailedCleanup, Cleanup, PutFails, SendOutcome,
           CancelTurn, DeleteSession, Crash, vars, TypeOK
  <2>2. session[t] = s /\ store'[s] = log[t]
    BY <2>1 DEF Put, LatePut, TypeOK
  <2>3. CASE Put(t)
    <3>1. pc[t] = "cleaned" /\ stale' = stale
      BY <2>3 DEF Put, Move
    <3>2. CopyExtends
      BY DEF GrowInv
    <3> QED BY <2>2, <3>1, <3>2 DEF CopyExtends, AtWork
  <2>4. CASE LatePut(t)
    <3>1. t \in stale'
      BY <2>4 DEF LatePut
    <3> QED BY <2>2, <3>1
  <2> QED BY <2>1, <2>3, <2>4
<1> QED BY <1>1, <1>2, <1>3, TypeCorrect, PTL DEF Spec, RecordsGrow

-----------------------------------------------------------------------------
(* CancelledIsAnswered.                                                     *)
(*                                                                         *)
(* A cancelled turn is a turn whose task was spawned, since only spawned    *)
(* turns get into active_tokens; from there its task has one way to go:     *)
(* running, returned, cleaned, stored, answered.  Two legs of it wait for   *)
(* somebody else, the engine and the store.                                 *)

Spawned == Alive \union {"done", "lost"}

\* Tokens, and the flags that were set through them, are of spawned turns;
\* a task that is past its engine has something to answer with, one that is
\* not has nothing yet.
AnswerInv ==
    /\ \A s \in Sessions : active[s] # NoTurn => pc[active[s]] \in Spawned
    /\ \A t \in Turns : cancelled[t] => pc[t] \in Spawned
    /\ \A t \in Turns : pc[t] \in {"failed", "done"} => answered[t] # Running
    /\ \A t \in Turns : pc[t] \in {"returned", "cleaned", "stored"} => result[t] # Running
    /\ \A t \in Turns : pc[t] \in {"idle", "loaded", "running"} => result[t] = Running

\* Tokens and cancelled flags are of spawned turns, in every state.
LEMMA AnswerInvHolds == Spec => []AnswerInv
<1> USE DEF AnswerInv, Spawned, Alive
<1>1. Init => AnswerInv
  BY DEF Init
<1>2. TypeOK /\ AnswerInv /\ [Next]_vars => AnswerInv'
  <2> SUFFICES ASSUME TypeOK, AnswerInv, [Next]_vars PROVE AnswerInv'
    OBVIOUS
  <2> USE DEF TypeOK
  <2>0. Running \notin AllOutcomes /\ NoTurn \notin Turns
    BY HostAssumption DEF Running, AllOutcomes, TurnOutcomes, Spontaneous
  <2>1. ASSUME NEW t \in Turns, NEW fresh \in BOOLEAN, Load(t, fresh)
        PROVE  AnswerInv'
    BY <2>1 DEF Load, Move, history
  <2>2. ASSUME NEW t \in Turns, LoadFails(t) \/ HandlerDropped(t) PROVE AnswerInv'
    <3>1. /\ pc[t] \notin Spawned /\ pc'[t] = "rejected"
          /\ \A u \in Turns : u # t => pc'[u] = pc[u]
          /\ active' = active /\ cancelled' = cancelled
          /\ answered' = answered /\ result' = result
      BY <2>2 DEF LoadFails, HandlerDropped, Move, history
    <3> QED BY <3>1
  <2>3. ASSUME NEW t \in Turns, Register(t) PROVE AnswerInv'
    <3>1. \A s \in Sessions : active'[s] # NoTurn => pc'[active'[s]] \in Spawned
      BY <2>3 DEF Register, Move
    <3>2. \A u \in Turns : cancelled'[u] => pc'[u] \in Spawned
      BY <2>0, <2>3 DEF Register, Move
    <3>3. /\ pc[t] = "loaded" /\ pc'[t] = "running" /\ answered' = answered /\ result' = result
          /\ \A u \in Turns : u # t => pc'[u] = pc[u]
      BY <2>3 DEF Register, Move, history
    <3> QED BY <3>1, <3>2, <3>3
  <2>4. ASSUME NEW t \in Turns, EngineReturns(t) PROVE AnswerInv'
    <3>1. result'[t] # Running
      BY <2>0, <2>4 DEF EngineReturns, TurnOutcomes, AllOutcomes
    <3>2. /\ pc[t] = "running" /\ pc'[t] = "returned"
          /\ \A u \in Turns : u # t => pc'[u] = pc[u] /\ result'[u] = result[u]
          /\ active' = active /\ cancelled' = cancelled /\ answered' = answered
      BY <2>4 DEF EngineReturns, Move, history
    <3> QED BY <3>1, <3>2
  <2>5. ASSUME NEW t \in Turns, EngineErrs(t) PROVE AnswerInv'
    <3>1. answered'[t] # Running
      BY <2>0, <2>5 DEF EngineErrs, Running
    <3>2. /\ pc[t] = "running" /\ pc'[t] = "failed"
          /\ \A u \in Turns : u # t => /\ pc'[u] = pc[u] /\ result'[u] = result[u]
                                       /\ answered'[u] = answered[u]
          /\ active' = active /\ cancelled' = cancelled
      BY <2>5 DEF EngineErrs, Move
    <3> QED BY <3>1, <3>2
  <2>6. ASSUME NEW t \in Turns, Panics(t) PROVE AnswerInv'
    BY <2>6 DEF Panics, Move, history
  <2>7. ASSUME NEW t \in Turns, FailedCleanup(t) \/ Cleanup(t) PROVE AnswerInv'
    <3>1. \A s \in Sessions : active'[s] \in {active[s], NoTurn}
      BY <2>7 DEF FailedCleanup, Cleanup
    <3>2. /\ \/ pc[t] = "failed" /\ pc'[t] = "done"
             \/ pc[t] = "returned" /\ pc'[t] = "cleaned"
          /\ \A u \in Turns : u # t => pc'[u] = pc[u]
          /\ cancelled' = cancelled /\ answered' = answered /\ result' = result
      BY <2>7 DEF FailedCleanup, Cleanup, Move, history
    <3>3. \A u \in Turns : pc[u] \in Spawned => pc'[u] \in Spawned
      BY <3>2
    <3>4. \A s \in Sessions : active'[s] # NoTurn => pc'[active'[s]] \in Spawned
      BY <3>1, <3>3
    <3>5. \A u \in Turns : cancelled'[u] => pc'[u] \in Spawned
      BY <3>2, <3>3
    <3> HIDE DEF Spawned
    <3> QED BY <3>2, <3>4, <3>5
  <2>8. ASSUME NEW t \in Turns, Put(t) \/ PutFails(t) PROVE AnswerInv'
    <3>1. /\ pc[t] = "cleaned" /\ pc'[t] = "stored"
          /\ \A u \in Turns : u # t => pc'[u] = pc[u]
          /\ active' = active /\ cancelled' = cancelled
          /\ answered' = answered /\ result' = result
      BY <2>8 DEF Put, PutFails, Move, history
    <3> QED BY <3>1
  <2>9. ASSUME NEW t \in Turns, SendOutcome(t) PROVE AnswerInv'
    <3>1. /\ pc[t] = "stored" /\ pc'[t] = "done" /\ answered'[t] # Running
          /\ \A u \in Turns : u # t => pc'[u] = pc[u] /\ answered'[u] = answered[u]
          /\ active' = active /\ cancelled' = cancelled /\ result' = result
      BY <2>9 DEF SendOutcome, Move
    <3> QED BY <3>1
  <2>10. ASSUME NEW s \in Sessions, CancelTurn(s) PROVE AnswerInv'
    BY <2>10 DEF CancelTurn, history
  <2>11. ASSUME NEW s \in Sessions, DeleteSession(s) PROVE AnswerInv'
    BY <2>11 DEF DeleteSession
  <2>11a. ASSUME NEW t \in Turns, LatePut(t) PROVE AnswerInv'
    BY <2>11a DEF LatePut
  <2>12. CASE Crash
    BY <2>12 DEF Crash
  <2>13. CASE UNCHANGED vars
    BY <2>13 DEF vars, history
  <2> QED
    BY <2>1, <2>2, <2>3, <2>4, <2>5, <2>6, <2>7, <2>8, <2>9, <2>10, <2>11, <2>11a,
       <2>12, <2>13 DEF Next, Handler, Task
<1> QED BY <1>1, <1>2, TypeCorrect, PTL DEF Spec

Told(t)      == cancelled[t]
Stopping(t)  == cancelled[t] /\ pc[t] = "running"
At(t, stage) == pc[t] = stage /\ result[t] # Running
Settled(t)   == answered[t] # Running \/ pc[t] = "lost"

\* No step takes a turn back on that way, and its own steps take it on.
LEMMA WayOfATurn ==
    ASSUME TypeOK, AnswerInv, NEW t \in Turns
    PROVE  /\ Stopping(t) /\ [Next]_vars =>
                Stopping(t)' \/ At(t, "returned")' \/ Settled(t)'
           /\ At(t, "returned") /\ [Next]_vars =>
                At(t, "returned")' \/ At(t, "cleaned")' \/ Settled(t)'
           /\ At(t, "returned") /\ <<OwnStep(t)>>_vars => At(t, "cleaned")'
           /\ At(t, "cleaned") /\ [Next]_vars =>
                At(t, "cleaned")' \/ At(t, "stored")' \/ Settled(t)'
           /\ At(t, "stored") /\ [Next]_vars => At(t, "stored")' \/ Settled(t)'
           /\ At(t, "stored") /\ <<OwnStep(t)>>_vars => Settled(t)'
<1> USE DEF TypeOK, Stopping, At, Settled
<1>0. /\ Running \notin AllOutcomes /\ "error" # Running
      /\ \A b \in BOOLEAN : TurnOutcomes(b) \subseteq AllOutcomes
  BY DEF Running, AllOutcomes, TurnOutcomes, Spontaneous
<1>1. ASSUME EngineReturns(t) \/ EngineErrs(t) \/ Panics(t)
      PROVE  /\ pc[t] = "running"
             /\ At(t, "returned")' \/ Settled(t)'
  BY <1>0, <1>1 DEF EngineReturns, EngineErrs, Panics, Move
<1>2. ASSUME OwnStep(t) \/ Put(t) \/ PutFails(t)
      PROVE  /\ At(t, "returned") => At(t, "cleaned")'
             /\ At(t, "cleaned") => At(t, "stored")'
             /\ At(t, "stored") => Settled(t)'
             /\ pc[t] # "running"
  BY <1>2 DEF OwnStep, FailedCleanup, Cleanup, Put, PutFails, SendOutcome, Move
<1>3. ASSUME [Next]_vars, pc[t] \notin {"idle", "loaded"},
             ~(EngineReturns(t) \/ EngineErrs(t) \/ Panics(t)),
             ~(OwnStep(t) \/ Put(t) \/ PutFails(t))
      PROVE  /\ pc'[t] = pc[t] \/ pc'[t] = "lost"
             /\ result'[t] = result[t]
             /\ cancelled[t] => cancelled'[t]
  <2>1. ASSUME NEW u \in Turns, u # t, Handler(u) \/ Task(u)
        PROVE  /\ pc'[t] = pc[t] /\ result'[t] = result[t]
               /\ cancelled[t] => cancelled'[t]
    BY <2>1 DEF Handler, Task, Load, LoadFails, HandlerDropped, Register, EngineReturns,
                EngineErrs, Panics, FailedCleanup, Cleanup, Put, PutFails, SendOutcome,
                Move, history
  <2>2. ~Handler(t) /\ ~Task(t)
    BY <1>3 DEF Handler, Task, Load, LoadFails, HandlerDropped, Register, Move, OwnStep
  <2>3. ASSUME NEW s \in Sessions, CancelTurn(s) \/ DeleteSession(s)
        PROVE  /\ pc'[t] = pc[t] /\ result'[t] = result[t]
               /\ cancelled[t] => cancelled'[t]
    BY <2>3 DEF CancelTurn, DeleteSession
  <2>3a. ASSUME NEW u \in Turns, LatePut(u)
         PROVE  pc' = pc /\ result' = result /\ cancelled' = cancelled
    BY <2>3a DEF LatePut
  <2>4. CASE Crash
    BY <2>4 DEF Crash
  <2>5. CASE UNCHANGED vars
    BY <2>5 DEF vars
  <2> QED BY <1>3, <2>1, <2>2, <2>3, <2>3a, <2>4, <2>5 DEF Next
<1> QED BY <1>1, <1>2, <1>3

\* A turn told to stop gets its Outcome, however the turns of its session and
\* its clients interleave, unless the process or its task dies or the turn waits
\* for ever, for an engine held by a request or for its put: for any number of
\* turns and sessions, and with nothing assumed of engine and store.
THEOREM CancelledIsAnsweredHolds ==
    Spec /\ (\A t \in Turns : GoesOn(t)) => CancelledIsAnswered
<1> SUFFICES ASSUME NEW t \in Turns
             PROVE  Spec /\ GoesOn(t) => Answered(t)
  BY DEF CancelledIsAnswered
<1>1. TypeOK /\ AnswerInv /\ Told(t) =>
          Stopping(t) \/ At(t, "returned") \/ At(t, "cleaned") \/ At(t, "stored") \/ Settled(t)
  BY DEF TypeOK, AnswerInv, Told, Stopping, At, Settled, Spawned, Alive
<1>2. Stopping(t) \/ At(t, "cleaned") => Waits(t)
  BY DEF Stopping, At, Waits
<1>3. At(t, "returned") \/ At(t, "stored") => pc[t] \in {"failed", "returned", "stored"}
  BY DEF At
<1>4. Spec /\ GoesOn(t) => (At(t, "stored") ~> Settled(t))
  BY <1>3, WayOfATurn, TypeCorrect, AnswerInvHolds, PTL DEF Spec, GoesOn
<1>5. Spec => (At(t, "cleaned") ~> At(t, "stored") \/ Settled(t) \/ []Waits(t))
  BY <1>2, WayOfATurn, TypeCorrect, AnswerInvHolds, PTL DEF Spec
<1>6. Spec /\ GoesOn(t) => (At(t, "returned") ~> At(t, "cleaned") \/ Settled(t))
  BY <1>3, WayOfATurn, TypeCorrect, AnswerInvHolds, PTL DEF Spec, GoesOn
<1>7. Spec => (Stopping(t) ~> At(t, "returned") \/ Settled(t) \/ []Waits(t))
  BY <1>2, WayOfATurn, TypeCorrect, AnswerInvHolds, PTL DEF Spec
<1>8. Told(t) <=> cancelled[t]
  BY DEF Told
<1>9. Settled(t) <=> answered[t] # Running \/ pc[t] = "lost"
  BY DEF Settled
<1>10. Spec /\ GoesOn(t) => (Told(t) ~> Settled(t) \/ []Waits(t))
  BY <1>1, <1>4, <1>5, <1>6, <1>7, TypeCorrect, AnswerInvHolds, PTL
<1> QED BY <1>8, <1>9, <1>10, PTL DEF Answered

-----------------------------------------------------------------------------
(* DeletedStaysGone.                                                        *)
(*                                                                         *)
(* A put writes what a load has read.  So the copies the tasks hold have to *)
(* satisfy it as well as the records do; and nothing that was not written   *)
(* yet can have been dropped, which is what makes a new turn a clean one.   *)

Written == {"stored", "done", "lost"}

\* Records and copies hold turns of their own session only.
OwnTurns ==
    /\ \A s \in Sessions : \A u \in Stored(s) : session[u] = s
    /\ \A t \in Turns : \A u \in Range(log[t]) : session[u] = session[t]

\* What a record, or another turn's copy, holds was written back before, and
\* only turns past their put are dropped or may be written late.
WrittenBefore ==
    /\ \A s \in Sessions : \A u \in Stored(s) : pc[u] \in Written
    /\ \A t \in Turns : \A u \in Range(log[t]) : u # t => pc[u] \in Written
    /\ \A u \in dropped \union late : pc[u] \in Written

\* A copy that may still be written holds the turn itself; the one of a turn
\* that resets and is on its way holds nothing else.
CopyIsOwn ==
    /\ \A t \in late : t \in Range(log[t])
    /\ \A t \in Turns : pc[t] \in AtWork \ {"stored"} =>
          /\ t \in Range(log[t])
          /\ reset[t] => Range(log[t]) \subseteq {t}

\* The property of one collection of turns.
Excused(T) == T \intersect dropped # {} => T \intersect stale # {}

GoneInv ==
    /\ NotYetAnswered /\ IdleUnanswered /\ OneAtWork
    /\ OwnTurns /\ WrittenBefore /\ CopyIsOwn
    /\ \A s \in Sessions : Excused(Stored(s))
    /\ \A t \in Turns : pc[t] \in AtWork \ {"stored"} => Excused(Range(log[t]))

\* A step that moves one turn on and changes no copy, no record and no
\* history but an answer.
LEMMA MoveKeepsGone ==
    ASSUME TypeOK, GoneInv, NEW t \in Turns,
           pc' = [pc EXCEPT ![t] = pc'[t]],
           pc[t] \in {"idle", "failed"} => pc'[t] \notin AtWork,
           pc'[t] # "idle",
           pc'[t] \in AtWork \ {"stored"} => pc[t] \in AtWork \ {"stored"},
           pc'[t] = "stored" => pc[t] \in AtWork,
           pc[t] \in Written => pc'[t] \in Written,
           \/ answered' = answered
           \/ /\ answered' = [answered EXCEPT ![t] = answered'[t]]
              /\ pc'[t] \notin AtWork,
           UNCHANGED <<task, store, late, dropped, stale>>
    PROVE  GoneInv'
<1>1. session' = session /\ reset' = reset /\ log' = log /\ store' = store
  BY DEF task
<1>2. \A u \in Turns : u # t => pc'[u] = pc[u] /\ answered'[u] = answered[u]
  BY DEF TypeOK
<1>3. pc'[t] \in AtWork => pc[t] \in AtWork
  BY DEF AtWork
<1>4. NotYetAnswered' /\ IdleUnanswered'
  BY <1>2, <1>3 DEF GoneInv, NotYetAnswered, IdleUnanswered
<1>5. OneAtWork'
  BY <1>1, <1>2, <1>3 DEF GoneInv, OneAtWork
<1>6. \A s \in Sessions : Stored(s)' = Stored(s)
  BY <1>1 DEF Stored
<1>7. OwnTurns'
  BY <1>1, <1>6 DEF GoneInv, OwnTurns
<1>8. WrittenBefore'
  <2>1. \A u : pc[u] \in Written /\ u \in Turns => pc'[u] \in Written
    BY <1>2
  <2>2. /\ \A s \in Sessions : Stored(s) \subseteq Turns
        /\ \A u \in Turns : Range(log[u]) \subseteq Turns
        /\ dropped \subseteq Turns /\ late \subseteq Turns
    BY DEF TypeOK, Stored, Range
  <2> QED BY <1>1, <1>6, <2>1, <2>2 DEF GoneInv, WrittenBefore
<1>9. CopyIsOwn'
  BY <1>1, <1>2 DEF GoneInv, CopyIsOwn
<1>10. /\ \A s \in Sessions : Excused(Stored(s))'
       /\ \A u \in Turns : pc'[u] \in AtWork \ {"stored"} => Excused(Range(log[u]))'
  BY <1>1, <1>2, <1>6 DEF GoneInv, Excused
<1> QED BY <1>4, <1>5, <1>7, <1>8, <1>9, <1>10 DEF GoneInv

\* With clients that wait, nothing that was taken out of a record comes back
\* without a turn whose copy is stale, whatever fails, dies or is late.
THEOREM DeletedStaysGoneHolds == Spec => []DeletedStaysGone
<1> DEFINE IInv == ~Overlap => GoneInv
<1>1. Init => IInv
  <2> SUFFICES ASSUME Init PROVE GoneInv
    OBVIOUS
  <2>1. /\ \A s \in Sessions : Stored(s) = {}
        /\ \A t \in Turns : Range(log[t]) = {}
    BY DEF Init, Stored, Range
  <2> QED
    BY <2>1 DEF Init, GoneInv, NotYetAnswered, IdleUnanswered, OneAtWork, OwnTurns,
                WrittenBefore, CopyIsOwn, Excused, AtWork
<1>2. TypeOK /\ IInv /\ [Next]_vars => IInv'
  <2> SUFFICES ASSUME TypeOK, GoneInv, [Next]_vars, ~Overlap PROVE GoneInv'
    BY GivenStays DEF Overlap
  <2>0. /\ \A s \in Sessions : Stored(s) \subseteq Turns
        /\ \A u \in Turns : Range(log[u]) \subseteq Turns
        /\ \A u \in Turns : session[u] \in Sessions
        /\ dropped \subseteq Turns /\ late \subseteq Turns
    BY DEF TypeOK, Stored, Range
  <2>1. ASSUME NEW t \in Turns, NEW fresh \in BOOLEAN, Load(t, fresh) PROVE GoneInv'
    <3> DEFINE s == session[t]
               earlier == Earlier(s, fresh)
    <3>1. \A u \in Turns : session[u] = s => pc[u] \notin AtWork
      BY <2>1 DEF Load, Quiet, InFlight, Alive, GoneInv, NotYetAnswered, AtWork
    <3>2. /\ pc[t] = "idle" /\ pc'[t] = "loaded" /\ reset'[t] = fresh
          /\ log'[t] = Append(earlier, t)
          /\ \A u \in Turns : u # t => /\ pc'[u] = pc[u] /\ log'[u] = log[u]
                                       /\ reset'[u] = reset[u]
          /\ session' = session /\ answered' = answered /\ store' = store
          /\ dropped' = dropped /\ stale' = stale /\ late' = late
      BY <2>1 DEF Load, Move, TypeOK, history
    <3>3. /\ earlier \in Seq(Turns)
          /\ Range(earlier) = IF fresh THEN {} ELSE Stored(s)
      <4>1. s \in Sessions
        BY <2>0
      <4>2. Range(<<>>) = {}
        BY DEF Range
      <4> HIDE DEF s
      <4>3. store[s] # NoRecord => store[s] \in Seq(Turns)
        BY <4>1 DEF TypeOK
      <4>4. <<>> \in Seq(Turns)
        OBVIOUS
      <4>5. CASE ~fresh /\ store[s] # NoRecord
        BY <4>1, <4>3, <4>5, StoredIs DEF Earlier
      <4>6. CASE ~fresh /\ store[s] = NoRecord
        BY <4>1, <4>2, <4>4, <4>6, StoredIs DEF Earlier
      <4>7. CASE fresh
        BY <4>2, <4>4, <4>7 DEF Earlier
      <4> QED BY <4>5, <4>6, <4>7
    <3>4. Range(log'[t]) = Range(earlier) \union {t}
      <4> HIDE DEF s, earlier
      <4> QED BY <3>2, <3>3, RangeAppend
    <3>5. \A r \in Sessions : Stored(r)' = Stored(r)
      BY <3>2 DEF Stored
    <3>6. t \notin dropped /\ t \notin late
      BY <3>2 DEF GoneInv, WrittenBefore, Written
    <3> HIDE DEF s, earlier
    <3>7. s = session[t] /\ s \in Sessions
      BY <2>0 DEF s
    <3>8. NotYetAnswered' /\ IdleUnanswered'
      BY <3>2 DEF GoneInv, NotYetAnswered, IdleUnanswered
    <3>9. OneAtWork'
      BY <3>1, <3>2, <3>7 DEF GoneInv, OneAtWork
    <3>10. OwnTurns'
      <4>1. \A u \in Range(log'[t]) : session[u] = session[t]
        BY <3>3, <3>4, <3>7 DEF GoneInv, OwnTurns
      <4> QED BY <3>2, <3>5, <4>1 DEF GoneInv, OwnTurns
    <3>11. WrittenBefore'
      <4>1. \A u \in Turns : pc[u] \in Written => u # t /\ pc'[u] = pc[u]
        BY <3>2 DEF Written
      <4>2. \A u \in Range(log'[t]) : u # t => pc[u] \in Written
        BY <3>3, <3>4, <3>7 DEF GoneInv, WrittenBefore
      <4>3. \A u \in Range(log'[t]) : u # t => u \in Turns
        BY <2>0, <3>3, <3>4, <3>7
      <4>4. \A u \in Turns : \A v \in Range(log'[u]) : v # u => pc'[v] \in Written
        <5>1. \A v \in Range(log'[t]) : v # t => pc'[v] \in Written
          BY <4>1, <4>2, <4>3
        <5>2. \A u \in Turns : \A v \in Range(log[u]) : v # u => pc[v] \in Written
          BY DEF GoneInv, WrittenBefore
        <5>3. ASSUME NEW u \in Turns, u # t, NEW v \in Range(log'[u]), v # u
              PROVE  pc'[v] \in Written
          <6>1. Range(log'[u]) = Range(log[u])
            BY <3>2, <5>3
          <6> QED BY <2>0, <4>1, <5>2, <5>3, <6>1
        <5> QED BY <5>1, <5>3
      <4>5. \A u \in dropped' \union late' : pc'[u] \in Written
        BY <2>0, <3>2, <4>1 DEF GoneInv, WrittenBefore
      <4>6. \A r \in Sessions : \A u \in Stored(r)' : pc'[u] \in Written
        BY <2>0, <3>5, <4>1 DEF GoneInv, WrittenBefore
      <4> QED BY <4>4, <4>5, <4>6 DEF WrittenBefore
    <3>12. CopyIsOwn'
      BY <2>0, <3>2, <3>3, <3>4, <3>6 DEF GoneInv, CopyIsOwn
    <3>13. \A r \in Sessions : Excused(Stored(r))'
      BY <3>2, <3>5 DEF GoneInv, Excused
    <3>14. \A u \in Turns : pc'[u] \in AtWork \ {"stored"} => Excused(Range(log[u]))'
      <4>1. Excused(Stored(s))
        BY <3>7 DEF GoneInv
      <4>2. Excused(Range(log[t]))'
        BY <3>2, <3>3, <3>4, <3>6, <4>1 DEF Excused
      <4> QED BY <3>2, <4>2 DEF GoneInv, Excused
    <3> QED BY <3>8, <3>9, <3>10, <3>11, <3>12, <3>13, <3>14 DEF GoneInv
  <2>2. ASSUME NEW t \in Turns,
               HandlerDropped(t) \/ Register(t) \/ EngineReturns(t)
                 \/ EngineErrs(t) \/ Panics(t) \/ FailedCleanup(t) \/ Cleanup(t)
                 \/ LoadFails(t) \/ SendOutcome(t)
        PROVE  GoneInv'
    <3>1. /\ pc' = [pc EXCEPT ![t] = pc'[t]]
          /\ pc[t] \in {"idle", "failed"} => pc'[t] \notin AtWork
          /\ pc'[t] # "idle"
          /\ pc'[t] \in AtWork \ {"stored"} => pc[t] \in AtWork \ {"stored"}
          /\ pc'[t] = "stored" => pc[t] \in AtWork
          /\ pc[t] \in Written => pc'[t] \in Written
      BY <2>2 DEF HandlerDropped, Register, EngineReturns, EngineErrs, Panics,
                  FailedCleanup, Cleanup, LoadFails, SendOutcome, Move,
                  TypeOK, AtWork, Written
    <3>2. \/ answered' = answered
          \/ /\ answered' = [answered EXCEPT ![t] = answered'[t]]
             /\ pc'[t] \notin AtWork
      BY <2>2 DEF HandlerDropped, Register, EngineReturns, EngineErrs, Panics,
                  FailedCleanup, Cleanup, LoadFails, SendOutcome, Move,
                  TypeOK, AtWork, history
    <3>3. UNCHANGED <<task, store, late, dropped, stale>>
      BY <2>2 DEF HandlerDropped, Register, EngineReturns, EngineErrs, Panics,
                  FailedCleanup, Cleanup, LoadFails, SendOutcome, task, history
    <3> QED BY <3>1, <3>2, <3>3, MoveKeepsGone
  <2>3. ASSUME NEW t \in Turns, Put(t) PROVE GoneInv'
    <3> DEFINE s == session[t]
    <3>1. /\ pc[t] = "cleaned" /\ pc'[t] = "stored" /\ store'[s] = log[t]
          /\ \A r \in Sessions : r # s => store'[r] = store[r]
          /\ \A u \in Turns : u # t => pc'[u] = pc[u]
          /\ session' = session /\ log' = log /\ reset' = reset
          /\ answered' = answered /\ stale' = stale /\ late' = late
          /\ dropped' = dropped \union TakenOut(t)
      BY <2>3 DEF Put, Move, TypeOK, task
    <3>2. \A u \in Turns : session[u] = s /\ u # t => pc[u] \notin AtWork
      BY <3>1 DEF GoneInv, OneAtWork, AtWork
    <3>3. Stored(s)' = Range(log[t])
      <4>1. log[t] # NoRecord /\ session[t] \in Sessions
        BY HostAssumption DEF TypeOK
      <4> QED BY <3>1, <4>1 DEF Stored, Range
    <3>4. \A r \in Sessions : r # s => Stored(r)' = Stored(r)
      BY <3>1 DEF Stored
    <3>5. s = session[t] /\ s \in Sessions /\ s' = s
      BY <2>0, <3>1
    <3> HIDE DEF s
    <3>5a. /\ TakenOut(t) \subseteq Stored(s)
           /\ ~reset[t] => TakenOut(t) \intersect Range(log[t]) = {}
      BY <3>5 DEF TakenOut
    <3>6. NotYetAnswered' /\ OneAtWork' /\ IdleUnanswered'
      BY <3>1 DEF GoneInv, NotYetAnswered, OneAtWork, IdleUnanswered, AtWork
    <3>7. OwnTurns'
      <4>1. \A u \in Turns : \A v \in Range(log[u]) : session[v] = session[u]
        BY DEF GoneInv, OwnTurns
      <4>2. \A u \in Stored(s)' : session[u] = s
        BY <3>3, <3>5, <4>1
      <4>3. \A r \in Sessions : \A u \in Stored(r)' : session[u] = r
        BY <3>4, <3>5, <4>2 DEF GoneInv, OwnTurns
      <4> QED BY <3>1, <4>1, <4>3 DEF OwnTurns
    <3>8. \A u \in Turns : pc[u] \in Written => pc'[u] \in Written
      BY <3>1 DEF Written
    <3>9. WrittenBefore'
      <4>1. \A u \in Range(log[t]) : pc'[u] \in Written
        BY <2>0, <3>1, <3>8 DEF GoneInv, WrittenBefore, Written
      <4>2. \A u \in dropped' \union late' : pc'[u] \in Written
        <5>1. \A u \in dropped \union late \union Stored(s) : pc[u] \in Written
          BY <3>5 DEF GoneInv, WrittenBefore
        <5> QED BY <2>0, <3>1, <3>5, <3>8, <3>5a, <5>1
      <4>3. \A r \in Sessions : \A u \in Stored(r)' : pc'[u] \in Written
        <5>1. \A u \in Stored(s)' : pc'[u] \in Written
          BY <3>3, <4>1
        <5>2. \A r \in Sessions : r # s => \A u \in Stored(r)' : pc'[u] \in Written
          BY <2>0, <3>4, <3>8 DEF GoneInv, WrittenBefore
        <5> QED BY <3>5, <5>1, <5>2
      <4>4. \A v \in Turns : \A u \in Range(log[v]) : u # v => pc'[u] \in Written
        BY <2>0, <3>8 DEF GoneInv, WrittenBefore
      <4> QED BY <3>1, <4>2, <4>3, <4>4 DEF WrittenBefore
    <3>10. CopyIsOwn'
      BY <3>1 DEF GoneInv, CopyIsOwn, AtWork
    <3>11. reset[t] => Range(log[t]) \intersect dropped' = {}
      <4>1. t \notin dropped /\ t \notin Stored(s)
        BY <3>1, <3>5 DEF GoneInv, WrittenBefore, Written
      <4>2. reset[t] => Range(log[t]) \subseteq {t}
        BY <3>1 DEF GoneInv, CopyIsOwn, AtWork
      <4> QED BY <3>1, <3>5a, <4>1, <4>2
    <3>13. \A r \in Sessions : Excused(Stored(r))'
      <4>1. Excused(Stored(s))'
        <5>1. CASE reset[t]
          BY <3>3, <3>11, <5>1 DEF Excused
        <5>2. CASE ~reset[t]
          <6>1. Excused(Range(log[t]))
            BY <3>1 DEF GoneInv, AtWork
          <6> QED BY <3>1, <3>3, <3>5a, <5>2, <6>1 DEF Excused
        <5> QED BY <5>1, <5>2
      <4>2. ASSUME NEW r \in Sessions, r # s PROVE Excused(Stored(r))'
        <5>1. Stored(r) \intersect Stored(s) = {}
          BY <3>5, <4>2 DEF GoneInv, OwnTurns
        <5>2. Excused(Stored(r))
          BY DEF GoneInv
        <5> QED BY <3>1, <3>4, <3>5a, <4>2, <5>1, <5>2 DEF Excused
      <4> QED BY <3>5, <4>1, <4>2
    <3>14. ASSUME NEW u \in Turns, pc'[u] \in AtWork \ {"stored"}
           PROVE  Excused(Range(log[u]))'
      <4>1. u # t /\ pc[u] \in AtWork \ {"stored"}
        BY <3>1, <3>14
      <4>2. session[u] # s
        BY <3>2, <4>1
      <4>3. Range(log[u]) \intersect Stored(s) = {}
        BY <3>5, <4>2 DEF GoneInv, OwnTurns
      <4>4. Excused(Range(log[u]))
        BY <4>1 DEF GoneInv
      <4> QED BY <3>1, <3>5a, <4>3, <4>4 DEF Excused
    <3> QED BY <3>6, <3>7, <3>9, <3>10, <3>13, <3>14 DEF GoneInv
  <2>3a. ASSUME NEW t \in Turns, PutFails(t) PROVE GoneInv'
    <3>1. /\ pc[t] = "cleaned" /\ pc'[t] = "stored"
          /\ \A u \in Turns : u # t => pc'[u] = pc[u]
          /\ session' = session /\ log' = log /\ reset' = reset
          /\ answered' = answered /\ stale' = stale
          /\ late' \subseteq late \union {t}
          /\ dropped' = dropped \union {t}
      BY <2>3a DEF PutFails, Move, TypeOK, task
    <3>2. \A r \in Sessions : Stored(r)' = Stored(r)
      BY <2>3a DEF PutFails, Stored
    <3>3. \A u \in Turns : pc[u] \in Written => u # t /\ pc'[u] = pc[u]
      BY <3>1 DEF Written
    <3>4. NotYetAnswered' /\ IdleUnanswered' /\ OneAtWork'
      BY <3>1 DEF GoneInv, NotYetAnswered, IdleUnanswered, OneAtWork, AtWork
    <3>5. OwnTurns'
      BY <3>1, <3>2 DEF GoneInv, OwnTurns
    <3>6. WrittenBefore'
      <4>1. \A u \in dropped' \union late' : pc'[u] \in Written
        <5>1. \A u \in dropped \union late : pc[u] \in Written
          BY DEF GoneInv, WrittenBefore
        <5>2. pc'[t] \in Written
          BY <3>1 DEF Written
        <5> QED BY <2>0, <3>1, <3>3, <5>1, <5>2
      <4>2. \A r \in Sessions : \A u \in Stored(r)' : pc'[u] \in Written
        BY <2>0, <3>2, <3>3 DEF GoneInv, WrittenBefore
      <4>3. \A v \in Turns : \A u \in Range(log[v]) : u # v => pc'[u] \in Written
        BY <2>0, <3>3 DEF GoneInv, WrittenBefore
      <4> QED BY <3>1, <4>1, <4>2, <4>3 DEF WrittenBefore
    <3>7. CopyIsOwn'
      BY <3>1 DEF GoneInv, CopyIsOwn, AtWork
    <3>8. \A r \in Sessions : t \notin Stored(r)
      BY <3>1 DEF GoneInv, WrittenBefore, Written
    <3>9. \A r \in Sessions : Excused(Stored(r))'
      BY <3>1, <3>2, <3>8 DEF GoneInv, Excused
    <3>10. ASSUME NEW u \in Turns, pc'[u] \in AtWork \ {"stored"}
           PROVE  Excused(Range(log[u]))'
      <4>1. u # t /\ pc[u] \in AtWork \ {"stored"}
        BY <3>1, <3>10
      <4>2. t \notin Range(log[u])
        BY <3>1, <4>1 DEF GoneInv, WrittenBefore, Written
      <4>3. Excused(Range(log[u]))
        BY <4>1 DEF GoneInv
      <4> QED BY <3>1, <4>2, <4>3 DEF Excused
    <3> QED BY <3>4, <3>5, <3>6, <3>7, <3>9, <3>10 DEF GoneInv
  <2>3b. ASSUME NEW t \in Turns, LatePut(t) PROVE GoneInv'
    <3> DEFINE s == session[t]
    <3>1. /\ t \in late /\ store'[s] = log[t]
          /\ \A r \in Sessions : r # s => store'[r] = store[r]
          /\ pc' = pc /\ session' = session /\ log' = log /\ reset' = reset
          /\ answered' = answered /\ late' \subseteq late
          /\ stale' = stale \union InFlight(s) \union {t}
          /\ dropped' = dropped \union (Stored(s) \ Range(log[t]))
      BY <2>3b DEF LatePut, TypeOK, task
    <3>2. Stored(s)' = Range(log[t])
      <4>1. log[t] # NoRecord /\ session[t] \in Sessions
        BY HostAssumption DEF TypeOK
      <4> QED BY <3>1, <4>1 DEF Stored, Range
    <3>3. \A r \in Sessions : r # s => Stored(r)' = Stored(r)
      BY <3>1 DEF Stored
    <3>4. s = session[t] /\ s \in Sessions /\ s' = s /\ t \in Range(log[t])
      BY <2>0, <3>1 DEF GoneInv, CopyIsOwn
    <3>5. \A u \in Turns : session[u] = s /\ pc[u] \in AtWork => u \in stale'
      BY <3>1 DEF InFlight, Alive, AtWork
    <3> HIDE DEF s
    <3>6. NotYetAnswered' /\ OneAtWork' /\ IdleUnanswered'
      BY <3>1 DEF GoneInv, NotYetAnswered, OneAtWork, IdleUnanswered
    <3>7. OwnTurns'
      <4>1. \A u \in Turns : \A v \in Range(log[u]) : session[v] = session[u]
        BY DEF GoneInv, OwnTurns
      <4>2. \A u \in Stored(s)' : session[u] = s
        BY <3>2, <3>4, <4>1
      <4>3. \A r \in Sessions : \A u \in Stored(r)' : session[u] = r
        BY <3>3, <3>4, <4>2 DEF GoneInv, OwnTurns
      <4> QED BY <3>1, <4>1, <4>3 DEF OwnTurns
    <3>8. WrittenBefore'
      <4>1. \A u \in Range(log[t]) : pc[u] \in Written
        BY <2>0, <3>1 DEF GoneInv, WrittenBefore
      <4>2. \A u \in dropped' \union late' : pc[u] \in Written
        BY <3>1, <3>4 DEF GoneInv, WrittenBefore
      <4>3. \A r \in Sessions : \A u \in Stored(r)' : pc[u] \in Written
        BY <3>2, <3>3, <3>4, <4>1 DEF GoneInv, WrittenBefore
      <4>4. \A v \in Turns : \A u \in Range(log[v]) : u # v => pc[u] \in Written
        BY DEF GoneInv, WrittenBefore
      <4> QED BY <3>1, <4>2, <4>3, <4>4 DEF WrittenBefore
    <3>9. CopyIsOwn'
      BY <3>1 DEF GoneInv, CopyIsOwn
    <3>10. ASSUME NEW r \in Sessions PROVE Excused(Stored(r))'
      <4>1. CASE r = s
        BY <3>1, <3>2, <3>4, <4>1 DEF Excused
      <4>2. CASE r # s
        <5>1. Stored(r) \intersect Stored(s) = {}
          BY <3>4, <4>2 DEF GoneInv, OwnTurns
        <5>2. Excused(Stored(r))
          BY DEF GoneInv
        <5> QED BY <3>1, <3>3, <4>2, <5>1, <5>2 DEF Excused
      <4> QED BY <4>1, <4>2
    <3>11. ASSUME NEW u \in Turns, pc[u] \in AtWork \ {"stored"}
           PROVE  Excused(Range(log[u]))'
      <4>1. Excused(Range(log[u])) /\ u \in Range(log[u])
        BY <3>11 DEF GoneInv, CopyIsOwn
      <4>2. CASE session[u] = s
        BY <3>1, <3>5, <3>11, <4>1, <4>2 DEF Excused
      <4>3. CASE session[u] # s
        <5>1. Range(log[u]) \intersect Stored(s) = {}
          BY <3>4, <4>3 DEF GoneInv, OwnTurns
        <5> QED BY <3>1, <4>1, <5>1 DEF Excused
      <4> QED BY <4>2, <4>3
    <3> QED BY <3>1, <3>6, <3>7, <3>8, <3>9, <3>10, <3>11 DEF GoneInv
  <2>4. ASSUME NEW s \in Sessions, CancelTurn(s) PROVE GoneInv'
    <3>1. UNCHANGED <<pc, session, reset, log, store, late, answered, dropped, stale>>
      BY <2>4 DEF CancelTurn, task, history
    <3>2. \A r \in Sessions : Stored(r)' = Stored(r)
      BY <3>1 DEF Stored
    <3> QED
      BY <3>1, <3>2 DEF GoneInv, NotYetAnswered, IdleUnanswered, OneAtWork, OwnTurns,
                        WrittenBefore, CopyIsOwn, Excused
  <2>5. ASSUME NEW s \in Sessions, DeleteSession(s) PROVE GoneInv'
    <3>1. /\ UNCHANGED <<pc, session, reset, log, late, answered>>
          /\ dropped' = dropped \union Stored(s)
          /\ stale' = stale \union InFlight(s)
      BY <2>5 DEF DeleteSession, task
    <3>2. Stored(s)' = {} /\ \A r \in Sessions \ {s} : Stored(r)' = Stored(r)
      BY <2>5 DEF DeleteSession, Stored, TypeOK
    <3>3. NotYetAnswered' /\ IdleUnanswered' /\ OneAtWork' /\ CopyIsOwn'
      BY <3>1 DEF GoneInv, NotYetAnswered, IdleUnanswered, OneAtWork, CopyIsOwn
    <3>4. OwnTurns' /\ WrittenBefore'
      BY <3>1, <3>2 DEF GoneInv, OwnTurns, WrittenBefore
    <3>5. ASSUME NEW r \in Sessions PROVE Excused(Stored(r))'
      <4>1. CASE r = s
        BY <3>2, <4>1 DEF Excused
      <4>2. CASE r # s
        <5>1. Stored(r) \intersect Stored(s) = {}
          BY <4>2 DEF GoneInv, OwnTurns
        <5>2. Excused(Stored(r))
          BY DEF GoneInv
        <5> QED BY <3>1, <3>2, <4>2, <5>1, <5>2 DEF Excused
      <4> QED BY <4>1, <4>2
    <3>6. ASSUME NEW u \in Turns, pc[u] \in AtWork \ {"stored"}
          PROVE  Excused(Range(log[u]))'
      <4>1. Excused(Range(log[u]))
        BY <3>6 DEF GoneInv
      <4>2. CASE session[u] = s
        \* The delete has stale this turn.
        <5>1. u \in Range(log[u])
          BY <3>6 DEF GoneInv, CopyIsOwn
        <5>2. u \in stale'
          BY <3>1, <3>6, <4>2 DEF InFlight, Alive, AtWork
        <5> QED BY <3>1, <5>1, <5>2 DEF Excused
      <4>3. CASE session[u] # s
        <5>1. Range(log[u]) \intersect Stored(s) = {}
          BY <4>3 DEF GoneInv, OwnTurns
        <5> QED BY <3>1, <4>1, <5>1 DEF Excused
      <4> QED BY <4>2, <4>3
    <3> QED BY <3>1, <3>3, <3>4, <3>5, <3>6 DEF GoneInv
  <2>6. CASE Crash
    <3>1. /\ UNCHANGED <<session, log, reset, answered, stale>>
          /\ \A u \in Turns : /\ pc'[u] \notin AtWork
                              /\ pc'[u] = "idle" => pc[u] = "idle"
                              /\ pc[u] \in Written => pc'[u] \in Written
      BY <2>6 DEF Crash, task, Alive, AtWork, Written
    <3>1a. ASSUME NEW u \in late', u \notin late
           PROVE  u \in Turns /\ pc[u] = "cleaned" /\ pc'[u] = "lost"
      BY <2>6, <3>1a DEF Crash, Alive
    <3>2. \A r \in Sessions : Stored(r)' = IF Durable THEN Stored(r) ELSE {}
      BY <2>6 DEF Crash, Stored
    <3>3. /\ dropped' \subseteq dropped \union UNION {Stored(r) : r \in Sessions}
          /\ Durable => dropped' = dropped
      BY <2>6 DEF Crash
    <3>4. NotYetAnswered' /\ IdleUnanswered' /\ OneAtWork'
      BY <3>1 DEF GoneInv, NotYetAnswered, IdleUnanswered, OneAtWork
    <3>4a. CopyIsOwn'
      BY <3>1, <3>1a DEF GoneInv, CopyIsOwn, AtWork
    <3>5. OwnTurns'
      BY <3>1, <3>2 DEF GoneInv, OwnTurns
    <3>6. WrittenBefore'
      <4>1. \A u \in dropped' \union late' : pc'[u] \in Written
        <5>1. \A u \in late' : pc'[u] \in Written
          BY <2>0, <3>1, <3>1a DEF GoneInv, WrittenBefore, Written
        <5> QED BY <2>0, <3>1, <3>3, <5>1 DEF GoneInv, WrittenBefore
      <4>2. \A r \in Sessions : \A u \in Stored(r)' : pc'[u] \in Written
        BY <2>0, <3>1, <3>2 DEF GoneInv, WrittenBefore
      <4>3. \A v \in Turns : \A u \in Range(log[v]) : u # v => pc'[u] \in Written
        BY <2>0, <3>1 DEF GoneInv, WrittenBefore
      <4> QED BY <3>1, <4>1, <4>2, <4>3 DEF WrittenBefore
    <3>7. \A r \in Sessions : Excused(Stored(r))'
      BY <3>1, <3>2, <3>3 DEF GoneInv, Excused
    <3> QED BY <3>1, <3>4, <3>4a, <3>5, <3>6, <3>7 DEF GoneInv
  <2>7. CASE UNCHANGED vars
    <3>1. UNCHANGED <<pc, session, reset, log, store, late, answered, dropped, stale>>
      BY <2>7 DEF vars, task, history
    <3>2. \A r \in Sessions : Stored(r)' = Stored(r)
      BY <3>1 DEF Stored
    <3> QED
      BY <3>1, <3>2 DEF GoneInv, NotYetAnswered, IdleUnanswered, OneAtWork, OwnTurns,
                        WrittenBefore, CopyIsOwn, Excused
  <2> QED
    BY <2>1, <2>2, <2>3, <2>3a, <2>3b, <2>4, <2>5, <2>6, <2>7 DEF Next, Handler, Task
<1>3. IInv => DeletedStaysGone
  BY DEF GoneInv, DeletedStaysGone, Excused
<1> QED BY <1>1, <1>2, <1>3, TypeCorrect, PTL DEF Spec

-----------------------------------------------------------------------------
(* The host and the engine's contract.                                      *)

\* What the host has of one turn's engine: its token and what it returned.
Engine(t) == INSTANCE TurnContract WITH
    Limit <- 0, asked <- cancelled[t], outcome <- result[t], rounds <- 0, grown <- 0,
    held <- FALSE

\* What the host takes an engine to do is what TurnLoop is proved to do: of
\* every turn it sees behaviours of the contract only, so a flag that was set
\* stays set and an engine that returned does not return again.
THEOREM EnginesKeepContract ==
    Spec => \A t \in Turns :
        Engine(t)!Init /\ [][Engine(t)!Next]_(Engine(t)!vars)
<1> SUFFICES ASSUME NEW t \in Turns
             PROVE  Spec => Engine(t)!Init /\ [][Engine(t)!Next]_(Engine(t)!vars)
  OBVIOUS
<1>1. Init => Engine(t)!Init
  BY DEF Init, Engine!Init, Engine!Running, Running
<1>2. TypeOK /\ AnswerInv /\ [Next]_vars => [Engine(t)!Next]_(Engine(t)!vars)
  <2> SUFFICES ASSUME TypeOK, AnswerInv, [Next]_vars
               PROVE  \/ Engine(t)!Next
                      \/ cancelled'[t] = cancelled[t] /\ result'[t] = result[t]
    BY DEF Engine!vars
  <2> USE DEF TypeOK
  <2>1. ASSUME result'[t] = result[t], cancelled'[t] # cancelled[t],
               cancelled[t] => cancelled'[t], cancelled'[t] \in BOOLEAN
        PROVE  Engine(t)!Ask
    BY <2>1 DEF Engine!Ask
  <2>2. ASSUME cancelled' = cancelled, pc[t] = "running",
               result'[t] \in TurnOutcomes(cancelled[t])
        PROVE  Engine(t)!Return
    <3>1. result[t] = Running
      BY <2>2 DEF AnswerInv
    <3> QED BY <2>2, <3>1
        DEF Engine!Return, Engine!Running, Running, Engine!TurnOutcomes, TurnOutcomes,
            Engine!Spontaneous, Spontaneous
  <2>3. ASSUME NEW u \in Turns, EngineReturns(u)
        PROVE  \/ Engine(t)!Return
               \/ cancelled'[t] = cancelled[t] /\ result'[t] = result[t]
    BY <2>2, <2>3 DEF EngineReturns, Move
  <2>4. ASSUME NEW u \in Turns, EngineErrs(u)
        PROVE  \/ Engine(t)!Return
               \/ cancelled'[t] = cancelled[t] /\ result'[t] = result[t]
    <3>1. \A b \in BOOLEAN : "error" \in TurnOutcomes(b)
      BY DEF TurnOutcomes, Spontaneous
    <3> QED BY <2>2, <2>4, <3>1 DEF EngineErrs, Move
  <2>5. ASSUME NEW u \in Turns, Register(u)
        PROVE  /\ result'[t] = result[t] /\ cancelled'[t] \in BOOLEAN
               /\ cancelled[t] => cancelled'[t]
    BY <2>5 DEF Register
  <2>6. ASSUME NEW s \in Sessions, CancelTurn(s)
        PROVE  /\ result'[t] = result[t] /\ cancelled'[t] \in BOOLEAN
               /\ cancelled[t] => cancelled'[t]
    BY <2>6 DEF CancelTurn
  <2>7. ASSUME NEW u \in Turns,
               \/ \E fresh \in BOOLEAN : Load(u, fresh)
               \/ LoadFails(u) \/ HandlerDropped(u) \/ Panics(u) \/ FailedCleanup(u) \/ LatePut(u)
               \/ Cleanup(u) \/ Put(u) \/ PutFails(u) \/ SendOutcome(u)
        PROVE  cancelled' = cancelled /\ result' = result
    BY <2>7 DEF Load, LoadFails, HandlerDropped, Panics, FailedCleanup, Cleanup, Put,
                PutFails, LatePut, SendOutcome
  <2>8. ASSUME NEW s \in Sessions, DeleteSession(s)
        PROVE  cancelled' = cancelled /\ result' = result
    BY <2>8 DEF DeleteSession
  <2>9. CASE Crash \/ UNCHANGED vars
    BY <2>9 DEF Crash, vars
  <2> QED
    BY <2>1, <2>3, <2>4, <2>5, <2>6, <2>7, <2>8, <2>9
    DEF Next, Handler, Task, Engine!Next
<1> QED BY <1>1, <1>2, TypeCorrect, AnswerInvHolds, PTL DEF Spec

=============================================================================
