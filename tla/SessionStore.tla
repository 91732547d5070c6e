---------------------------- MODULE SessionStore ----------------------------
(***************************************************************************)
(* The session stores at work (crates/core/src/storage): the handlers of a  *)
(* serving replica call get, put, delete and list on the in-memory map or   *)
(* on Postgres, through the pool whose clients its start took and returned. *)
(* A call on Postgres waits for a client, sends one statement and waits for *)
(* its result; the client, its connection, the database, the caller and the *)
(* process may all be lost on the way, and the server finishes what it has  *)
(* received whoever sent it.                                               *)
(*                                                                         *)
(* A record is named by the put that wrote it; its times and the order of a *)
(* listing are left out.  SessionContract says what callers are promised.   *)
(***************************************************************************)
EXTENDS Boot

CONSTANTS Calls,   \* calls of the store's methods (each is made at most once)
          Ids,     \* session ids
          Db,      \* the store that is the database
          Absent,  \* no record
          NoCall,  \* a call not made yet
          Extra,   \* bound: those of them made in a crowd only
          Placements  \* bound: which replica each call may be made on

\* The stores there are: the database, and one in each process.
Stores == Replicas \union {Db}

ASSUME StoreAssumption ==
    /\ Db \notin Replicas
    /\ Absent \notin Calls
    /\ Placements \subseteq [Calls -> Replicas]
    /\ NoCall \notin [op : Operations, id : Ids, in : Stores]

VARIABLES asked,  \* each call's request
          at,     \* the replica it is made on
          stage,  \* where its handler is
          stmt,   \* where its statement is
          found,  \* the records it read or removed
          rows    \* the records of each store

callVars == <<asked, at, stage, stmt, found, rows>>
vars     == <<bootVars, callVars>>

-----------------------------------------------------------------------------
StoreOf(r) == IF InMemory THEN r ELSE Db

Empty == [id \in Ids |-> Absent]

Open == {"waits", "asked"}

\* Mutant: a call that failed keeps its client.
NeverGivenBack(r) == {c \in Calls : at[c] = r /\ stage[c] \in {"asked", "failed"}}

\* The calls that have a client of the pool of r in hand.
Using(r) == {c \in Calls : at[c] = r /\ stage[c] = "asked"}

ClientFree(r) == Cardinality(Using(r)) < PoolSize

Init == /\ BootInit
        /\ asked = [c \in Calls |-> NoCall]
        /\ at \in Placements
        /\ stage = [c \in Calls |-> "idle"]
        /\ stmt = [c \in Calls |-> "none"]
        /\ found = [c \in Calls |-> {}]
        /\ rows = [s \in Stores |-> Empty]

Step(c, from, to) == stage[c] = from /\ stage' = [stage EXCEPT ![c] = to]

-----------------------------------------------------------------------------
(* A call.                                                                  *)

\* A handler of a serving replica calls the store.
Ask(c) ==
    /\ phase[at[c]] = "serving"
    /\ c \in Extra => "crowd" \in given
    /\ Step(c, "idle", "waits")
    /\ \E op \in Operations \intersect given, id \in Ids :
          asked' = [asked EXCEPT ![c] =
                       [op |-> op, id |-> id, in |-> StoreOf(at[c])]]
    /\ UNCHANGED <<bootVars, at, stmt, found, rows>>

\* pool.get gives a client and the statement goes out on it.
Send(c) ==
    /\ ~InMemory
    /\ database
    /\ ClientFree(at[c])
    /\ Step(c, "waits", "asked")
    /\ stmt' = [stmt EXCEPT ![c] = "sent"]
    /\ UNCHANGED <<bootVars, asked, at, found, rows>>

\* pool.get cannot connect, or hands out a client whose connection an outage
\* has closed (RecyclingMethod::Fast makes no query).
GetFails(c) ==
    /\ ~InMemory
    /\ "database" \in given /\ outages > 0
    /\ ClientFree(at[c])
    /\ Step(c, "waits", "failed")
    /\ UNCHANGED <<bootVars, asked, at, stmt, found, rows>>

\* The records a request reads.
Record(m, id) == {m[id]} \ {Absent}

Read(q, m) ==
    IF q.op = "put" THEN {}
    ELSE IF q.op = "list" THEN UNION {Record(m, id) : id \in Ids}
    ELSE Record(m, q.id)

\* The map a request leaves: put inserts or replaces, delete removes.
Written(c, q, m) ==
    IF q.op = "put" THEN [m EXCEPT ![q.id] = c]
    ELSE IF q.op = "delete" THEN [m EXCEPT ![q.id] = Absent]
    ELSE m

\* The request reads and changes its store in one step.
Apply(c) ==
    LET q == asked[c]
    IN  /\ found' = [found EXCEPT ![c] = Read(q, rows[q.in])]
        /\ rows' = [rows EXCEPT ![q.in] = Written(c, q, @)]
        /\ stmt' = [stmt EXCEPT ![c] = "done"]

\* Under the mutex of the in-memory map.
Lookup(c) ==
    /\ InMemory
    /\ Step(c, "waits", "asked")
    /\ Apply(c)
    /\ UNCHANGED <<bootVars, asked, at>>

\* The server executes the statement, whoever still waits for it.
Execute(c) ==
    /\ database
    /\ stmt[c] = "sent"
    /\ Apply(c)
    /\ UNCHANGED <<bootVars, asked, at, stage>>

\* It refuses the messages: jsonb holds no NUL character.
Refuse(c) ==
    /\ "nul" \in given
    /\ database
    /\ stmt[c] = "sent"
    /\ asked[c].op = "put"
    /\ stmt' = [stmt EXCEPT ![c] = "undone"]
    /\ UNCHANGED <<bootVars, asked, at, stage, found, rows>>

\* Mutant: a call is answered once its statement is out.
AnswerUnseen(c) ==
    /\ stmt[c] \in {"sent", "done"}
    /\ Step(c, "asked", "ok")
    /\ UNCHANGED <<bootVars, asked, at, stmt, found, rows>>

\* The result arrives; the client goes back to the pool.
Answer(c) ==
    /\ stmt[c] = "done"
    /\ Step(c, "asked", "ok")
    /\ UNCHANGED <<bootVars, asked, at, stmt, found, rows>>

\* An error arrives, or the connection is lost with the statement under way
\* or done.
StatementFails(c) ==
    /\ ~InMemory
    /\ stmt[c] = "undone" \/ "network" \in given
    /\ Step(c, "asked", "failed")
    /\ UNCHANGED <<bootVars, asked, at, stmt, found, rows>>

\* The RPC's client went away and tonic drops the handler at its await.  The
\* task of a turn, which makes the puts, runs on.
CallerGone(c) ==
    /\ "client" \in given
    /\ asked[c] # NoCall /\ asked[c].op # "put"
    /\ stage[c] \in Open
    /\ stage' = [stage EXCEPT ![c] = "failed"]
    /\ UNCHANGED <<bootVars, asked, at, stmt, found, rows>>

-----------------------------------------------------------------------------
(* Starts, outages and calls together.                                      *)

\* A process takes its calls and its map with it; statements that are out
\* stay with the server.
ProcessDies(r) ==
    /\ Crash(r)
    /\ stage' = [c \in Calls |-> IF at[c] = r /\ stage[c] \in Open
                                 THEN "failed" ELSE stage[c]]
    /\ rows' = [rows EXCEPT ![r] = Empty]
    /\ UNCHANGED <<asked, at, stmt, found>>

\* The database goes down and undoes what was under way.
DatabaseFails ==
    /\ DatabaseDown
    /\ stmt' = [c \in Calls |-> IF stmt[c] = "sent" THEN "undone" ELSE stmt[c]]
    /\ UNCHANGED <<asked, at, stage, found, rows>>

Startup(r) == (Start(r) \/ Boots(r)) /\ UNCHANGED callVars

Around(r) == (SidecarDown(r) \/ SidecarUp(r)) /\ UNCHANGED callVars

DatabaseReturns == DatabaseUp /\ UNCHANGED callVars

Get(c) == Send(c) \/ GetFails(c) \/ Lookup(c)

Finish(c) == Answer(c) \/ StatementFails(c)

Server(c) == Execute(c) \/ Refuse(c)

Next == \/ \E r \in Replicas : Startup(r) \/ Around(r) \/ ProcessDies(r)
        \/ DatabaseFails \/ DatabaseReturns
        \/ \E c \in Calls : Ask(c) \/ Get(c) \/ Server(c) \/ Finish(c) \/ CallerGone(c)

Spec == Init /\ [][Next]_vars

(***************************************************************************)
(* supervisord restarts what exits; processes and the server go on; an      *)
(* outage ends.  Nothing else is owed.                                     *)
(***************************************************************************)
FairSpec ==
    /\ Spec
    /\ \A r \in Replicas : /\ WF_vars(Startup(r))
                           /\ WF_vars(SidecarUp(r) /\ UNCHANGED callVars)
    /\ WF_vars(DatabaseReturns)
    /\ \A c \in Calls : WF_vars(Get(c)) /\ WF_vars(Server(c)) /\ WF_vars(Finish(c))

Executable(c) == database /\ stage[c] = "asked" /\ stmt[c] = "sent"
Answerable(c) == stage[c] = "asked" /\ stmt[c] \in {"done", "undone"}

\* The same of one call: the in-memory map is at hand, a server that is up
\* executes what it was sent, and its answer arrives.
GoesOn(c) ==
    /\ []<>~(InMemory /\ stage[c] = "waits") \/ []<><<Get(c)>>_vars
    /\ []<>~Executable(c) \/ []<><<Server(c)>>_vars
    /\ []<>~Answerable(c) \/ []<><<Finish(c)>>_vars

-----------------------------------------------------------------------------
(* Properties.                                                              *)

\* The values the state may take.
TypeOK ==
    /\ BootTypeOK
    /\ asked \in [Calls -> [op : Operations, id : Ids, in : Stores] \union {NoCall}]
    /\ at \in [Calls -> Replicas]
    /\ stage \in [Calls -> {"idle", "ok", "failed"} \union Open]
    /\ stmt \in [Calls -> {"none", "sent", "done", "undone"}]
    /\ found \in [Calls -> SUBSET Calls]
    /\ rows \in [Stores -> [Ids -> Calls \union {Absent}]]

\* "Schema (idempotent, created at startup)" (postgres.rs:3): no statement
\* reaches a database that has no sessions table, whatever died or was lost
\* between the start of its replica and the call.
StatementsFindTable ==
    \A c \in Calls : stmt[c] = "sent" /\ ~InMemory => table

\* What the trait promises (mod.rs:73-82, conformance::run_full_suite), on
\* either backend and with several replicas on one database: a call answered
\* took effect once, in one step between call and answer; one that failed at
\* most once, now or later.  An answered put outlives process and database.
Contract == INSTANCE SessionContract WITH
    Volatile <- Replicas,
    taken    <- [c \in Calls |-> stmt[c] = "done"],
    answer   <- [c \in Calls |-> IF stage[c] \in {"ok", "failed"} THEN stage[c]
                                 ELSE "none"]
KeepsContract == Contract!Spec

\* No call hangs: a client of the pool comes free for each that waits, and
\* each that has one gets a result or an error.
CallsEnd ==
    \A c \in Calls : stage[c] \in Open ~> stage[c] \notin Open

=============================================================================
