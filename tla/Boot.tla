-------------------------------- MODULE Boot --------------------------------
(***************************************************************************)
(* The start of `ash serve` (crates/cli, crates/api) and the supervision of *)
(* it (docker/supervisord.conf).  A process waits for its Python sidecar,   *)
(* builds the session store (crates/core/src/storage) and listens.  With    *)
(* Postgres that means a pool, a first connection tried a bounded number of *)
(* times, and a schema transaction on a second connection, taken while the  *)
(* first is still in hand: the value a `match` looks at lives until its     *)
(* end.  Several containers may start on one database; sidecars, database   *)
(* and processes come and go.                                              *)
(*                                                                         *)
(* External, as the code uses them: supervisord, the sidecar, the database. *)
(* A TUI waits for its sidecar by the same loop.  The host's address and    *)
(* port always parse.                                                      *)
(***************************************************************************)
EXTENDS Naturals, FiniteSets

CONSTANTS Replicas,      \* containers, each with its ash serve and its sidecar
          NoReplica,     \* nobody holds the advisory lock
          PoolSize,      \* ASH_POSTGRES_POOL_SIZE
          Attempts,      \* of each retry loop (10 in the code)
          StartRetries,  \* supervisord's startretries (10)
          MaxOutages,    \* bound: deaths of processes, sidecars and database
          Cases          \* the combinations of circumstances to look at

\* The store's methods.
Operations == {"get", "put", "delete", "list"}

\* What may happen in a behaviour besides a start's own course: the methods
\* called and
Circumstances == Operations \union {
    "memory",         \* ASH_SESSION_STORE=memory, not postgres
    "misconfigured",  \* an unknown store, a missing or unreadable URL
    "port",           \* the port to listen on may be taken
    "sidecar",        \* sidecars come up late, and die
    "database",       \* the database comes up late, and goes down
    "crash",          \* processes die
    "crowd",          \* more calls are made than the pool has clients
    "again",          \* any of these happens up to MaxOutages times, not once
    "network",        \* a connection to the database is lost
    "nul",            \* a text with a NUL, which jsonb refuses, is stored
    "client"}         \* a caller goes away before its answer

ASSUME BootAssumption ==
    /\ NoReplica \notin Replicas
    /\ PoolSize \in Nat
    /\ Attempts \in Nat \ {0}
    /\ StartRetries \in Nat
    /\ MaxOutages \in Nat
    /\ Cases \subseteq SUBSET Circumstances

VARIABLES phase,     \* how far each replica's process is
          tries,     \* failed attempts of its current retry loop
          backoff,   \* exits in a row that supervisord calls failed starts
          sidecar,   \* is each replica's sidecar up?
          database,  \* is the database up?
          table,     \* does the sessions table exist?
          lock,      \* the replica whose transaction holds the advisory lock
          seen,      \* what CREATE TABLE IF NOT EXISTS saw in its transaction
          outages,
          given      \* the circumstances of this behaviour

server   == <<database, table, lock, seen>>
process  == <<phase, tries, backoff>>
bootVars == <<process, sidecar, server, outages, given>>

-----------------------------------------------------------------------------
InMemory     == "memory" \in given
Configured   == "misconfigured" \notin given
PortsAreFree == "port" \notin given

\* A started process on its way.
Starting == {"sidecar", "store", "connected", "begun", "locked", "broken", "ready"}
Running  == Starting \union {"serving"}

\* Clients of its pool a starting process has in hand.
Held(r) == CASE phase[r] = "connected"                       -> 1
             [] phase[r] \in {"begun", "locked", "broken"}   -> 2
             [] OTHER                                        -> 0

BootInit ==
    /\ given \in Cases
    /\ phase = [r \in Replicas |-> "down"]
    /\ tries = [r \in Replicas |-> 0]
    /\ backoff = [r \in Replicas |-> 0]
    /\ sidecar = [r \in Replicas |-> "sidecar" \notin given]
    /\ database = ("database" \notin given)
    /\ table \in BOOLEAN
    /\ lock = NoReplica
    /\ seen = [r \in Replicas |-> FALSE]
    /\ outages = 0

Move(r, from, to) == phase[r] = from /\ phase' = [phase EXCEPT ![r] = to]

-----------------------------------------------------------------------------
(* supervisord.                                                             *)

\* A process ends.  An exit within startsecs is a failed start; after more
\* than StartRetries of those in a row the program is left alone.
Exit(r, early) ==
    /\ phase' = [phase EXCEPT ![r] =
                    IF early /\ backoff[r] = StartRetries THEN "fatal" ELSE "down"]
    /\ backoff' = [backoff EXCEPT ![r] =
                    IF ~early THEN 0
                    ELSE IF @ = StartRetries THEN @ ELSE @ + 1]
    /\ tries' = [tries EXCEPT ![r] = 0]

Start(r) ==
    /\ Move(r, "down", "sidecar")
    /\ UNCHANGED <<tries, backoff, sidecar, server, outages, given>>

\* Mutant: a start that waited in vain counts as a failed one.
GivesUpEarly(r) ==
    /\ tries[r] + 1 = Attempts
    /\ Exit(r, TRUE)
    /\ UNCHANGED <<sidecar, server, outages, given>>

\* The last attempt failed.  All attempts and their pauses take longer than
\* startsecs, so the exit is not a failed start.
GivesUp(r) ==
    /\ tries[r] + 1 = Attempts
    /\ Exit(r, FALSE)
    /\ UNCHANGED <<sidecar, server, outages, given>>

\* Another one failed and there are more.
TriesAgain(r) ==
    /\ tries[r] + 1 < Attempts
    /\ tries' = [tries EXCEPT ![r] = @ + 1]
    /\ UNCHANGED <<phase, backoff, sidecar, server, outages, given>>

-----------------------------------------------------------------------------
(* serve: the sidecar first, then the store, then the port.                 *)

ReachesSidecar(r) ==
    /\ sidecar[r]
    /\ Move(r, "sidecar", "store")
    /\ tries' = [tries EXCEPT ![r] = 0]
    /\ UNCHANGED <<backoff, sidecar, server, outages, given>>

MissesSidecar(r) ==
    /\ phase[r] = "sidecar"
    /\ ~sidecar[r]
    /\ TriesAgain(r) \/ GivesUp(r)

BuildsMemory(r) ==
    /\ Configured
    /\ InMemory
    /\ Move(r, "store", "ready")
    /\ UNCHANGED <<tries, backoff, sidecar, server, outages, given>>

Misconfigured(r) ==
    /\ ~Configured
    /\ phase[r] = "store"
    /\ \E early \in BOOLEAN : Exit(r, early)
    /\ UNCHANGED <<sidecar, server, outages, given>>

UsesPostgres(r) == phase[r] = "store" /\ Configured /\ ~InMemory

\* Mutant: a store that is connected is thought ready.
ConnectsOnly(r) ==
    /\ UsesPostgres(r)
    /\ database
    /\ Held(r) < PoolSize
    /\ Move(r, "store", "ready")
    /\ UNCHANGED <<tries, backoff, sidecar, server, outages, given>>

\* pool.get gives a client, which waits (for ever) while the pool has none.
Connects(r) ==
    /\ UsesPostgres(r)
    /\ database
    /\ Held(r) < PoolSize
    /\ Move(r, "store", "connected")
    /\ UNCHANGED <<tries, backoff, sidecar, server, outages, given>>

\* It could not connect.
MissesDatabase(r) ==
    /\ UsesPostgres(r)
    /\ ~database
    /\ Held(r) < PoolSize
    /\ TriesAgain(r) \/ GivesUp(r)

\* ensure_schema takes a client of its own and sends its batch.
Begins(r) ==
    /\ database
    /\ Held(r) < PoolSize
    /\ Move(r, "connected", "begun")
    /\ UNCHANGED <<tries, backoff, sidecar, server, outages, given>>

\* Mutant: the transaction takes no lock.
Unlocked(r) == TRUE

LockFree(r) == lock = NoReplica

\* pg_advisory_xact_lock is granted; CREATE TABLE IF NOT EXISTS looks.
Locks(r) ==
    /\ LockFree(r)
    /\ Move(r, "begun", "locked")
    /\ lock' = r
    /\ seen' = [seen EXCEPT ![r] = table]
    /\ UNCHANGED <<tries, backoff, sidecar, database, table, outages, given>>

\* Mutant: the lock is the connection's, not the transaction's.
CommitsOnly(r) ==
    /\ Move(r, "locked", "ready")
    /\ table' = TRUE
    /\ UNCHANGED <<tries, backoff, sidecar, database, lock, seen, outages, given>>

\* COMMIT ends the transaction; both clients go back to the pool.
Commits(r) ==
    /\ Move(r, "locked", "ready")
    /\ table' = TRUE
    /\ lock' = NoReplica
    /\ UNCHANGED <<tries, backoff, sidecar, database, seen, outages, given>>

\* The schema's errors are not retried.
SchemaFails(r) ==
    /\ \/ phase[r] = "broken"
       \/ phase[r] = "connected" /\ ~database /\ Held(r) < PoolSize
    /\ \E early \in BOOLEAN : Exit(r, early)
    /\ UNCHANGED <<sidecar, server, outages, given>>

Listens(r) ==
    /\ Move(r, "ready", "serving")
    /\ UNCHANGED <<tries, backoff, sidecar, server, outages, given>>

ListenFails(r) ==
    /\ ~PortsAreFree
    /\ phase[r] = "ready"
    /\ \E early \in BOOLEAN : Exit(r, early)
    /\ UNCHANGED <<sidecar, server, outages, given>>

-----------------------------------------------------------------------------
(* What comes and goes.                                                     *)

Outage(kind) ==
    /\ kind \in given
    /\ outages < MaxOutages
    /\ outages = 0 \/ "again" \in given
    /\ outages' = outages + 1

\* The process dies.  The server may yet finish the batch of a dead process,
\* or undo it; which one is settled here.
Crash(r) ==
    /\ Outage("crash")
    /\ phase[r] \in Running
    /\ \E early \in BOOLEAN : Exit(r, early)
    /\ table' \in {table, table \/ phase[r] = "locked"}
    /\ lock' = IF lock = r THEN NoReplica ELSE lock
    /\ UNCHANGED <<sidecar, database, seen, given>>

SidecarDown(r) ==
    /\ Outage("sidecar")
    /\ sidecar[r]
    /\ sidecar' = [sidecar EXCEPT ![r] = FALSE]
    /\ UNCHANGED <<process, server, given>>

SidecarUp(r) ==
    /\ ~sidecar[r]
    /\ sidecar' = [sidecar EXCEPT ![r] = TRUE]
    /\ UNCHANGED <<process, server, outages, given>>

\* Its transactions are undone, but one at its COMMIT may be in the log; the
\* processes wait for answers that do not come.
DatabaseDown ==
    /\ Outage("database")
    /\ database
    /\ database' = FALSE
    /\ table' \in {table, table \/ \E r \in Replicas : phase[r] = "locked"}
    /\ lock' = NoReplica
    /\ phase' = [r \in Replicas |-> IF phase[r] \in {"begun", "locked"}
                                    THEN "broken" ELSE phase[r]]
    /\ UNCHANGED <<tries, backoff, sidecar, seen, given>>

DatabaseUp ==
    /\ ~database
    /\ database' = TRUE
    /\ UNCHANGED <<process, sidecar, table, lock, seen, outages, given>>

\* A step of the process's own.
Boots(r) ==
    \/ ReachesSidecar(r) \/ MissesSidecar(r)
    \/ BuildsMemory(r) \/ Misconfigured(r)
    \/ Connects(r) \/ MissesDatabase(r) \/ Begins(r) \/ Locks(r) \/ Commits(r)
    \/ SchemaFails(r) \/ Listens(r) \/ ListenFails(r)

BootNext ==
    \/ \E r \in Replicas : Start(r) \/ Boots(r) \/ Crash(r)
    \/ \E r \in Replicas : SidecarDown(r) \/ SidecarUp(r)
    \/ DatabaseDown \/ DatabaseUp

BootSpec == BootInit /\ [][BootNext]_bootVars

-----------------------------------------------------------------------------
(* Properties.                                                              *)

\* The values each piece of a start's state may take.
BootTypeOK ==
    /\ phase \in [Replicas -> Running \union {"down", "fatal"}]
    /\ tries \in [Replicas -> 0 .. Attempts - 1]
    /\ backoff \in [Replicas -> 0 .. StartRetries]
    /\ sidecar \in [Replicas -> BOOLEAN]
    /\ database \in BOOLEAN
    /\ table \in BOOLEAN
    /\ lock \in Replicas \union {NoReplica}
    /\ seen \in [Replicas -> BOOLEAN]
    /\ outages \in 0 .. MaxOutages
    /\ given \in Cases

\* "concurrent processes ... cannot race each other into a duplicate pg_type
\* entry" (postgres.rs:119-123): when a schema transaction goes on to make
\* the table it found missing, it is missing still, whoever died, restarted
\* or lost its connection meanwhile.
LookStaysTrue ==
    \A r \in Replicas : phase[r] = "locked" => seen[r] = table

\* "useful at boot when postgres is still starting up" (postgres.rs:83):
\* waiting in vain for the sidecar or the database never uses up the
\* supervisor's patience.  A well configured replica is abandoned only after
\* more than StartRetries outages hit it in the middle of a start.
FatalIsEarned ==
    Configured /\ PortsAreFree =>
        \A r \in Replicas : phase[r] = "fatal" => outages > StartRetries

\* Once sidecars and database stay up, every well configured replica comes to
\* serve and goes on serving, however its earlier starts ended (serve,
\* api:469-500); or it was abandoned.
Serves ==
    Configured /\ PortsAreFree =>
        \A r \in Replicas : <>[](phase[r] = "serving") \/ <>[](phase[r] = "fatal")

\* "`connect_with_retry` loops up to 10x x 500 ms while postgres is still
\* booting" (docs/task/M9_1_TASK_REPORT.md:72): a start ends.
StartEnds ==
    \A r \in Replicas : phase[r] \in Starting ~> phase[r] \notin Starting

=============================================================================
