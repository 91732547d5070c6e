------------------------- MODULE SessionStoreProofs -------------------------
(***************************************************************************)
(* What holds of SessionStore and of the starts in Boot for any replicas,   *)
(* calls and sessions, any pool and any number of attempts and outages.     *)
(* Starts and calls meet in two places only: a replica's process dies with  *)
(* its calls, and the database goes down under both.  So whatever the calls *)
(* do, the state of Boot moves by BootNext (BootMoves), and what is proved  *)
(* of BootNext holds of the whole.                                         *)
(***************************************************************************)
EXTENDS SessionStore, TLAPS

\* A step of the system is a step of the starts, or leaves them alone.
LEMMA BootMoves == [Next]_vars => [BootNext]_bootVars
<1> SUFFICES ASSUME [Next]_vars PROVE BootNext \/ UNCHANGED bootVars
  OBVIOUS
<1>1. CASE \E r \in Replicas : Startup(r) \/ Around(r) \/ ProcessDies(r)
  BY <1>1 DEF Startup, Around, ProcessDies, BootNext
<1>2. CASE DatabaseFails \/ DatabaseReturns
  BY <1>2 DEF DatabaseFails, DatabaseReturns, BootNext
<1>3. CASE \E c \in Calls : Ask(c) \/ Get(c) \/ Server(c) \/ Finish(c) \/ CallerGone(c)
  BY <1>3 DEF Ask, Get, Send, GetFails, Lookup, Server, Execute, Refuse, Finish,
              Answer, StatementFails, CallerGone
<1>4. CASE UNCHANGED vars
  BY <1>4 DEF vars
<1> QED BY <1>1, <1>2, <1>3, <1>4 DEF Next

\* The circumstances and the stores' addresses are given once.
LEMMA GivenStays == [BootNext]_bootVars => given' = given
BY DEF BootNext, bootVars, process, server, Start, Boots, Crash, SidecarDown, SidecarUp,
       DatabaseDown, DatabaseUp, ReachesSidecar, MissesSidecar, BuildsMemory,
       Misconfigured, Connects, MissesDatabase, Begins, Locks, Commits, SchemaFails,
       Listens, ListenFails, TriesAgain, GivesUp, Outage

\* What an exit makes of a process.
LEMMA ExitIs ==
    ASSUME BootTypeOK, NEW r \in Replicas, NEW early \in BOOLEAN, Exit(r, early)
    PROVE  /\ phase' \in [Replicas -> Running \union {"down", "fatal"}]
           /\ phase'[r] \in {"down", "fatal"}
           /\ \A q \in Replicas : q # r => phase'[q] = phase[q] /\ backoff'[q] = backoff[q]
           /\ backoff' \in [Replicas -> 0 .. StartRetries]
           /\ backoff'[r] <= backoff[r] + 1
           /\ ~early => backoff'[r] = 0 /\ phase'[r] = "down"
           /\ phase'[r] = "fatal" => backoff[r] = StartRetries
           /\ tries' \in [Replicas -> 0 .. Attempts - 1]
BY BootAssumption DEF Exit, BootTypeOK

-----------------------------------------------------------------------------
(* Starts.                                                                  *)

LEMMA BootTypeStep == BootTypeOK /\ [BootNext]_bootVars => BootTypeOK'
<1> SUFFICES ASSUME BootTypeOK, [BootNext]_bootVars PROVE BootTypeOK'
  OBVIOUS
<1> USE BootAssumption
<1>1. ASSUME NEW r \in Replicas,
             Start(r) \/ ReachesSidecar(r) \/ BuildsMemory(r) \/ Connects(r)
               \/ Begins(r) \/ Listens(r)
      PROVE  BootTypeOK'
  <2>1. \E p \in Running : phase' = [phase EXCEPT ![r] = p]
    BY <1>1 DEF Start, ReachesSidecar, BuildsMemory, Connects, Begins, Listens, Move,
                Running, Starting
  <2>2. tries' = tries \/ tries' = [tries EXCEPT ![r] = 0]
    BY <1>1 DEF Start, ReachesSidecar, BuildsMemory, Connects, Begins, Listens
  <2>3. UNCHANGED <<backoff, sidecar, server, outages, given>>
    BY <1>1 DEF Start, ReachesSidecar, BuildsMemory, Connects, Begins, Listens
  <2> QED BY <2>1, <2>2, <2>3 DEF BootTypeOK, server
<1>2. ASSUME NEW r \in Replicas, Locks(r) \/ Commits(r) PROVE BootTypeOK'
  <2>1. \E p \in Running : phase' = [phase EXCEPT ![r] = p]
    BY <1>2 DEF Locks, Commits, Move, Running, Starting
  <2>2. /\ UNCHANGED <<tries, backoff, sidecar, database, outages, given>>
        /\ table' \in BOOLEAN /\ lock' \in Replicas \union {NoReplica}
        /\ seen' \in [Replicas -> BOOLEAN]
    BY <1>2 DEF Locks, Commits, BootTypeOK
  <2>3. phase' \in [Replicas -> Running \union {"down", "fatal"}]
    BY <2>1 DEF BootTypeOK
  <2> QED BY <2>2, <2>3, Zenon DEF BootTypeOK
<1>3. ASSUME NEW r \in Replicas, TriesAgain(r) PROVE BootTypeOK'
  BY <1>3 DEF TriesAgain, BootTypeOK, server
<1>4. ASSUME NEW r \in Replicas, NEW early \in BOOLEAN, Exit(r, early),
             UNCHANGED <<sidecar, server, outages, given>>
      PROVE  BootTypeOK'
  BY <1>4, ExitIs DEF BootTypeOK, server
<1>5. ASSUME NEW r \in Replicas,
             MissesSidecar(r) \/ Misconfigured(r) \/ MissesDatabase(r)
               \/ SchemaFails(r) \/ ListenFails(r)
      PROVE  BootTypeOK'
  BY <1>5, <1>3, <1>4 DEF MissesSidecar, Misconfigured, MissesDatabase, SchemaFails,
                          ListenFails, GivesUp
<1>6. ASSUME NEW kind, Outage(kind) PROVE outages' \in 0 .. MaxOutages
  BY <1>6 DEF Outage, BootTypeOK
<1>7. ASSUME NEW r \in Replicas, Crash(r) PROVE BootTypeOK'
  <2>1. PICK early \in BOOLEAN : Exit(r, early)
    BY <1>7 DEF Crash
  <2>2. UNCHANGED <<sidecar, database, seen, given>>
    BY <1>7 DEF Crash
  <2>3. table' \in BOOLEAN
    BY <1>7 DEF Crash, BootTypeOK
  <2>4. lock' \in Replicas \union {NoReplica}
    BY <1>7 DEF Crash, BootTypeOK
  <2>5. outages' \in 0 .. MaxOutages
    BY <1>6, <1>7 DEF Crash
  <2>6. /\ phase' \in [Replicas -> Running \union {"down", "fatal"}]
        /\ backoff' \in [Replicas -> 0 .. StartRetries]
        /\ tries' \in [Replicas -> 0 .. Attempts - 1]
    BY <2>1, ExitIs
  <2> QED BY <2>2, <2>3, <2>4, <2>5, <2>6, Zenon DEF BootTypeOK
<1>8. ASSUME NEW r \in Replicas, SidecarDown(r) \/ SidecarUp(r) PROVE BootTypeOK'
  <2>1. outages' \in 0 .. MaxOutages
    BY <1>6, <1>8 DEF SidecarDown, SidecarUp, BootTypeOK
  <2>2. sidecar' \in [Replicas -> BOOLEAN]
    BY <1>8 DEF SidecarDown, SidecarUp, BootTypeOK
  <2>3. UNCHANGED <<phase, tries, backoff, database, table, lock, seen, given>>
    BY <1>8 DEF SidecarDown, SidecarUp, process, server
  <2> QED BY <2>1, <2>2, <2>3, Zenon DEF BootTypeOK
<1>11. CASE DatabaseDown
  <2>1. outages' \in 0 .. MaxOutages
    BY <1>6, <1>11 DEF DatabaseDown
  <2>2. phase' \in [Replicas -> Running \union {"down", "fatal"}]
    BY <1>11 DEF DatabaseDown, BootTypeOK, Running, Starting
  <2>3. table' \in BOOLEAN
    BY <1>11 DEF DatabaseDown, BootTypeOK
  <2>4. UNCHANGED <<tries, backoff, sidecar, seen, given>>
    BY <1>11 DEF DatabaseDown
  <2>5. database' \in BOOLEAN /\ lock' \in Replicas \union {NoReplica}
    BY <1>11 DEF DatabaseDown
  <2> QED BY <2>1, <2>2, <2>3, <2>4, <2>5, Zenon DEF BootTypeOK
<1>9. CASE DatabaseUp
  BY <1>9 DEF DatabaseUp, BootTypeOK, process
<1>10. CASE UNCHANGED bootVars
  BY <1>10 DEF bootVars, BootTypeOK, process, server
<1> QED
  BY <1>1, <1>2, <1>5, <1>7, <1>8, <1>9, <1>10, <1>11 DEF BootNext, Boots

\* Only the holder of the lock is in its transaction, and nobody makes the
\* table while it is.
LockInv == \A r \in Replicas : phase[r] = "locked" => lock = r /\ seen[r] = table

\* A replica with a store on Postgres has seen the table made.
TableInv == \A r \in Replicas :
    phase[r] \in {"ready", "serving"} /\ ~InMemory => table

\* An outage cut this start off in the middle of the schema.
CutOff(r) == phase[r] = "broken" \/ (phase[r] = "connected" /\ ~database)

\* Each failed start of a well configured replica was paid for by an outage.
BackoffInv == Configured /\ PortsAreFree =>
    \A r \in Replicas : /\ backoff[r] <= outages
                        /\ CutOff(r) => backoff[r] < outages
                        /\ phase[r] = "fatal" => StartRetries < outages

LEMMA LockStep == BootTypeOK /\ LockInv /\ [BootNext]_bootVars => LockInv'
<1> SUFFICES ASSUME BootTypeOK, LockInv, [BootNext]_bootVars PROVE LockInv'
  OBVIOUS
<1> USE BootAssumption
<1>1. ASSUME NEW r \in Replicas,
             Start(r) \/ ReachesSidecar(r) \/ BuildsMemory(r) \/ Connects(r)
               \/ Begins(r) \/ Listens(r)
      PROVE  LockInv'
  <2>1. \E p \in Running \ {"locked"} : phase' = [phase EXCEPT ![r] = p]
    BY <1>1 DEF Start, ReachesSidecar, BuildsMemory, Connects, Begins, Listens, Move,
                Running, Starting
  <2>2. UNCHANGED <<lock, seen, table>>
    BY <1>1 DEF Start, ReachesSidecar, BuildsMemory, Connects, Begins, Listens, server
  <2> QED BY <2>1, <2>2 DEF LockInv, BootTypeOK
<1>2. ASSUME NEW r \in Replicas, Locks(r) PROVE LockInv'
  BY <1>2 DEF Locks, LockFree, Move, LockInv, BootTypeOK
<1>3. ASSUME NEW r \in Replicas, Commits(r) PROVE LockInv'
  BY <1>3 DEF Commits, Move, LockInv, BootTypeOK
<1>4. ASSUME NEW r \in Replicas, TriesAgain(r) PROVE LockInv'
  BY <1>4 DEF TriesAgain, LockInv, server
<1>5. ASSUME NEW r \in Replicas, NEW early \in BOOLEAN, Exit(r, early),
             UNCHANGED <<sidecar, server, outages, given>>
      PROVE  LockInv'
  BY <1>5, ExitIs DEF LockInv, server
<1>6. ASSUME NEW r \in Replicas,
             MissesSidecar(r) \/ Misconfigured(r) \/ MissesDatabase(r)
               \/ SchemaFails(r) \/ ListenFails(r)
      PROVE  LockInv'
  BY <1>6, <1>4, <1>5 DEF MissesSidecar, Misconfigured, MissesDatabase, SchemaFails,
                          ListenFails, GivesUp
<1>7. ASSUME NEW r \in Replicas, Crash(r) PROVE LockInv'
  <2>1. PICK early \in BOOLEAN : Exit(r, early)
    BY <1>7 DEF Crash
  <2>2. /\ phase'[r] # "locked"
        /\ \A q \in Replicas : q # r => phase'[q] = phase[q]
    BY <2>1, ExitIs
  <2>3. /\ table' \in {table, table \/ phase[r] = "locked"}
        /\ lock' = IF lock = r THEN NoReplica ELSE lock
        /\ seen' = seen
    BY <1>7 DEF Crash
  <2>4. ASSUME NEW q \in Replicas, phase'[q] = "locked"
        PROVE  lock' = q /\ seen'[q] = table'
    <3>1. q # r /\ phase[q] = "locked" /\ lock = q
      BY <2>2, <2>4 DEF LockInv
    <3>2. phase[r] # "locked"
      BY <3>1 DEF LockInv
    <3>3. table' = table
      BY <2>3, <3>2 DEF BootTypeOK
    <3> QED BY <2>3, <3>1, <3>3 DEF LockInv
  <2> QED BY <2>4 DEF LockInv
<1>8. ASSUME NEW r \in Replicas, SidecarDown(r) \/ SidecarUp(r) PROVE LockInv'
  BY <1>8 DEF SidecarDown, SidecarUp, LockInv, process, server
<1>9. CASE DatabaseDown
  BY <1>9 DEF DatabaseDown, LockInv
<1>10. CASE DatabaseUp
  BY <1>10 DEF DatabaseUp, LockInv, process
<1>11. CASE UNCHANGED bootVars
  BY <1>11 DEF bootVars, LockInv, process, server
<1> QED
  BY <1>1, <1>2, <1>3, <1>6, <1>7, <1>8, <1>9, <1>10, <1>11 DEF BootNext, Boots

\* The table, once made, stays, and a replica is ready only when it is there.
LEMMA TableStep == BootTypeOK /\ TableInv /\ [BootNext]_bootVars => TableInv'
<1> SUFFICES ASSUME BootTypeOK, TableInv, [BootNext]_bootVars PROVE TableInv'
  OBVIOUS
<1> USE BootAssumption DEF InMemory
<1>0. given' = given
  BY GivenStays
<1>1. ASSUME NEW r \in Replicas,
             Start(r) \/ ReachesSidecar(r) \/ BuildsMemory(r) \/ Connects(r)
               \/ Begins(r) \/ Locks(r) \/ Commits(r) \/ Listens(r)
      PROVE  TableInv'
  <2>1. PICK p : phase' = [phase EXCEPT ![r] = p]
    BY <1>1 DEF Start, ReachesSidecar, BuildsMemory, Connects, Begins, Locks, Commits,
                Listens, Move
  <2>2. table => table'
    BY <1>1 DEF Start, ReachesSidecar, BuildsMemory, Connects, Begins, Locks, Commits,
                Listens, server
  <2>3. p \in {"ready", "serving"} /\ ~InMemory => table'
    BY <1>1, <2>1, <2>2 DEF Start, ReachesSidecar, BuildsMemory, Connects, Begins,
                            Locks, Commits, Listens, Move, TableInv, BootTypeOK
  <2> QED BY <1>0, <2>1, <2>2, <2>3 DEF TableInv, BootTypeOK
<1>2. ASSUME NEW r \in Replicas, NEW early \in BOOLEAN, Exit(r, early), table => table'
      PROVE  TableInv'
  BY <1>0, <1>2, ExitIs DEF TableInv
<1>3. ASSUME NEW r \in Replicas,
             MissesSidecar(r) \/ Misconfigured(r) \/ MissesDatabase(r)
               \/ SchemaFails(r) \/ ListenFails(r)
      PROVE  TableInv'
  <2>1. table' = table
    BY <1>3 DEF MissesSidecar, Misconfigured, MissesDatabase, SchemaFails, ListenFails,
                GivesUp, TriesAgain, server
  <2>2. phase' = phase \/ \E early \in BOOLEAN : Exit(r, early)
    BY <1>3 DEF MissesSidecar, Misconfigured, MissesDatabase, SchemaFails, ListenFails,
                GivesUp, TriesAgain
  <2> QED BY <1>0, <1>2, <2>1, <2>2 DEF TableInv
<1>4. ASSUME NEW r \in Replicas, Crash(r) PROVE TableInv'
  <2>1. table => table'
    BY <1>4 DEF Crash
  <2> QED BY <1>2, <1>4, <2>1 DEF Crash
<1>5. CASE DatabaseDown
  <2>1. table => table'
    BY <1>5 DEF DatabaseDown
  <2>2. \A r \in Replicas : phase'[r] = phase[r] \/ phase'[r] = "broken"
    BY <1>5 DEF DatabaseDown
  <2> QED BY <1>0, <2>1, <2>2 DEF TableInv
<1>6. CASE \/ \E r \in Replicas : SidecarDown(r) \/ SidecarUp(r)
           \/ DatabaseUp \/ UNCHANGED bootVars
  <2>1. phase' = phase /\ table' = table
    BY <1>6 DEF SidecarDown, SidecarUp, DatabaseUp, bootVars, process, server
  <2> QED BY <1>0, <2>1 DEF TableInv
<1> QED BY <1>1, <1>3, <1>4, <1>5, <1>6 DEF BootNext, Boots

\* Exits that count against a replica are paid for: the start was cut off by
\* an outage, or its process was one.
LEMMA BackoffStep == BootTypeOK /\ BackoffInv /\ [BootNext]_bootVars => BackoffInv'
<1> SUFFICES ASSUME BootTypeOK, BackoffInv, [BootNext]_bootVars,
                    Configured, PortsAreFree
             PROVE  BackoffInv'
  BY GivenStays DEF BackoffInv, Configured, PortsAreFree
<1> USE BootAssumption
<1> DEFINE Fine(q) == /\ backoff[q] <= outages
                      /\ CutOff(q) => backoff[q] < outages
                      /\ phase[q] = "fatal" => StartRetries < outages
           Fine1(q) == /\ backoff'[q] <= outages'
                       /\ CutOff(q)' => backoff'[q] < outages'
                       /\ phase'[q] = "fatal" => StartRetries < outages'
<1>0. \A q \in Replicas : Fine(q)
  BY DEF BackoffInv
<1>a. ASSUME \A q \in Replicas : Fine1(q) PROVE BackoffInv'
  BY <1>a DEF BackoffInv
<1>b. ASSUME NEW r \in Replicas, NEW q \in Replicas, phase'[q] = phase[q],
             backoff'[q] = backoff[q], outages' = outages,
             database' = database \/ database' = TRUE
      PROVE  Fine1(q)
  BY <1>0, <1>b DEF CutOff
<1>1. ASSUME NEW r \in Replicas,
             Start(r) \/ ReachesSidecar(r) \/ BuildsMemory(r) \/ Connects(r)
               \/ Begins(r) \/ Locks(r) \/ Commits(r) \/ Listens(r)
      PROVE  BackoffInv'
  <2>1. /\ \A q \in Replicas : q # r => phase'[q] = phase[q]
        /\ phase'[r] \notin {"broken", "fatal"}
        /\ phase'[r] = "connected" => database
    BY <1>1 DEF Start, ReachesSidecar, BuildsMemory, Connects, Begins, Locks, Commits,
                Listens, Move, BootTypeOK
  <2>2. UNCHANGED <<backoff, database, outages>>
    BY <1>1 DEF Start, ReachesSidecar, BuildsMemory, Connects, Begins, Locks, Commits,
                Listens, server
  <2>3. Fine1(r)
    BY <1>0, <2>1, <2>2 DEF CutOff
  <2> QED BY <1>a, <1>b, <2>1, <2>2, <2>3
<1>2. ASSUME NEW r \in Replicas, TriesAgain(r) PROVE BackoffInv'
  <2>1. UNCHANGED <<phase, backoff, database, outages>>
    BY <1>2 DEF TriesAgain, server
  <2> QED BY <1>a, <1>b, <2>1
<1>3. ASSUME NEW r \in Replicas, NEW early \in BOOLEAN, Exit(r, early),
             early => backoff[r] < outages, UNCHANGED <<database, outages>>
      PROVE  BackoffInv'
  <2>1. /\ \A q \in Replicas : q # r => phase'[q] = phase[q] /\ backoff'[q] = backoff[q]
        /\ phase'[r] \in {"down", "fatal"} /\ backoff'[r] <= backoff[r] + 1
        /\ ~early => backoff'[r] = 0 /\ phase'[r] = "down"
        /\ phase'[r] = "fatal" => backoff[r] = StartRetries
        /\ backoff'[r] \in Nat
    BY <1>3, ExitIs
  <2>2. backoff[r] \in Nat /\ outages \in Nat
    BY DEF BootTypeOK
  <2>3. Fine1(r)
    <3>1. CASE early
      BY <1>3, <2>1, <2>2, <3>1 DEF CutOff
    <3>2. CASE ~early
      BY <1>3, <2>1, <2>2, <3>2 DEF CutOff
    <3> QED BY <3>1, <3>2
  <2> QED BY <1>a, <1>b, <1>3, <2>1, <2>3
<1>4. ASSUME NEW r \in Replicas, GivesUp(r) PROVE BackoffInv'
  BY <1>3, <1>4 DEF GivesUp, server
<1>5. ASSUME NEW r \in Replicas, SchemaFails(r) PROVE BackoffInv'
  <2>1. CutOff(r)
    BY <1>5 DEF SchemaFails, CutOff
  <2>2. backoff[r] < outages
    BY <1>0, <2>1
  <2> QED BY <1>3, <1>5, <2>2 DEF SchemaFails, server
<1>6. ASSUME NEW r \in Replicas,
             MissesSidecar(r) \/ MissesDatabase(r) \/ Misconfigured(r) \/ ListenFails(r)
      PROVE  BackoffInv'
  BY <1>2, <1>4, <1>6 DEF MissesSidecar, MissesDatabase, Misconfigured, ListenFails
<1>7. ASSUME NEW r \in Replicas, Crash(r) PROVE BackoffInv'
  <2>1. PICK early \in BOOLEAN : Exit(r, early)
    BY <1>7 DEF Crash
  <2>2. outages' = outages + 1 /\ database' = database
    BY <1>7 DEF Crash, Outage
  <2>3. /\ \A q \in Replicas : q # r => phase'[q] = phase[q] /\ backoff'[q] = backoff[q]
        /\ phase'[r] \in {"down", "fatal"} /\ backoff'[r] <= backoff[r] + 1
        /\ phase'[r] = "fatal" => backoff[r] = StartRetries
        /\ backoff'[r] \in Nat
    BY <2>1, ExitIs
  <2>4. outages \in Nat /\ \A q \in Replicas : backoff[q] \in Nat
    BY DEF BootTypeOK
  <2>5. Fine1(r)
    BY <1>0, <2>2, <2>3, <2>4 DEF CutOff
  <2>6. ASSUME NEW q \in Replicas, q # r PROVE Fine1(q)
    BY <1>0, <2>2, <2>3, <2>4, <2>6 DEF CutOff
  <2> QED BY <1>a, <2>5, <2>6
<1>8. ASSUME NEW r \in Replicas, SidecarDown(r) PROVE BackoffInv'
  <2>1. UNCHANGED <<phase, backoff, database>> /\ outages' = outages + 1
    BY <1>8 DEF SidecarDown, Outage, process, server
  <2>2. outages \in Nat /\ \A q \in Replicas : backoff[q] \in Nat
    BY DEF BootTypeOK
  <2>3. ASSUME NEW q \in Replicas PROVE Fine1(q)
    BY <1>0, <2>1, <2>2 DEF CutOff
  <2> QED BY <1>a, <2>3
<1>9. CASE DatabaseDown
  <2>1. /\ backoff' = backoff /\ outages' = outages + 1
        /\ \A q \in Replicas : phase'[q] = "fatal" => phase[q] = "fatal"
    BY <1>9 DEF DatabaseDown, Outage
  <2>2. outages \in Nat /\ \A q \in Replicas : backoff[q] \in Nat
    BY DEF BootTypeOK
  <2>3. ASSUME NEW q \in Replicas PROVE Fine1(q)
    BY <1>0, <2>1, <2>2
  <2> QED BY <1>a, <2>3
<1>10. CASE (\E r \in Replicas : SidecarUp(r)) \/ DatabaseUp \/ UNCHANGED bootVars
  <2>1. /\ UNCHANGED <<phase, backoff, outages>>
        /\ database' = database \/ database' = TRUE
    BY <1>10 DEF SidecarUp, DatabaseUp, bootVars, process, server
  <2> QED BY <1>a, <1>b, <2>1
<1> QED
  BY <1>1, <1>5, <1>6, <1>7, <1>8, <1>9, <1>10 DEF BootNext, Boots

BootInv == BootTypeOK /\ LockInv /\ TableInv /\ BackoffInv

LEMMA BootHolds == Spec => []BootInv
<1>1. Init => BootInv
  BY BootAssumption
     DEF Init, BootInit, BootInv, BootTypeOK, LockInv, TableInv, BackoffInv, CutOff
<1>2. BootInv /\ [Next]_vars => BootInv'
  BY BootMoves, BootTypeStep, LockStep, TableStep, BackoffStep DEF BootInv
<1> QED BY <1>1, <1>2, PTL DEF Spec

\* The whole system, seen through the starts, is Boot.
THEOREM StartsAsAlone == Spec => BootSpec
<1>1. Init => BootInit
  BY DEF Init
<1> QED BY <1>1, BootMoves, PTL DEF Spec, BootSpec

\* Under its lock a schema transaction finds the table as it saw it, for any
\* number of replicas, deaths and restarts.
THEOREM LookStaysTrueHolds == Spec => []LookStaysTrue
<1>1. BootInv => LookStaysTrue
  BY DEF BootInv, LockInv, LookStaysTrue
<1> QED BY <1>1, BootHolds, PTL

\* The supervisor's patience is used up by outages in the middle of starts
\* only, for any number of attempts and retries.
THEOREM FatalIsEarnedHolds == Spec => []FatalIsEarned
<1>1. BootInv => FatalIsEarned
  BY BootAssumption DEF BootInv, BackoffInv, FatalIsEarned, BootTypeOK
<1> QED BY <1>1, BootHolds, PTL

-----------------------------------------------------------------------------
(* Calls.                                                                   *)

Asked == [op : Operations, id : Ids, in : Stores]

\* What is known of a call at each stage; a waiting one is on a replica that
\* serves, since the death of a process takes its calls along.
CallInv ==
    \A c \in Calls :
        /\ stage[c] = "idle" <=> asked[c] = NoCall
        /\ stage[c] \in {"idle", "waits"} => stmt[c] = "none"
        /\ stage[c] = "waits" => phase[at[c]] = "serving"
        /\ stmt[c] = "sent" => ~InMemory /\ table

StoreTypeOK ==
    /\ asked \in [Calls -> Asked \union {NoCall}]
    /\ at \in [Calls -> Replicas]
    /\ stage \in [Calls -> {"idle", "ok", "failed"} \union Open]
    /\ stmt \in [Calls -> {"none", "sent", "done", "undone"}]
    /\ found \in [Calls -> SUBSET Calls]
    /\ rows \in [Stores -> [Ids -> Calls \union {Absent}]]

\* What a request reads and leaves, of a map of records.
LEMMA RequestTypes ==
    ASSUME NEW c \in Calls, NEW q \in Asked,
           NEW m \in [Ids -> Calls \union {Absent}]
    PROVE  /\ Read(q, m) \in SUBSET Calls
           /\ Written(c, q, m) \in [Ids -> Calls \union {Absent}]
<1>1. Read(q, m) \in SUBSET Calls
  BY DEF Read, Record, Asked
<1>2. Written(c, q, m) \in [Ids -> Calls \union {Absent}]
  BY DEF Written, Asked
<1> QED BY <1>1, <1>2

LEMMA StoreTypeStep ==
    StoreTypeOK /\ BootTypeOK /\ CallInv /\ [Next]_vars => StoreTypeOK'
<1> SUFFICES ASSUME StoreTypeOK, BootTypeOK, CallInv, [Next]_vars PROVE StoreTypeOK'
  OBVIOUS
<1> USE StoreAssumption DEF Open
<1>1. ASSUME NEW c \in Calls, Ask(c) PROVE StoreTypeOK'
  <2>1. PICK op \in Operations, id \in Ids :
            asked' = [asked EXCEPT ![c] = [op |-> op, id |-> id, in |-> StoreOf(at[c])]]
    BY <1>1 DEF Ask
  <2>2. StoreOf(at[c]) \in Stores
    BY DEF StoreOf, Stores, StoreTypeOK
  <2>3. [op |-> op, id |-> id, in |-> StoreOf(at[c])] \in Asked
    BY <2>2 DEF Asked
  <2>4. asked' \in [Calls -> Asked \union {NoCall}]
    BY <2>1, <2>3 DEF StoreTypeOK
  <2> QED BY <1>1, <2>4 DEF Ask, Step, StoreTypeOK
<1>2. ASSUME NEW c \in Calls,
             Send(c) \/ GetFails(c) \/ Refuse(c) \/ Answer(c) \/ StatementFails(c)
               \/ CallerGone(c)
      PROVE  StoreTypeOK'
  BY <1>2 DEF Send, GetFails, Refuse, Answer, StatementFails, CallerGone, Step,
              StoreTypeOK
<1>3. ASSUME NEW c \in Calls, Apply(c), asked[c] # NoCall,
             stage' \in [Calls -> {"idle", "ok", "failed"} \union Open],
             UNCHANGED <<asked, at>>
      PROVE  StoreTypeOK'
  <2> DEFINE q == asked[c]
  <2>1. q \in Asked /\ q.in \in Stores
    BY <1>3 DEF StoreTypeOK, Asked
  <2>2. rows[q.in] \in [Ids -> Calls \union {Absent}]
    BY <2>1 DEF StoreTypeOK
  <2>3. Read(q, rows[q.in]) \in SUBSET Calls
    BY <2>1, <2>2, RequestTypes
  <2>4. Written(c, q, rows[q.in]) \in [Ids -> Calls \union {Absent}]
    BY <2>1, <2>2, RequestTypes
  <2>5. /\ found' = [found EXCEPT ![c] = Read(q, rows[q.in])]
        /\ rows' = [rows EXCEPT ![q.in] = Written(c, q, rows[q.in])]
        /\ stmt' = [stmt EXCEPT ![c] = "done"]
    BY <1>3, <2>1 DEF Apply, StoreTypeOK
  <2> HIDE DEF q
  <2>6. found' \in [Calls -> SUBSET Calls]
    BY <2>3, <2>5 DEF StoreTypeOK
  <2>7. rows' \in [Stores -> [Ids -> Calls \union {Absent}]]
    BY <2>1, <2>4, <2>5 DEF StoreTypeOK
  <2> QED BY <1>3, <2>5, <2>6, <2>7 DEF StoreTypeOK
<1>4. ASSUME NEW c \in Calls, Lookup(c) \/ Execute(c) PROVE StoreTypeOK'
  <2>1. Apply(c) /\ UNCHANGED <<asked, at>>
    BY <1>4 DEF Lookup, Execute
  <2>2. asked[c] # NoCall
    BY <1>4 DEF Lookup, Execute, Step, CallInv
  <2>3. stage' \in [Calls -> {"idle", "ok", "failed"} \union Open]
    BY <1>4 DEF Lookup, Execute, Step, StoreTypeOK
  <2> QED BY <1>3, <2>1, <2>2, <2>3
<1>5. ASSUME NEW r \in Replicas, ProcessDies(r) PROVE StoreTypeOK'
  <2>1. rows' \in [Stores -> [Ids -> Calls \union {Absent}]]
    BY <1>5 DEF ProcessDies, Empty, StoreTypeOK
  <2>2. stage' \in [Calls -> {"idle", "ok", "failed"} \union Open]
    BY <1>5 DEF ProcessDies, StoreTypeOK
  <2> QED BY <1>5, <2>1, <2>2 DEF ProcessDies, StoreTypeOK
<1>6. CASE DatabaseFails
  BY <1>6 DEF DatabaseFails, StoreTypeOK
<1>7. CASE \/ \E r \in Replicas : Startup(r) \/ Around(r)
           \/ DatabaseReturns \/ UNCHANGED vars
  BY <1>7 DEF Startup, Around, DatabaseReturns, vars, callVars, StoreTypeOK
<1> QED
  BY <1>1, <1>2, <1>4, <1>5, <1>6, <1>7 DEF Next, Get, Server, Finish

\* A replica that serves goes on serving until its process dies.
LEMMA ServingStays ==
    ASSUME BootTypeOK, NEW r \in Replicas,
           \/ \E q \in Replicas : Startup(q) \/ Around(q) \/ (ProcessDies(q) /\ q # r)
           \/ DatabaseFails \/ DatabaseReturns,
           phase[r] = "serving"
    PROVE  phase'[r] = "serving"
<1>1. ASSUME NEW q \in Replicas, Startup(q) PROVE phase'[r] = "serving"
  <2>1. q = r => FALSE
    BY <1>1 DEF Startup, Start, Boots, ReachesSidecar, MissesSidecar, BuildsMemory,
                Misconfigured, Connects, MissesDatabase, UsesPostgres, Begins, Locks,
                Commits, SchemaFails, Listens, ListenFails, Move
  <2>2. \/ \E p : phase' = [phase EXCEPT ![q] = p]
        \/ phase' = phase
    BY <1>1 DEF Startup, Start, Boots, ReachesSidecar, MissesSidecar, BuildsMemory,
                Misconfigured, Connects, MissesDatabase, Begins, Locks, Commits,
                SchemaFails, Listens, ListenFails, Move, TriesAgain, GivesUp, Exit
  <2> QED BY <2>1, <2>2 DEF BootTypeOK
<1>2. ASSUME NEW q \in Replicas, ProcessDies(q), q # r PROVE phase'[r] = "serving"
  BY <1>2 DEF ProcessDies, Crash, Exit, BootTypeOK
<1>3. ASSUME NEW q \in Replicas, Around(q) PROVE phase'[r] = "serving"
  BY <1>3 DEF Around, SidecarDown, SidecarUp, process
<1>4. CASE DatabaseFails \/ DatabaseReturns
  BY <1>4 DEF DatabaseFails, DatabaseDown, DatabaseReturns, DatabaseUp, process, BootTypeOK
<1> QED BY <1>1, <1>2, <1>3, <1>4

\* The table, once made, stays.
LEMMA TableStays == [BootNext]_bootVars => (table => table')
BY DEF BootNext, bootVars, process, server, Start, Boots, Crash, SidecarDown, SidecarUp,
       DatabaseDown, DatabaseUp, ReachesSidecar, MissesSidecar, BuildsMemory,
       Misconfigured, Connects, MissesDatabase, Begins, Locks, Commits, SchemaFails,
       Listens, ListenFails, TriesAgain, GivesUp

LEMMA CallStep ==
    StoreTypeOK /\ BootInv /\ CallInv /\ [Next]_vars => CallInv'
<1> SUFFICES ASSUME StoreTypeOK, BootInv, CallInv, [Next]_vars PROVE CallInv'
  OBVIOUS
<1> USE StoreAssumption DEF Open
<1>1. InMemory' = InMemory /\ (table => table')
  BY BootMoves, GivenStays, TableStays DEF InMemory
<1>2. BootTypeOK
  BY DEF BootInv
<1>3. ASSUME NEW c \in Calls, Ask(c) PROVE CallInv'
  <2>1. PICK op \in Operations, id \in Ids :
            asked' = [asked EXCEPT ![c] = [op |-> op, id |-> id, in |-> StoreOf(at[c])]]
    BY <1>3 DEF Ask
  <2>2. StoreOf(at[c]) \in Stores
    BY DEF StoreOf, Stores, StoreTypeOK
  <2>3. [op |-> op, id |-> id, in |-> StoreOf(at[c])] # NoCall
    BY <2>2
  <2>4. /\ phase[at[c]] = "serving" /\ stage[c] = "idle"
        /\ stage' = [stage EXCEPT ![c] = "waits"]
        /\ UNCHANGED <<phase, table, at, stmt>>
    BY <1>3 DEF Ask, Step, bootVars, process, server
  <2> QED BY <1>1, <2>1, <2>3, <2>4 DEF CallInv, StoreTypeOK
<1>4. ASSUME NEW c \in Calls, Send(c) PROVE CallInv'
  <2>1. /\ stage[c] = "waits" /\ ~InMemory
        /\ stage' = [stage EXCEPT ![c] = "asked"]
        /\ stmt' = [stmt EXCEPT ![c] = "sent"]
        /\ UNCHANGED <<phase, table, asked, at>>
    BY <1>4 DEF Send, Step, bootVars, process, server
  <2>2. table
    BY <2>1 DEF CallInv, BootInv, TableInv, StoreTypeOK
  <2> QED BY <1>1, <2>1, <2>2 DEF CallInv, StoreTypeOK
<1>5. ASSUME NEW c \in Calls,
             GetFails(c) \/ Refuse(c) \/ Answer(c) \/ StatementFails(c)
               \/ CallerGone(c) \/ Lookup(c) \/ Execute(c)
      PROVE  CallInv'
  <2>1. UNCHANGED <<phase, table, asked, at>>
    BY <1>5 DEF GetFails, Refuse, Answer, StatementFails, CallerGone, Lookup, Execute,
                bootVars, process, server
  <2>2. /\ \A d \in Calls : d # c => stage'[d] = stage[d] /\ stmt'[d] = stmt[d]
        /\ stage[c] # "idle" /\ stage'[c] \notin {"idle", "waits"}
        /\ stmt'[c] = "sent" => stmt[c] = "sent"
    BY <1>5 DEF GetFails, Refuse, Answer, StatementFails, CallerGone, Lookup, Execute,
                Apply, Step, CallInv, StoreTypeOK
  <2> QED BY <1>1, <2>1, <2>2 DEF CallInv
<1>6. ASSUME NEW r \in Replicas, ProcessDies(r) PROVE CallInv'
  <2>1. /\ UNCHANGED <<asked, at, stmt>>
        /\ \A c \in Calls : stage'[c] = IF at[c] = r /\ stage[c] \in Open
                                        THEN "failed" ELSE stage[c]
    BY <1>6 DEF ProcessDies, StoreTypeOK
  <2>2. ASSUME NEW c \in Calls, stage'[c] = "waits" PROVE phase'[at[c]] = "serving"
    <3>1. stage[c] = "waits" /\ at[c] # r
      BY <2>1, <2>2
    <3> QED BY <1>2, <1>6, <3>1, ServingStays DEF CallInv, StoreTypeOK
  <2> QED BY <1>1, <2>1, <2>2 DEF CallInv
<1>7. CASE DatabaseFails
  <2>1. /\ UNCHANGED <<asked, at, stage>>
        /\ \A c \in Calls : stmt'[c] = IF stmt[c] = "sent" THEN "undone" ELSE stmt[c]
    BY <1>7 DEF DatabaseFails
  <2>2. \A c \in Calls : phase[at[c]] = "serving" => phase'[at[c]] = "serving"
    BY <1>2, <1>7, ServingStays DEF StoreTypeOK
  <2> QED BY <1>1, <2>1, <2>2 DEF CallInv
<1>8. CASE (\E r \in Replicas : Startup(r) \/ Around(r)) \/ DatabaseReturns
  <2>1. UNCHANGED <<asked, at, stage, stmt>>
    BY <1>8 DEF Startup, Around, DatabaseReturns, callVars
  <2>2. \A c \in Calls : phase[at[c]] = "serving" => phase'[at[c]] = "serving"
    BY <1>2, <1>8, ServingStays DEF StoreTypeOK
  <2> QED BY <1>1, <2>1, <2>2 DEF CallInv
<1>9. CASE UNCHANGED vars
  BY <1>1, <1>9 DEF vars, callVars, bootVars, process, server, CallInv
<1> QED
  BY <1>3, <1>4, <1>5, <1>6, <1>7, <1>8, <1>9 DEF Next, Get, Server, Finish

SystemInv == BootInv /\ StoreTypeOK /\ CallInv

LEMMA SystemHolds == Spec => []SystemInv
<1>1. Init => StoreTypeOK /\ CallInv
  BY StoreAssumption DEF Init, StoreTypeOK, CallInv, Empty
<1>2. SystemInv /\ [Next]_vars => (StoreTypeOK /\ CallInv)'
  BY StoreTypeStep, CallStep DEF SystemInv, BootInv
<1> QED BY <1>1, <1>2, BootHolds, PTL DEF Spec, SystemInv

\* The types, for any replicas, calls and sessions.
THEOREM TypeCorrect == Spec => []TypeOK
<1>1. SystemInv => TypeOK
  BY DEF SystemInv, BootInv, StoreTypeOK, TypeOK, Asked
<1> QED BY <1>1, SystemHolds, PTL

\* No statement reaches a database without the table.
THEOREM StatementsFindTableHolds == Spec => []StatementsFindTable
<1>1. SystemInv => StatementsFindTable
  BY DEF SystemInv, CallInv, StatementsFindTable
<1> QED BY <1>1, SystemHolds, PTL

-----------------------------------------------------------------------------
(* The contract.                                                            *)

Taken  == [c \in Calls |-> stmt[c] = "done"]
Result == [c \in Calls |-> IF stage[c] \in {"ok", "failed"} THEN stage[c] ELSE "none"]

\* The contract sees a call's request, whether its statement is done, what
\* that found, and the call's end.
LEMMA ContractUnchanged ==
    ASSUME UNCHANGED <<rows, asked, found>>, Taken' = Taken, Result' = Result
    PROVE  UNCHANGED Contract!contract
BY DEF Contract!contract, Taken, Result

\* What a request reads and leaves is what the contract says.
LEMMA SameEffect ==
    ASSUME NEW c, NEW q \in Asked, NEW m
    PROVE  /\ Contract!Found(q, m) = Read(q, m)
           /\ Contract!Effect(c, q, m) = Written(c, q, m)
<1>1. q.op \in Operations
  BY DEF Asked
<1>2. Contract!Found(q, m) = Read(q, m)
  BY <1>1 DEF Contract!Found, Contract!Record, Read, Record, Operations
<1>3. Contract!Effect(c, q, m) = Written(c, q, m)
  BY <1>1 DEF Contract!Effect, Written, Operations
<1> QED BY <1>2, <1>3

\* A statement takes effect where the contract's call does.
LEMMA ApplyTakes ==
    ASSUME StoreTypeOK, CallInv, NEW c \in Calls, Apply(c), asked[c] # NoCall,
           stmt[c] # "done", UNCHANGED asked, Result' = Result
    PROVE  Contract!Take(c)
<1> DEFINE q == asked[c]
<1>1. q \in Asked
  BY DEF StoreTypeOK
<1>2. /\ found' = [found EXCEPT ![c] = Contract!Found(q, rows[q.in])]
      /\ rows' = [rows EXCEPT ![q.in] = Contract!Effect(c, q, @)]
  BY <1>1, SameEffect DEF Apply
<1>3. ~Taken[c] /\ Taken' = [Taken EXCEPT ![c] = TRUE]
  BY DEF Taken, Apply, StoreTypeOK
<1> QED BY <1>2, <1>3 DEF Contract!Take, Taken, Result

\* Calls that end without a result fail in the contract.
LEMMA EndsFail ==
    ASSUME StoreTypeOK, CallInv,
           NEW failing \in SUBSET Calls, NEW lost \in SUBSET Replicas,
           \A c \in failing : stage[c] \in Open,
           stage' = [c \in Calls |-> IF c \in failing THEN "failed" ELSE stage[c]],
           rows' = [s \in Stores |-> IF s \in lost THEN Empty ELSE rows[s]],
           UNCHANGED <<asked, stmt, found>>
    PROVE  Contract!Next
<1>1. \A c \in failing : asked[c] # NoCall /\ Result[c] = "none"
  BY DEF Open, CallInv, Result
<1>2. Result' = [c \in Calls |-> IF c \in failing THEN "failed" ELSE Result[c]]
  BY DEF Result
<1>3. Taken' = Taken
  BY DEF Taken
<1>4. Contract!Fail(failing, lost)
  BY <1>1, <1>2, <1>3 DEF Contract!Fail, Taken, Result, Empty
<1> QED BY <1>4 DEF Contract!Next

LEMMA StepKeepsContract ==
    SystemInv /\ [Next]_vars => [Contract!Next]_(Contract!contract)
<1> SUFFICES ASSUME SystemInv, [Next]_vars
             PROVE  Contract!Next \/ UNCHANGED Contract!contract
  OBVIOUS
<1>0. StoreTypeOK /\ CallInv
  BY DEF SystemInv
<1> USE <1>0, StoreAssumption DEF Open
<1>1. ASSUME NEW c \in Calls, Ask(c) PROVE Contract!Next
  <2>1. PICK op \in Operations, id \in Ids :
            asked' = [asked EXCEPT ![c] = [op |-> op, id |-> id, in |-> StoreOf(at[c])]]
    BY <1>1 DEF Ask
  <2> DEFINE q == [op |-> op, id |-> id, in |-> StoreOf(at[c])]
  <2>2. StoreOf(at[c]) \in Stores
    BY DEF StoreOf, Stores, StoreTypeOK
  <2>3. q \in Contract!Requests
    BY <2>2 DEF Contract!Requests, Operations
  <2>4. asked[c] = NoCall /\ asked' = [asked EXCEPT ![c] = q]
    BY <1>1, <2>1 DEF Ask, Step, CallInv
  <2>5. Taken' = Taken /\ Result' = Result
    BY <1>1 DEF Ask, Step, Taken, Result, StoreTypeOK
  <2> HIDE DEF q
  <2>6. Contract!Ask(c, q)
    BY <1>1, <2>4, <2>5 DEF Ask, Contract!Ask, Taken, Result
  <2> QED BY <2>3, <2>6 DEF Contract!Next
<1>2. ASSUME NEW c \in Calls, Send(c) \/ Refuse(c) PROVE UNCHANGED Contract!contract
  <2>1. Taken' = Taken
    BY <1>2 DEF Send, Refuse, Step, Taken, StoreTypeOK, CallInv
  <2>2. Result' = Result
    BY <1>2 DEF Send, Refuse, Step, Result, StoreTypeOK
  <2> QED BY <1>2, <2>1, <2>2, ContractUnchanged DEF Send, Refuse
<1>3. ASSUME NEW c \in Calls, GetFails(c) \/ StatementFails(c) \/ CallerGone(c)
      PROVE  Contract!Next
  <2>1. /\ stage[c] \in Open /\ stage' = [stage EXCEPT ![c] = "failed"]
        /\ UNCHANGED <<asked, stmt, found, rows>>
    BY <1>3 DEF GetFails, StatementFails, CallerGone, Step
  <2>2. stage' = [d \in Calls |-> IF d \in {c} THEN "failed" ELSE stage[d]]
    BY <2>1 DEF StoreTypeOK
  <2>3. rows' = [s \in Stores |-> IF s \in {} THEN Empty ELSE rows[s]]
    BY <2>1 DEF StoreTypeOK
  <2>4. {c} \in SUBSET Calls /\ {} \in SUBSET Replicas
    OBVIOUS
  <2>5. \A d \in {c} : stage[d] \in Open
    BY <2>1
  <2> QED BY <2>1, <2>2, <2>3, <2>4, <2>5, EndsFail
<1>4. ASSUME NEW c \in Calls, Lookup(c) \/ Execute(c) PROVE Contract!Next
  <2>1. Apply(c) /\ UNCHANGED asked
    BY <1>4 DEF Lookup, Execute
  <2>2. asked[c] # NoCall /\ stmt[c] # "done"
    BY <1>4 DEF Lookup, Execute, Step, CallInv
  <2>3. Result' = Result
    BY <1>4 DEF Lookup, Execute, Step, Result, StoreTypeOK
  <2>4. Contract!Take(c)
    BY <2>1, <2>2, <2>3, ApplyTakes
  <2> QED BY <2>4 DEF Contract!Next
<1>5. ASSUME NEW c \in Calls, Answer(c) PROVE Contract!Next
  <2>1. asked[c] # NoCall /\ Taken[c] /\ Result[c] = "none"
    BY <1>5 DEF Answer, Step, CallInv, Taken, Result
  <2>2. Result' = [Result EXCEPT ![c] = "ok"]
    BY <1>5 DEF Answer, Step, Result, StoreTypeOK
  <2>3. Taken' = Taken /\ UNCHANGED <<rows, asked, found>>
    BY <1>5 DEF Answer, Taken
  <2>4. Contract!Answer(c)
    BY <2>1, <2>2, <2>3 DEF Contract!Answer, Taken, Result
  <2> QED BY <2>4 DEF Contract!Next
<1>6. ASSUME NEW r \in Replicas, ProcessDies(r) PROVE Contract!Next
  <2> DEFINE failing == {c \in Calls : at[c] = r /\ stage[c] \in Open}
  <2>1. stage' = [c \in Calls |-> IF c \in failing THEN "failed" ELSE stage[c]]
    BY <1>6 DEF ProcessDies
  <2>2. rows' = [s \in Stores |-> IF s \in {r} THEN Empty ELSE rows[s]]
    BY <1>6 DEF ProcessDies, StoreTypeOK
  <2>3. UNCHANGED <<asked, stmt, found>>
    BY <1>6 DEF ProcessDies
  <2>4. \A c \in failing : stage[c] \in Open
    OBVIOUS
  <2>5. failing \in SUBSET Calls /\ {r} \in SUBSET Replicas
    OBVIOUS
  <2> HIDE DEF failing
  <2> QED BY <2>1, <2>2, <2>3, <2>4, <2>5, EndsFail
<1>7. CASE DatabaseFails
  <2>1. Taken' = Taken /\ Result' = Result
    BY <1>7 DEF DatabaseFails, Taken, Result
  <2> QED BY <1>7, <2>1, ContractUnchanged DEF DatabaseFails
<1>8. CASE \/ \E r \in Replicas : Startup(r) \/ Around(r)
           \/ DatabaseReturns \/ UNCHANGED vars
  <2>1. UNCHANGED <<asked, stage, stmt, found, rows>>
    BY <1>8 DEF Startup, Around, DatabaseReturns, vars, callVars
  <2>2. Taken' = Taken /\ Result' = Result
    BY <2>1 DEF Taken, Result
  <2> QED BY <2>1, <2>2, ContractUnchanged
<1> QED
  BY <1>1, <1>2, <1>3, <1>4, <1>5, <1>6, <1>7, <1>8 DEF Next, Get, Server, Finish

\* Either backend, behind any number of replicas and through all that may be
\* lost, keeps the promise of the trait.
THEOREM KeepsContractHolds == Spec => KeepsContract
<1>1. Init => Contract!Init
  BY DEF Init, Contract!Init, Empty
<1> QED BY <1>1, StepKeepsContract, SystemHolds, PTL DEF Spec, KeepsContract, Contract!Spec

-----------------------------------------------------------------------------
(* Calls end.                                                               *)

\* A call that has a client of the pool has sent its statement, and what the
\* server has not executed yet it has not lost.
SentInv ==
    \A c \in Calls :
        /\ stage[c] = "asked" => stmt[c] # "none"
        /\ stmt[c] = "sent" => database

\* Who but DatabaseFails takes the database away?
LEMMA DatabaseStays ==
    ASSUME \/ \E r \in Replicas : Startup(r) \/ Around(r) \/ ProcessDies(r)
           \/ DatabaseReturns
    PROVE  database => database'
BY DEF Startup, Around, ProcessDies, DatabaseReturns, server, Start, Boots, Crash,
       SidecarDown, SidecarUp, DatabaseUp, ReachesSidecar, MissesSidecar, BuildsMemory,
       Misconfigured, Connects, MissesDatabase, Begins, Locks, Commits, SchemaFails,
       Listens, ListenFails, TriesAgain, GivesUp, Outage

LEMMA SentStep == SystemInv /\ SentInv /\ [Next]_vars => SentInv'
<1> SUFFICES ASSUME StoreTypeOK, SentInv, [Next]_vars PROVE SentInv'
  BY DEF SystemInv
<1>1. ASSUME NEW c \in Calls, Ask(c) \/ Get(c) \/ Server(c) \/ Finish(c) \/ CallerGone(c)
      PROVE  SentInv'
  <2>1. database' = database
    BY <1>1 DEF Ask, Get, Send, GetFails, Lookup, Server, Execute, Refuse, Finish, Answer,
            StatementFails, CallerGone, bootVars, server
  <2>2. \A d \in Calls : d # c => stage'[d] = stage[d] /\ stmt'[d] = stmt[d]
    BY <1>1 DEF Ask, Get, Send, GetFails, Lookup, Server, Execute, Refuse, Finish, Answer,
            StatementFails, CallerGone, Apply, Step, StoreTypeOK
  <2>3. /\ stage'[c] = "asked" => stmt'[c] # "none"
        /\ stmt'[c] = "sent" => database
    BY <1>1 DEF Ask, Get, Send, GetFails, Lookup, Server, Execute, Refuse, Finish, Answer,
            StatementFails, CallerGone, Apply, Step, StoreTypeOK, SentInv
  <2> QED BY <2>1, <2>2, <2>3 DEF SentInv
<1>2. ASSUME NEW r \in Replicas, ProcessDies(r) PROVE SentInv'
  <2>1. database => database'
    BY <1>2, DatabaseStays
  <2>2. /\ stmt' = stmt
        /\ \A c \in Calls : stage'[c] = "asked" => stage[c] = "asked"
    BY <1>2 DEF ProcessDies
  <2> QED BY <2>1, <2>2 DEF SentInv
<1>3. CASE DatabaseFails
  <2>1. /\ stage' = stage
        /\ stmt' = [c \in Calls |-> IF stmt[c] = "sent" THEN "undone" ELSE stmt[c]]
    BY <1>3 DEF DatabaseFails
  <2> QED BY <2>1 DEF SentInv
<1>4. CASE (\E r \in Replicas : Startup(r) \/ Around(r)) \/ DatabaseReturns
  <2>1. database => database'
    BY <1>4, DatabaseStays
  <2>2. stage' = stage /\ stmt' = stmt
    BY <1>4 DEF Startup, Around, DatabaseReturns, callVars
  <2> QED BY <2>1, <2>2 DEF SentInv
<1>5. CASE UNCHANGED vars
  BY <1>5 DEF vars, callVars, bootVars, server, SentInv
<1> QED BY <1>1, <1>2, <1>3, <1>4, <1>5 DEF Next

InMap(c)    == InMemory /\ stage[c] = "waits"
Sent(c)     == stage[c] = "asked" /\ stmt[c] = "sent"
Answered(c) == stage[c] = "asked" /\ stmt[c] \in {"done", "undone"}
Ended(c)    == stage[c] \in {"ok", "failed"}

\* Where a step takes a call.
LEMMA CallGoesForward ==
  ASSUME SystemInv, SentInv, NEW c \in Calls, [Next]_vars
  PROVE  /\ InMap(c) => InMap(c)' \/ Answered(c)' \/ Ended(c)'
         /\ Sent(c) => Sent(c)' \/ Answered(c)' \/ Ended(c)'
         /\ Answered(c) => Answered(c)' \/ Ended(c)'
         /\ InMap(c) /\ Get(c) => Answered(c)' \/ Ended(c)'
         /\ Sent(c) /\ Server(c) => Answered(c)' \/ Ended(c)'
         /\ Answered(c) /\ Finish(c) => Ended(c)'
<1> USE DEF InMap, Sent, Answered, Ended
<1>0. StoreTypeOK /\ InMemory' = InMemory
  BY BootMoves, GivenStays DEF SystemInv, InMemory
<1>1. ASSUME NEW d \in Calls, d # c,
             Ask(d) \/ Get(d) \/ Server(d) \/ Finish(d) \/ CallerGone(d)
      PROVE  stage'[c] = stage[c] /\ stmt'[c] = stmt[c]
  BY <1>0, <1>1 DEF Ask, Get, Send, GetFails, Lookup, Server, Execute, Refuse, Finish, Answer,
          StatementFails, CallerGone, Apply, Step, StoreTypeOK
<1>2. ASSUME Ask(c) PROVE stage[c] = "idle"
  BY <1>2 DEF Ask, Step
<1>3. ASSUME Get(c)
      PROVE  stage[c] = "waits" /\ (InMemory => Answered(c)')
  BY <1>0, <1>3 DEF Get, Send, GetFails, Lookup, Apply, Step, StoreTypeOK
<1>4. ASSUME Server(c)
      PROVE  stage' = stage /\ stmt[c] = "sent" /\ stmt'[c] \in {"done", "undone"}
  BY <1>0, <1>4 DEF Server, Execute, Refuse, Apply, StoreTypeOK
<1>5. ASSUME Finish(c) PROVE stage[c] = "asked" /\ Ended(c)'
  BY <1>0, <1>5 DEF Finish, Answer, StatementFails, Step, StoreTypeOK
<1>6. ASSUME CallerGone(c) PROVE Ended(c)'
  BY <1>0, <1>6 DEF CallerGone, StoreTypeOK
<1>7. ASSUME NEW r \in Replicas, ProcessDies(r)
      PROVE  (stage'[c] = stage[c] /\ stmt' = stmt) \/ Ended(c)'
  BY <1>7 DEF ProcessDies
<1>8. ASSUME DatabaseFails
      PROVE  stage' = stage /\ stmt'[c] = IF stmt[c] = "sent" THEN "undone" ELSE stmt[c]
  BY <1>8 DEF DatabaseFails
<1>9. ASSUME (\E r \in Replicas : Startup(r) \/ Around(r)) \/ DatabaseReturns \/ UNCHANGED vars
      PROVE  stage' = stage /\ stmt' = stmt
  BY <1>9 DEF Startup, Around, DatabaseReturns, callVars, vars
<1>10. InMemory /\ stage[c] = "waits" => stmt[c] = "none"
  BY DEF SystemInv, CallInv
<1>11. CASE stage'[c] = stage[c] /\ stmt'[c] = stmt[c]
  <2>1. ~(InMap(c) /\ Get(c)) /\ ~(Sent(c) /\ Server(c)) /\ ~(Answered(c) /\ Finish(c))
    BY <1>3, <1>4, <1>5, <1>11
  <2> QED BY <1>0, <1>11, <2>1
<1>12. \/ stage'[c] = stage[c] /\ stmt'[c] = stmt[c]
       \/ Ask(c) \/ Get(c) \/ Server(c) \/ Finish(c) \/ CallerGone(c)
       \/ DatabaseFails \/ Ended(c)'
  BY <1>1, <1>7, <1>9 DEF Next
<1> QED
  BY <1>0, <1>2, <1>3, <1>4, <1>5, <1>6, <1>8, <1>10, <1>11, <1>12

\* No client of a pool is held for ever, and no call on the in-memory map
\* waits for ever, whatever dies or is lost: a call that has a client gets a
\* result or an error (postgres.rs:143-217, memory.rs:28-65).
ClientsComeBack ==
    \A c \in Calls : stage[c] = "asked" \/ InMap(c) ~> stage[c] \notin Open

THEOREM ClientsComeBackHolds ==
  Spec /\ (\A c \in Calls : GoesOn(c)) => ClientsComeBack
<1> SUFFICES ASSUME NEW c \in Calls
             PROVE  Spec /\ GoesOn(c)
                       => (stage[c] = "asked" \/ InMap(c) ~> stage[c] \notin Open)
  BY DEF ClientsComeBack
<1>1. Spec => []SystemInv /\ []SentInv /\ [][Next]_vars
  <2>1. Init => SentInv
    BY DEF Init, SentInv
  <2> QED BY <2>1, SentStep, SystemHolds, PTL DEF Spec
<1>2. SystemInv /\ SentInv /\ [Next]_vars =>
        /\ InMap(c) => InMap(c)' \/ Answered(c)' \/ Ended(c)'
        /\ Sent(c) => Sent(c)' \/ Answered(c)' \/ Ended(c)'
        /\ Answered(c) => Answered(c)' \/ Ended(c)'
  BY CallGoesForward
<1>3. /\ SystemInv /\ SentInv /\ [Next]_vars /\ <<Get(c)>>_vars /\ InMap(c)
           => Answered(c)' \/ Ended(c)'
      /\ SystemInv /\ SentInv /\ [Next]_vars /\ <<Server(c)>>_vars /\ Sent(c)
           => Answered(c)' \/ Ended(c)'
      /\ SystemInv /\ SentInv /\ [Next]_vars /\ <<Finish(c)>>_vars /\ Answered(c)
           => Ended(c)'
  BY CallGoesForward
<1>4. /\ InMap(c) => InMemory /\ stage[c] = "waits"
      /\ SentInv /\ Sent(c) => Executable(c)
      /\ Answered(c) => Answerable(c)
  BY DEF InMap, Sent, Answered, SentInv, Executable, Answerable
<1>5. /\ SystemInv /\ SentInv /\ stage[c] = "asked" => Sent(c) \/ Answered(c)
      /\ Ended(c) => stage[c] \notin Open
  BY DEF SystemInv, SentInv, StoreTypeOK, Sent, Answered, Ended, Open
<1>6. Spec /\ GoesOn(c) => (Answered(c) ~> Ended(c))
  BY <1>1, <1>2, <1>3, <1>4, PTL DEF GoesOn
<1>7. Spec /\ GoesOn(c) => (Sent(c) ~> Answered(c) \/ Ended(c))
  BY <1>1, <1>2, <1>3, <1>4, PTL DEF GoesOn
<1>8. Spec /\ GoesOn(c) => (InMap(c) ~> Answered(c) \/ Ended(c))
  BY <1>1, <1>2, <1>3, <1>4, PTL DEF GoesOn, InMap
<1> QED BY <1>1, <1>5, <1>6, <1>7, <1>8, PTL

=============================================================================
