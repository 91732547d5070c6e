---------------------------- MODULE MCQueryHost -----------------------------
(* An instance of QueryHost for TLC: two turns of one session or of two, as  *)
(* model values, and the circumstances they meet.                           *)
EXTENDS QueryHost

CONSTANTS t1, t2, s1, s2

TwoTurns    == {t1, t2}
TwoSessions == {s1, s2}

\* Each property has a case in which everything happens it allows for.
HostCases == {{"overlap", "crash"},
              {"overlap", "engine"},
              {"overlap", "panic", "crash"},
              {"engine", "volatile", "crash", "delete"},
              {"store", "delete"},
              {"crash", "delete"}}

\* The process dies, and nothing else goes wrong.
CrashCase == {{"crash"}}

=============================================================================
