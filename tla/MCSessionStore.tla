--------------------------- MODULE MCSessionStore ---------------------------
(* Instances of SessionStore for TLC: two replicas on one database and the  *)
(* calls made on them, as model values, with the outages they meet.         *)
EXTENDS SessionStore

CONSTANTS r1, r2, c1, c2, c3, s1

TwoReplicas == {r1, r2}
OneReplica  == {r1}
NoCalls     == {}
ThreeCalls  == {c1, c2, c3}
Third       == {c3}
OneId       == {s1}

\* Calls on one replica, or on two: which ones makes no difference.
SameOrTwo == {[c \in Calls |-> r1], [c \in Calls |-> IF c = c2 THEN r2 ELSE r1]}

\* Each method, each outage and each refusal somewhere; what is combined is
\* what may meet in one call or one start.
ServiceCases == {{"database", "crash", "again"},
                 {"sidecar", "database"},
                 {"put", "database"},
                 {"put", "get", "crash"},
                 {"put", "delete", "network", "nul"},
                 {"list", "delete", "put", "client"},
                 {"memory", "put", "list", "crash", "client"},
                 {"get", "network", "crowd"},
                 {"misconfigured"}, {"port"}}
Nothing      == {{}}

=============================================================================
