--------------------------- MODULE MCSessionFeed ----------------------------
(* Instances of SessionFeed for TLC: two publishing threads and two watchers *)
(* of a session.                                                             *)
EXTENDS SessionFeed

CONSTANTS p1, p2, w1, w2

MCPublishers == {p1, p2}
MCWatchers == {w1, w2}

=============================================================================
