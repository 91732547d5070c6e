-------------------------- MODULE SessionContract ---------------------------
(***************************************************************************)
(* What a SessionStore (crates/core/src/storage/mod.rs) promises its        *)
(* callers: calls on a map of session records, each of which takes effect   *)
(* in one step.  An answered call took effect once, between call and        *)
(* answer; a failed one at most once, at any time after it was made.  A     *)
(* record is named by the put that wrote it.                               *)
(***************************************************************************)
EXTENDS FiniteSets

CONSTANTS Calls,     \* calls of the trait's methods (each is made at most once)
          Ids,       \* session ids
          Stores,    \* the maps there are
          Volatile,  \* those that die with the process that has them
          Absent,    \* no record
          NoCall     \* a call not made yet

Requests == [op : {"get", "put", "delete", "list"}, id : Ids, in : Stores]

VARIABLES rows,    \* each store's map
          asked,   \* each call's request
          taken,   \* has it taken effect?
          found,   \* the records it read or removed
          answer   \* "none", "ok" or "failed"

contract == <<rows, asked, taken, found, answer>>

-----------------------------------------------------------------------------
\* A session's records, or none.
Record(m, id) == {m[id]} \ {Absent}

Found(q, m) ==
    CASE q.op \in {"get", "delete"} -> Record(m, q.id)
      [] q.op = "list"              -> UNION {Record(m, id) : id \in Ids}
      [] q.op = "put"               -> {}

Effect(c, q, m) ==
    CASE q.op = "put"    -> [m EXCEPT ![q.id] = c]
      [] q.op = "delete" -> [m EXCEPT ![q.id] = Absent]
      [] OTHER           -> m

Init == /\ rows = [s \in Stores |-> [id \in Ids |-> Absent]]
        /\ asked = [c \in Calls |-> NoCall]
        /\ taken = [c \in Calls |-> FALSE]
        /\ found = [c \in Calls |-> {}]
        /\ answer = [c \in Calls |-> "none"]

Ask(c, q) ==
    /\ asked[c] = NoCall
    /\ asked' = [asked EXCEPT ![c] = q]
    /\ UNCHANGED <<rows, taken, found, answer>>

\* The one step in which a call reads and changes the map.
Take(c) ==
    LET q == asked[c]
    IN  /\ q # NoCall
        /\ ~taken[c]
        /\ taken' = [taken EXCEPT ![c] = TRUE]
        /\ found' = [found EXCEPT ![c] = Found(q, rows[q.in])]
        /\ rows' = [rows EXCEPT ![q.in] = Effect(c, q, @)]
        /\ UNCHANGED <<asked, answer>>

Answer(c) ==
    /\ asked[c] # NoCall
    /\ taken[c]
    /\ answer[c] = "none"
    /\ answer' = [answer EXCEPT ![c] = "ok"]
    /\ UNCHANGED <<rows, asked, taken, found>>

\* Calls fail, alone or with their process, and take its map with them.
Fail(failing, lost) ==
    /\ \A c \in failing : asked[c] # NoCall /\ answer[c] = "none"
    /\ answer' = [c \in Calls |-> IF c \in failing THEN "failed" ELSE answer[c]]
    /\ rows' = [s \in Stores |-> IF s \in lost THEN [id \in Ids |-> Absent] ELSE rows[s]]
    /\ UNCHANGED <<asked, taken, found>>

Next == \/ \E c \in Calls : Take(c) \/ Answer(c) \/ \E q \in Requests : Ask(c, q)
        \/ \E failing \in SUBSET Calls, lost \in SUBSET Volatile : Fail(failing, lost)

Spec == Init /\ [][Next]_contract

=============================================================================
