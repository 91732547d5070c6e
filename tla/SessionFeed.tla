---------------------------- MODULE SessionFeed -----------------------------
(***************************************************************************)
(* What one session's watchers are shown: SessionBus (crates/bus/src/lib.rs) *)
(* and the forwarding task of each WatchSession (crates/api/src/lib.rs).     *)
(*                                                                         *)
(* Publishers are the threads that run the session's turns, watchers the     *)
(* WatchSession requests.  Both find the session's channel in the bus's map  *)
(* under a read lock and, if it is not there, take the write lock to make    *)
(* it; other threads may come in between.  tokio's broadcast channel is      *)
(* external: it keeps the last Capacity events, drops an event nobody        *)
(* listens to, and tells a receiver that fell behind how many it missed.     *)
(* An event is the number of its publication.  The sessions of the map are   *)
(* independent of each other.                                                *)
(***************************************************************************)
EXTENDS Naturals, Sequences, FiniteSets

CONSTANTS Publishers,  \* threads publishing for the session
          Watchers,    \* WatchSession requests
          Capacity,    \* capacity of the broadcast channel (256)
          MaxEvents,   \* bound: calls of publish
          MaxCloses    \* calls of close (production code makes none)

ASSUME FeedAssumption ==
    /\ Publishers \intersect Watchers = {}
    /\ Capacity \in Nat \ {0}
    /\ MaxEvents \in Nat
    /\ MaxCloses \in Nat

VARIABLES current,    \* the session's channel in the map, or NoChannel
          sent,       \* per channel made, the events it took, oldest first
          thread,     \* where each publisher and watcher is
          chan,       \* the channel a thread found
          next,       \* per watcher, how much of its channel it has read
          connected,  \* its client still reads the response stream
          feed,       \* the events its client was sent
          skipped,    \* history: events lost to it by lag
          owed,       \* history: events published for it since it subscribed
          published, closes,
          era         \* history: the closes before each channel was made

reader == <<next, connected, feed, skipped>>
vars   == <<current, sent, thread, chan, reader, owed, published, closes, era>>

NoChannel == 0
Threads   == Publishers \union Watchers

-----------------------------------------------------------------------------
Init == /\ current = NoChannel
        /\ sent = <<>>
        /\ thread = [x \in Threads |-> "idle"]
        /\ chan = [x \in Threads |-> NoChannel]
        /\ next = [w \in Watchers |-> 0]
        /\ connected = [w \in Watchers |-> TRUE]
        /\ feed = [w \in Watchers |-> <<>>]
        /\ skipped = [w \in Watchers |-> {}]
        /\ owed = [w \in Watchers |-> {}]
        /\ published = 0
        /\ closes = 0
        /\ era = <<>>

Move(x, from, to) == thread[x] = from /\ thread' = [thread EXCEPT ![x] = to]

Receivers(c) == {w \in Watchers : thread[w] = "reading" /\ chan[w] = c}

\* The map and every thread that is about to publish or subscribe keep a
\* channel's sender alive.
HasSender(c) == c = current \/ \E x \in Threads : thread[x] = "found" /\ chan[x] = c

-----------------------------------------------------------------------------
(* ensure_sender.                                                           *)

\* MaxEvents bounds the calls of publish, the ones under way included.
Bounded(x) ==
    x \in Publishers =>
        published + Cardinality({p \in Publishers : thread[p] # "idle"}) < MaxEvents

Found(x) ==
    /\ Bounded(x)
    /\ current # NoChannel
    /\ Move(x, "idle", "found")
    /\ chan' = [chan EXCEPT ![x] = current]
    /\ UNCHANGED <<current, sent, reader, owed, published, closes, era>>

Missed(x) ==
    /\ Bounded(x)
    /\ current = NoChannel
    /\ Move(x, "idle", "missed")
    /\ UNCHANGED <<current, sent, chan, reader, owed, published, closes, era>>

MakeChannel ==
    /\ sent' = Append(sent, <<>>)
    /\ current' = Len(sent')
    /\ era' = Append(era, closes)

\* Mutant: insert instead of or_insert_with.
InsertAnew(x) ==
    /\ Move(x, "missed", "found")
    /\ MakeChannel
    /\ chan' = [chan EXCEPT ![x] = current']
    /\ UNCHANGED <<reader, owed, published, closes>>

\* Under the write lock the map is looked at again.
Insert(x) ==
    /\ Move(x, "missed", "found")
    /\ IF current = NoChannel
       THEN MakeChannel
       ELSE UNCHANGED <<sent, current, era>>
    /\ chan' = [chan EXCEPT ![x] = current']
    /\ UNCHANGED <<reader, owed, published, closes>>

\* The watchers an event sent on channel c is for: those that found their
\* channel between the same two closes.
Concerns(c, w) == thread[w] = "reading" /\ era[chan[w]] = era[c]

\* publish: an event without receivers is dropped.
Send(p) ==
    LET c == chan[p]
        e == published + 1
    IN  /\ Move(p, "found", "idle")
        /\ published' = e
        /\ sent' = IF Receivers(c) = {} THEN sent
                   ELSE [sent EXCEPT ![c] = Append(@, e)]
        /\ owed' = [w \in Watchers |-> IF Concerns(c, w)
                                       THEN owed[w] \union {e} ELSE owed[w]]
        /\ UNCHANGED <<current, chan, reader, closes, era>>

Close ==
    /\ closes < MaxCloses
    /\ closes' = closes + 1
    /\ current' = NoChannel
    /\ UNCHANGED <<sent, thread, chan, reader, owed, published, era>>

-----------------------------------------------------------------------------
(* WatchSession.                                                            *)

\* A receiver starts at the channel's end: nothing is replayed.
Subscribe(w) ==
    /\ Move(w, "found", "reading")
    /\ next' = [next EXCEPT ![w] = Len(sent[chan[w]])]
    /\ UNCHANGED <<current, sent, chan, connected, feed, skipped, owed,
                   published, closes, era>>

Behind(w) == Len(sent[chan[w]]) - next[w]

\* Mutant: a lag ends the forwarding task.
LagEnds(w) ==
    /\ Move(w, "reading", "ended")
    /\ Behind(w) > Capacity
    /\ UNCHANGED <<current, sent, chan, reader, owed, published, closes, era>>

\* Mutant: the ring is emptied for a receiver that lags.
Emptied(c) == Len(sent[c])

\* How many of a channel's events its ring has overwritten.
Overwritten(c) == Len(sent[c]) - Capacity

\* The ring overwrote what the watcher had not read: it is told, and goes on
\* with the oldest event there is.
Lag(w) ==
    LET c == chan[w]
        oldest == Overwritten(c)
    IN  /\ thread[w] = "reading"
        /\ Behind(w) > Capacity
        /\ next' = [next EXCEPT ![w] = oldest]
        /\ skipped' = [skipped EXCEPT ![w] =
                          @ \union {sent[c][i] : i \in next[w] + 1 .. oldest}]
        /\ UNCHANGED <<current, sent, thread, chan, connected, feed,
                       owed, published, closes, era>>

Forward(w) ==
    /\ thread[w] = "reading"
    /\ Behind(w) \in 1 .. Capacity
    /\ connected[w]
    /\ next' = [next EXCEPT ![w] = @ + 1]
    /\ feed' = [feed EXCEPT ![w] = Append(@, sent[chan[w]][next[w] + 1])]
    /\ UNCHANGED <<current, sent, thread, chan, connected, skipped, owed,
                   published, closes, era>>

\* Only the next event tells the task that its client has gone.
FindGone(w) ==
    /\ Move(w, "reading", "ended")
    /\ Behind(w) \in 1 .. Capacity
    /\ ~connected[w]
    /\ UNCHANGED <<current, sent, chan, reader, owed, published, closes, era>>

\* A receiver reads what is left in the ring before it is told Closed.
FindClosed(w) ==
    /\ Move(w, "reading", "ended")
    /\ Behind(w) = 0
    /\ ~HasSender(chan[w])
    /\ UNCHANGED <<current, sent, chan, reader, owed, published, closes, era>>

Disconnect(w) ==
    /\ thread[w] = "reading"
    /\ connected[w]
    /\ connected' = [connected EXCEPT ![w] = FALSE]
    /\ UNCHANGED <<current, sent, thread, chan, next, feed, skipped,
                   owed, published, closes, era>>

Recv(w) == Lag(w) \/ Forward(w) \/ FindGone(w) \/ FindClosed(w)

Next == \/ \E x \in Threads : Found(x) \/ Missed(x) \/ Insert(x)
        \/ \E p \in Publishers : Send(p)
        \/ \E w \in Watchers : Subscribe(w) \/ Recv(w) \/ Disconnect(w)
        \/ Close

Spec == Init /\ [][Next]_vars

\* The runtime runs every forwarding task, and a thread that entered the bus
\* comes out of it; nobody owes a call of publish, a watch or a disconnect.
FairSpec ==
    /\ Spec
    /\ \A x \in Threads : WF_vars(Insert(x))
    /\ \A p \in Publishers : WF_vars(Send(p))
    /\ \A w \in Watchers : WF_vars(Subscribe(w)) /\ WF_vars(Recv(w))

-----------------------------------------------------------------------------
(* Properties.                                                              *)

\* The values each piece of the bus's and the watchers' state may take.
TypeOK ==
    /\ sent \in Seq(Seq(Nat))
    /\ current \in 0 .. Len(sent)
    /\ thread \in [Threads -> {"idle", "missed", "found", "reading", "ended"}]
    /\ chan \in [Threads -> 0 .. Len(sent)]
    /\ next \in [Watchers -> Nat]
    /\ connected \in [Watchers -> BOOLEAN]
    /\ feed \in [Watchers -> Seq(Nat)]
    /\ skipped \in [Watchers -> SUBSET Nat]
    /\ owed \in [Watchers -> SUBSET Nat]
    /\ published \in Nat
    /\ closes \in 0 .. MaxCloses
    /\ era \in Seq(Nat) /\ Len(era) = Len(sent)
    \* Nobody sends or reads without a channel, or reads past its end.
    /\ \A x \in Threads : thread[x] \in {"found", "reading"} => chan[x] # NoChannel
    /\ \A w \in Watchers : thread[w] = "reading" => next[w] <= Len(sent[chan[w]])

Waiting(w) == SubSeq(sent[chan[w]], next[w] + 1, Len(sent[chan[w]]))

Rising(s) == \A i, j \in DOMAIN s : i < j => s[i] < s[j]

\* Of the events published since a watcher subscribed, by any thread and until
\* the session is closed, each was sent to its client, waits in its channel or
\* was reported as lag, and they come in order and once (bus:52-72, api:377-387):
\* no interleaving of ensure_sender leaves a publisher and a watcher on two
\* channels.
NothingUnaccounted ==
    \A w \in Watchers : thread[w] = "reading" =>
        LET shown == feed[w] \o Waiting(w)
        IN  /\ Rising(shown)
            /\ {shown[i] : i \in DOMAIN shown} = owed[w] \ skipped[w]

\* An event is lost to a watcher only when Capacity newer ones have been
\* published (bus:32-36, api:381-386): one that is never more than the channel's
\* capacity behind, as in a session of at most 256 events, loses none.
LossIsLag == \A w \in Watchers : \A e \in skipped[w] : e + Capacity <= published

\* However far it fell behind, a watcher whose client stays gets the newest
\* event: the Outcome of a turn is not lost to lag once the turn is over.
CaughtUp ==
    \A w \in Watchers, e \in 1 .. MaxEvents :
        e \in owed[w] ~> \/ \E i \in DOMAIN feed[w] : feed[w][i] >= e
                         \/ ~connected[w]

=============================================================================
