------------------------- MODULE SessionFeedProofs --------------------------
(***************************************************************************)
(* Proofs about SessionFeed, for any threads, any capacity and any number   *)
(* of events.                                                               *)
(***************************************************************************)
EXTENDS SessionFeed, SequenceTheorems, TLAPS

\* The bus's and the watchers' state keep their types, and no watcher reads
\* past the end of its channel.
THEOREM TypeCorrect == Spec => []TypeOK
<1> USE FeedAssumption
<1>1. Init => TypeOK
  BY DEF Init, TypeOK, Threads, NoChannel
<1>2. TypeOK /\ [Next]_vars => TypeOK'
  <2> SUFFICES ASSUME TypeOK, [Next]_vars PROVE TypeOK'
    OBVIOUS
  <2> USE DEF reader, NoChannel
  <2>0. /\ Publishers \subseteq Threads /\ Watchers \subseteq Threads
        /\ \A x \in Threads : chan[x] \in 0 .. Len(sent)
        /\ \A x \in Threads : thread[x] \in {"found", "reading"} => chan[x] \in DOMAIN sent
    BY DEF Threads, TypeOK
  <2>1. ASSUME NEW x \in Threads, Found(x) PROVE TypeOK'
    <3>1. chan' \in [Threads -> 0 .. Len(sent)]
      BY <2>1 DEF TypeOK, Found
    <3>2. \A y \in Threads : y # x => thread'[y] = thread[y] /\ chan'[y] = chan[y]
      BY <2>1 DEF TypeOK, Found, Move
    <3>3. thread'[x] = "found" /\ chan'[x] = current
      BY <2>1 DEF TypeOK, Found, Move
    <3> QED BY <2>0, <2>1, <3>1, <3>2, <3>3 DEF TypeOK, Found, Move
  <2>2. ASSUME NEW x \in Threads, Missed(x) PROVE TypeOK'
    <3>1. \A y \in Threads : y # x => thread'[y] = thread[y]
      BY <2>2 DEF TypeOK, Missed, Move
    <3> QED BY <2>0, <2>2, <3>1 DEF TypeOK, Missed, Move
  <2>3. ASSUME NEW x \in Threads, Insert(x) PROVE TypeOK'
    <3>1. /\ sent' \in Seq(Seq(Nat)) /\ Len(sent) <= Len(sent')
          /\ \A c \in DOMAIN sent : sent'[c] = sent[c]
          /\ current' \in 1 .. Len(sent')
          /\ era' \in Seq(Nat) /\ Len(era') = Len(sent')
      <4>0. /\ sent \in Seq(Seq(Nat)) /\ current \in 0 .. Len(sent)
            /\ era \in Seq(Nat) /\ Len(era) = Len(sent) /\ closes \in Nat
        BY DEF TypeOK
      <4>1. CASE current = NoChannel
        <5>1. /\ sent' = Append(sent, <<>>) /\ current' = Len(sent')
              /\ era' = Append(era, closes)
          BY <2>3, <4>1 DEF Insert, MakeChannel
        <5>2. <<>> \in Seq(Nat)
          OBVIOUS
        <5>3. era' \in Seq(Nat) /\ Len(era') = Len(era) + 1
          BY <4>0, <5>1, AppendProperties
        <5> QED BY <4>0, <5>1, <5>2, <5>3, AppendProperties
      <4>2. CASE current # NoChannel
        <5>1. sent' = sent /\ current' = current /\ era' = era
          BY <2>3, <4>2 DEF Insert
        <5> QED BY <4>0, <4>2, <5>1
      <4> QED BY <4>1, <4>2
    <3>2. chan' \in [Threads -> 0 .. Len(sent')]
      BY <2>3, <3>1 DEF TypeOK, Insert
    <3>3. \A y \in Threads : y # x => thread'[y] = thread[y] /\ chan'[y] = chan[y]
      BY <2>3 DEF TypeOK, Insert, Move
    <3>4. thread'[x] = "found" /\ chan'[x] = current'
      BY <2>3 DEF TypeOK, Insert, Move
    <3>5. thread' \in [Threads -> {"idle", "missed", "found", "reading", "ended"}]
      BY <2>3 DEF TypeOK, Insert, Move
    <3>6. /\ UNCHANGED <<next, connected, feed, skipped, owed, published, closes>>
          /\ sent \in Seq(Seq(Nat))
      BY <2>3 DEF Insert, TypeOK
    <3>7. \A y \in Threads : thread'[y] \in {"found", "reading"} => chan'[y] # NoChannel
      <4>1. \A y \in Threads : y # x /\ thread[y] \in {"found", "reading"} => chan[y] # NoChannel
        BY <2>0
      <4>2. chan'[x] # NoChannel
        BY <3>1, <3>4
      <4> QED BY <3>3, <4>1, <4>2
    <3>8. ASSUME NEW v \in Watchers, thread'[v] = "reading"
          PROVE  next'[v] <= Len(sent'[chan'[v]])
      <4>1. v # x /\ v \in Threads
        BY <2>0, <3>4, <3>8
      <4>2. thread[v] = "reading" /\ chan'[v] = chan[v] /\ chan[v] \in DOMAIN sent
        BY <2>0, <3>3, <3>8, <4>1
      <4>3. next[v] <= Len(sent[chan[v]])
        BY <4>2 DEF TypeOK
      <4>4. \A c \in DOMAIN sent : sent'[c] = sent[c]
        BY <3>1
      <4>5. sent'[chan'[v]] = sent[chan[v]]
        BY <4>2, <4>4
      <4>6. next'[v] = next[v]
        BY <3>6
      <4> QED BY <4>3, <4>5, <4>6
    <3>9. /\ current' \in 0 .. Len(sent') /\ next' \in [Watchers -> Nat]
          /\ connected' \in [Watchers -> BOOLEAN] /\ feed' \in [Watchers -> Seq(Nat)]
          /\ skipped' \in [Watchers -> SUBSET Nat] /\ owed' \in [Watchers -> SUBSET Nat]
          /\ published' \in Nat /\ closes' \in 0 .. MaxCloses
      BY <3>1, <3>6 DEF TypeOK
    <3> QED BY <3>1, <3>2, <3>5, <3>7, <3>8, <3>9 DEF TypeOK
  <2>4. ASSUME NEW p \in Publishers, Send(p) PROVE TypeOK'
    <3>1. p \in Threads /\ chan[p] \in DOMAIN sent /\ published + 1 \in Nat
      BY <2>0, <2>4 DEF TypeOK, Send, Move
    <3>2. /\ sent' \in Seq(Seq(Nat)) /\ Len(sent') = Len(sent)
          /\ \A c \in DOMAIN sent : Len(sent[c]) <= Len(sent'[c])
      <4>1. CASE sent' = sent
        BY <4>1 DEF TypeOK
      <4>2. CASE sent' = [sent EXCEPT ![chan[p]] = Append(@, published + 1)]
        BY <3>1, <4>2 DEF TypeOK
      <4> QED BY <2>4, <4>1, <4>2 DEF Send
    <3>3. \A y \in Threads : y # p => thread'[y] = thread[y]
      BY <2>4 DEF TypeOK, Send, Move
    <3>4. owed' \in [Watchers -> SUBSET Nat]
      BY <2>4, <3>1 DEF TypeOK, Send
    <3>5. /\ thread' \in [Threads -> {"idle", "missed", "found", "reading", "ended"}]
          /\ thread'[p] = "idle"
      BY <2>4, <3>1 DEF TypeOK, Send, Move
    <3>6. ASSUME NEW w \in Watchers, thread'[w] = "reading"
          PROVE  next'[w] <= Len(sent'[chan'[w]])
      <4>1. w \in Threads /\ w # p /\ thread[w] = "reading"
        BY <2>0, <3>3, <3>5, <3>6
      <4>2. /\ chan[w] \in DOMAIN sent /\ next[w] <= Len(sent[chan[w]])
            /\ next[w] \in Nat /\ Len(sent[chan[w]]) \in Nat
        BY <2>0, <4>1 DEF TypeOK
      <4>3. Len(sent[chan[w]]) <= Len(sent'[chan[w]]) /\ Len(sent'[chan[w]]) \in Nat
        BY <3>2, <4>2
      <4>4. next'[w] = next[w] /\ chan'[w] = chan[w]
        BY <2>4 DEF Send
      <4> QED BY <4>2, <4>3, <4>4
    <3>7. /\ UNCHANGED <<current, chan, next, connected, feed, skipped, closes, era>>
          /\ published' = published + 1
      BY <2>4 DEF Send
    <3>8. \A y \in Threads : thread'[y] \in {"found", "reading"} => chan'[y] # NoChannel
      BY <2>0, <3>3, <3>5, <3>7
    <3> QED BY <3>1, <3>2, <3>4, <3>5, <3>6, <3>7, <3>8 DEF TypeOK
  <2>5. ASSUME NEW w \in Watchers, Subscribe(w) PROVE TypeOK'
    <3>1. w \in Threads /\ Len(sent[chan[w]]) \in Nat
      <4>1. w \in Threads /\ chan[w] \in DOMAIN sent
        BY <2>0, <2>5 DEF Subscribe, Move
      <4>2. sent \in Seq(Seq(Nat))
        BY DEF TypeOK
      <4> QED BY <4>1, <4>2
    <3>2. /\ \A y \in Threads : y # w => thread'[y] = thread[y]
          /\ \A v \in Watchers : v # w => next'[v] = next[v]
          /\ next'[w] = Len(sent[chan[w]])
      BY <2>5, <3>1 DEF TypeOK, Subscribe, Move
    <3>3. /\ UNCHANGED <<current, sent, chan, connected, feed, skipped, owed,
                       published, closes, era>>
          /\ thread' = [thread EXCEPT ![w] = "reading"]
          /\ next' = [next EXCEPT ![w] = Len(sent[chan[w]])]
          /\ chan[w] # NoChannel
      BY <2>0, <2>5 DEF Subscribe, Move
    <3>4. /\ next' \in [Watchers -> Nat]
          /\ thread' \in [Threads -> {"idle", "missed", "found", "reading", "ended"}]
      BY <3>1, <3>3 DEF TypeOK
    <3>5. ASSUME NEW v \in Watchers, thread'[v] = "reading"
          PROVE  next'[v] <= Len(sent'[chan'[v]])
      <4>1. CASE v = w
        BY <3>1, <3>2, <3>3, <4>1
      <4>2. CASE v # w
        <5>1. v \in Threads /\ thread[v] = "reading"
          BY <2>0, <3>2, <3>5, <4>2
        <5>2. next[v] <= Len(sent[chan[v]])
          BY <5>1 DEF TypeOK
        <5> QED BY <3>2, <3>3, <4>2, <5>2
      <4> QED BY <4>1, <4>2
    <3>6. \A y \in Threads : thread'[y] \in {"found", "reading"} => chan'[y] # NoChannel
      BY <3>2, <3>3 DEF TypeOK
    <3> QED BY <3>3, <3>4, <3>5, <3>6 DEF TypeOK
  <2>6. ASSUME NEW w \in Watchers, Lag(w) PROVE TypeOK'
    <3>1. w \in Threads /\ chan[w] \in DOMAIN sent
      BY <2>0, <2>6 DEF Lag
    <3>2. /\ sent[chan[w]] \in Seq(Nat) /\ next[w] \in Nat
          /\ Len(sent[chan[w]]) - Capacity \in next[w] .. Len(sent[chan[w]])
      <4>0. sent \in Seq(Seq(Nat)) /\ next \in [Watchers -> Nat]
        BY DEF TypeOK
      <4>1. /\ sent[chan[w]] \in Seq(Nat) /\ next[w] \in Nat
            /\ Len(sent[chan[w]]) \in Nat
        BY <3>1, <4>0
      <4>2. Len(sent[chan[w]]) - next[w] > Capacity /\ Capacity \in Nat
        BY <2>6 DEF Lag, Behind
      <4> QED BY <4>1, <4>2
    <3>3. {sent[chan[w]][i] : i \in next[w] + 1 .. Len(sent[chan[w]]) - Capacity} \subseteq Nat
      <4>1. \A i \in next[w] + 1 .. Len(sent[chan[w]]) - Capacity :
               i \in 1 .. Len(sent[chan[w]])
        BY <3>2
      <4>2. \A i \in 1 .. Len(sent[chan[w]]) : sent[chan[w]][i] \in Nat
        BY <3>2
      <4> QED BY <4>1, <4>2
    <3>4. /\ next' = [next EXCEPT ![w] = Len(sent[chan[w]]) - Capacity]
          /\ skipped' = [skipped EXCEPT ![w] = @ \union
                {sent[chan[w]][i] : i \in next[w] + 1 .. Len(sent[chan[w]]) - Capacity}]
          /\ UNCHANGED <<current, sent, thread, chan, connected, feed, owed, published, closes,
                       era>>
      BY <2>6 DEF Lag, Overwritten
    <3>5. /\ next' \in [Watchers -> Nat]
          /\ next'[w] = Len(sent[chan[w]]) - Capacity
          /\ \A v \in Watchers : v # w => next'[v] = next[v]
      <4>1. next \in [Watchers -> Nat]
        BY DEF TypeOK
      <4>2. Len(sent[chan[w]]) - Capacity \in Nat
        BY <3>2
      <4> QED BY <3>4, <4>1, <4>2
    <3>6. skipped' \in [Watchers -> SUBSET Nat]
      BY <3>3, <3>4 DEF TypeOK
    <3>7. \A v \in Watchers : thread'[v] = "reading" => next'[v] <= Len(sent'[chan'[v]])
      <4>1. next'[w] <= Len(sent[chan[w]])
        BY <3>2, <3>5
      <4>2. \A v \in Watchers : thread[v] = "reading" => next[v] <= Len(sent[chan[v]])
        BY DEF TypeOK
      <4> QED BY <3>4, <3>5, <4>1, <4>2
    <3> QED BY <3>4, <3>5, <3>6, <3>7 DEF TypeOK
  <2>7. ASSUME NEW w \in Watchers, Forward(w) PROVE TypeOK'
    <3>1. w \in Threads /\ chan[w] \in DOMAIN sent
      BY <2>0, <2>7 DEF Forward
    <3>2. /\ sent[chan[w]] \in Seq(Nat) /\ next[w] \in Nat
          /\ next[w] + 1 \in 1 .. Len(sent[chan[w]])
      <4>0. sent \in Seq(Seq(Nat)) /\ next \in [Watchers -> Nat]
        BY DEF TypeOK
      <4>1. /\ sent[chan[w]] \in Seq(Nat) /\ next[w] \in Nat
            /\ Len(sent[chan[w]]) \in Nat
        BY <3>1, <4>0
      <4>2. Len(sent[chan[w]]) - next[w] >= 1
        BY <2>7, <4>1 DEF Forward, Behind
      <4> QED BY <4>1, <4>2
    <3>3. sent[chan[w]][next[w] + 1] \in Nat
      BY <3>2
    <3>4. /\ next' = [next EXCEPT ![w] = @ + 1]
          /\ feed' = [feed EXCEPT ![w] = Append(@, sent[chan[w]][next[w] + 1])]
          /\ UNCHANGED <<current, sent, thread, chan, connected, skipped, owed, published,
                       closes, era>>
      BY <2>7 DEF Forward
    <3>5. /\ next' \in [Watchers -> Nat]
          /\ next'[w] = next[w] + 1
          /\ \A v \in Watchers : v # w => next'[v] = next[v]
      <4>1. next \in [Watchers -> Nat]
        BY DEF TypeOK
      <4>2. next[w] + 1 \in Nat
        BY <3>2
      <4> QED BY <3>4, <4>1, <4>2
    <3>6. feed' \in [Watchers -> Seq(Nat)]
      <4>1. Append(feed[w], sent[chan[w]][next[w] + 1]) \in Seq(Nat)
        BY <3>3, AppendProperties DEF TypeOK
      <4> QED BY <3>4, <4>1 DEF TypeOK
    <3>7. \A v \in Watchers : thread'[v] = "reading" => next'[v] <= Len(sent'[chan'[v]])
      <4>1. next'[w] <= Len(sent[chan[w]])
        BY <3>2, <3>5
      <4>2. \A v \in Watchers : thread[v] = "reading" => next[v] <= Len(sent[chan[v]])
        BY DEF TypeOK
      <4> QED BY <3>4, <3>5, <4>1, <4>2
    <3> QED BY <3>4, <3>5, <3>6, <3>7 DEF TypeOK
  <2>8. ASSUME NEW w \in Watchers, FindGone(w) \/ FindClosed(w) PROVE TypeOK'
    <3>1. /\ w \in Threads /\ thread' = [thread EXCEPT ![w] = "ended"]
          /\ UNCHANGED <<current, sent, chan, reader, owed, published, closes, era>>
      BY <2>0, <2>8 DEF FindGone, FindClosed, Move
    <3>2. /\ thread'[w] = "ended"
          /\ \A y \in Threads : y # w => thread'[y] = thread[y]
      BY <3>1 DEF TypeOK
    <3> QED BY <3>1, <3>2 DEF TypeOK
  <2>9. ASSUME NEW w \in Watchers, Disconnect(w) PROVE TypeOK'
    BY <2>9 DEF TypeOK, Disconnect
  <2>10. CASE Close
    BY <2>10 DEF TypeOK, Close
  <2>11. CASE UNCHANGED vars
    BY <2>11 DEF TypeOK, vars
  <2> QED
    BY <2>1, <2>2, <2>3, <2>4, <2>5, <2>6, <2>7, <2>8, <2>9, <2>10, <2>11
    DEF Next, Recv
<1> QED BY <1>1, <1>2, PTL DEF Spec

-----------------------------------------------------------------------------
(* The inductive invariant.                                                 *)

\* Between two closes a session has one channel, and only the map's was made
\* since the last close.
OneChannel ==
    /\ \A c \in DOMAIN era : era[c] <= closes
    /\ \A c \in DOMAIN era : era[c] = closes => c = current
    /\ \A c, d \in DOMAIN era : era[c] = era[d] => c = d

\* A channel takes the events as they are published.
SentInOrder ==
    \A c \in DOMAIN sent :
        /\ Rising(sent[c])
        /\ \A i \in DOMAIN sent[c] : sent[c][i] <= published

FeedInOrder ==
    \A w \in Watchers :
        /\ Rising(feed[w])
        /\ \A i \in DOMAIN feed[w] : feed[w][i] <= published
        /\ skipped[w] \subseteq 0 .. published

\* A watcher that has not subscribed yet is owed nothing.
NothingYet ==
    \A w \in Watchers : thread[w] \in {"idle", "missed", "found"} =>
        feed[w] = <<>> /\ skipped[w] = {} /\ owed[w] = {}

Elements(s) == {s[i] : i \in DOMAIN s}

Ahead(w) == next[w] + 1 .. Len(sent[chan[w]])

Accounted ==
    \A w \in Watchers : thread[w] = "reading" =>
        /\ \A i \in DOMAIN feed[w], j \in Ahead(w) : feed[w][i] < sent[chan[w]][j]
        /\ Elements(feed[w]) \union {sent[chan[w]][j] : j \in Ahead(w)}
              = owed[w] \ skipped[w]

FeedInv == SentInOrder /\ FeedInOrder /\ NothingYet /\ Accounted

\* Threads that reach the bus between the same two closes use one channel:
\* ensure_sender looks again under the write lock.
THEOREM OneChannelHolds == Spec => []OneChannel
<1>1. Init => OneChannel
  BY DEF Init, OneChannel
<1>2. TypeOK /\ OneChannel /\ [Next]_vars => OneChannel'
  <2> SUFFICES ASSUME TypeOK, OneChannel, [Next]_vars PROVE OneChannel'
    OBVIOUS
  <2>0. /\ era \in Seq(Nat) /\ Len(era) = Len(sent) /\ sent \in Seq(Seq(Nat))
        /\ DOMAIN era = 1 .. Len(sent) /\ Len(sent) \in Nat
        /\ \A c \in DOMAIN era : era[c] \in Nat
        /\ current \in 0 .. Len(sent) /\ closes \in Nat
    BY FeedAssumption DEF TypeOK
  <2>1. ASSUME UNCHANGED <<era, closes, current>> PROVE OneChannel'
    BY <2>1 DEF OneChannel
  <2>2. ASSUME NEW x \in Threads, Insert(x) PROVE OneChannel'
    <3>1. CASE current # NoChannel
      BY <2>1, <2>2, <3>1 DEF Insert
    <3>2. CASE current = NoChannel
      <4>1. /\ era' = Append(era, closes) /\ closes' = closes
            /\ sent' = Append(sent, <<>>) /\ current' = Len(sent')
        BY <2>2, <3>2 DEF Insert, MakeChannel
      <4>2. current' = Len(sent) + 1
        <5>1. <<>> \in Seq(Nat)
          OBVIOUS
        <5> QED BY <2>0, <4>1, <5>1, AppendProperties
      <4>3. /\ DOMAIN era' = 1 .. Len(sent) + 1
            /\ \A c \in 1 .. Len(sent) : era'[c] = era[c]
            /\ era'[Len(sent) + 1] = closes
        BY <2>0, <4>1, AppendProperties
      <4>4. \A c \in 1 .. Len(sent) : era[c] < closes
        <5> SUFFICES ASSUME NEW c \in 1 .. Len(sent) PROVE era[c] < closes
          OBVIOUS
        <5>1. c # current /\ c \in DOMAIN era
          BY <2>0, <3>2 DEF NoChannel
        <5> QED BY <2>0, <5>1 DEF OneChannel
      <4>5. \A c \in DOMAIN era' : c \in 1 .. Len(sent) \/ c = Len(sent) + 1
        BY <2>0, <4>3
      <4>6. \A c \in DOMAIN era' : era'[c] <= closes'
        BY <2>0, <4>1, <4>3, <4>4, <4>5
      <4>7. \A c \in DOMAIN era' : era'[c] = closes' => c = current'
        BY <2>0, <4>1, <4>2, <4>3, <4>4, <4>5
      <4>8. ASSUME NEW c \in DOMAIN era', NEW d \in DOMAIN era', era'[c] = era'[d]
            PROVE  c = d
        <5>1. CASE c \in 1 .. Len(sent) /\ d \in 1 .. Len(sent)
          BY <2>0, <4>3, <4>8, <5>1 DEF OneChannel
        <5>2. CASE c = Len(sent) + 1 \/ d = Len(sent) + 1
          BY <2>0, <4>3, <4>4, <4>5, <4>8, <5>2
        <5> QED BY <4>5, <5>1, <5>2
      <4> QED BY <4>6, <4>7, <4>8 DEF OneChannel
    <3> QED BY <3>1, <3>2
  <2>3. CASE Close
    <3>1. era' = era /\ closes' = closes + 1
      BY <2>3 DEF Close
    <3>2. \A c \in DOMAIN era : era[c] <= closes + 1 /\ era[c] # closes + 1
      BY <2>0 DEF OneChannel
    <3> QED BY <3>1, <3>2 DEF OneChannel
  <2>4. ASSUME NEW x \in Threads, Found(x) \/ Missed(x) PROVE OneChannel'
    BY <2>1, <2>4 DEF Found, Missed
  <2>5. ASSUME NEW p \in Publishers, Send(p) PROVE OneChannel'
    BY <2>1, <2>5 DEF Send
  <2>6. ASSUME NEW w \in Watchers, Subscribe(w) \/ Recv(w) \/ Disconnect(w)
        PROVE  OneChannel'
    BY <2>1, <2>6
    DEF Subscribe, Recv, Lag, Forward, FindGone, FindClosed, Disconnect
  <2>7. CASE UNCHANGED vars
    BY <2>1, <2>7 DEF vars
  <2> QED BY <2>2, <2>3, <2>4, <2>5, <2>6, <2>7 DEF Next
<1> QED BY <1>1, <1>2, TypeCorrect, PTL DEF Spec

-----------------------------------------------------------------------------
(* Each kind of step keeps FeedInv.                                         *)

\* A step that sends, reads and subscribes nothing: at most it adds an empty
\* channel and moves threads that read none.
LEMMA QuietSteps ==
  ASSUME TypeOK, FeedInv,
         UNCHANGED <<next, feed, skipped, owed, published>>,
         \A c \in DOMAIN sent : sent'[c] = sent[c],
         \A c \in DOMAIN sent' : c \in DOMAIN sent \/ sent'[c] = <<>>,
         \A w \in Watchers : thread'[w] = "reading" =>
             thread[w] = "reading" /\ chan'[w] = chan[w],
         \A w \in Watchers : thread'[w] \in {"idle", "missed", "found"} =>
             thread[w] \in {"idle", "missed", "found"}
  PROVE  FeedInv'
<1>0. /\ \A w \in Watchers : w \in Threads
      /\ \A w \in Watchers : thread[w] = "reading" => chan[w] \in DOMAIN sent
  BY DEF Threads, TypeOK, NoChannel
<1>1. SentInOrder'
  <2> SUFFICES ASSUME NEW c \in DOMAIN sent'
               PROVE  /\ Rising(sent'[c])
                      /\ \A i \in DOMAIN sent'[c] : sent'[c][i] <= published
    BY DEF SentInOrder
  <2>1. CASE c \in DOMAIN sent
    BY <2>1 DEF FeedInv, SentInOrder
  <2>2. CASE sent'[c] = <<>>
    BY <2>2 DEF Rising
  <2> QED BY <2>1, <2>2
<1>2. FeedInOrder' /\ NothingYet'
  BY DEF FeedInv, FeedInOrder, NothingYet
<1>3. Accounted'
  <2> SUFFICES ASSUME NEW w \in Watchers, thread'[w] = "reading"
               PROVE  /\ \A i \in DOMAIN feed[w], j \in Ahead(w)' :
                             feed[w][i] < sent'[chan'[w]][j]
                      /\ Elements(feed[w]) \union {sent'[chan'[w]][j] : j \in Ahead(w)'}
                             = owed[w] \ skipped[w]
    BY DEF Accounted
  <2>1. thread[w] = "reading" /\ sent'[chan'[w]] = sent[chan[w]]
    BY <1>0
  <2>2. Ahead(w)' = Ahead(w)
    BY <2>1 DEF Ahead
  <2> QED BY <2>1, <2>2 DEF FeedInv, Accounted
<1> QED BY <1>1, <1>2, <1>3 DEF FeedInv

\* Where a watcher stands in its channel.
LEMMA ReadingFacts ==
  ASSUME TypeOK, NEW w \in Watchers, thread[w] = "reading"
  PROVE  /\ w \in Threads /\ chan[w] \in DOMAIN sent
         /\ sent[chan[w]] \in Seq(Nat) /\ next[w] \in 0 .. Len(sent[chan[w]])
         /\ Len(sent[chan[w]]) \in Nat
         /\ DOMAIN sent[chan[w]] = 1 .. Len(sent[chan[w]])
         /\ feed[w] \in Seq(Nat)
  BY DEF Threads, TypeOK, NoChannel

\* What a sequence is after an event greater than all of it.
LEMMA AppendedEvent ==
  ASSUME NEW f \in Seq(Nat), NEW e \in Nat
  PROVE  /\ Append(f, e) \in Seq(Nat)
         /\ \A i \in DOMAIN Append(f, e) :
               \/ i \in DOMAIN f /\ Append(f, e)[i] = f[i]
               \/ Append(f, e)[i] = e
         /\ Elements(Append(f, e)) = Elements(f) \union {e}
         /\ Rising(f) /\ (\A i \in DOMAIN f : f[i] < e) => Rising(Append(f, e))
<1> DEFINE g == Append(f, e)
           m == Len(f) + 1
<1>1. /\ m \in Nat /\ DOMAIN f = 1 .. Len(f) /\ DOMAIN g = 1 .. m
      /\ DOMAIN g = DOMAIN f \union {m} /\ g \in Seq(Nat)
      /\ \A i \in DOMAIN f : g[i] = f[i] /\ i < m /\ i \in Nat
      /\ g[m] = e
  <2>1. Len(f) \in Nat /\ DOMAIN f = 1 .. Len(f)
    BY LenProperties
  <2>2. g \in Seq(Nat) /\ Len(g) = m /\ (\A i \in 1 .. Len(f) : g[i] = f[i]) /\ g[m] = e
    BY AppendProperties
  <2>3. DOMAIN g = 1 .. m
    BY <2>2, LenProperties
  <2> QED BY <2>1, <2>2, <2>3
<1> HIDE DEF g, m
<1>2. \A i \in DOMAIN g : 
         \/ i \in DOMAIN f /\ g[i] = f[i]
         \/ i = m /\ g[i] = e
  <2> TAKE i \in DOMAIN g
  <2>1. CASE i = m
    BY <1>1, <2>1
  <2>2. CASE i # m
    BY <1>1, <2>2
  <2> QED BY <2>1, <2>2
<1>3. Elements(g) = Elements(f) \union {e}
  <2>1. Elements(g) \subseteq Elements(f) \union {e}
    BY <1>2 DEF Elements
  <2>2. Elements(f) \union {e} \subseteq Elements(g)
    BY <1>1 DEF Elements
  <2> QED BY <2>1, <2>2
<1>4. ASSUME Rising(f), \A i \in DOMAIN f : f[i] < e PROVE Rising(g)
  <2> SUFFICES ASSUME NEW i \in DOMAIN g, NEW j \in DOMAIN g, i < j
               PROVE  g[i] < g[j]
    BY DEF Rising
  <2>1. i \in DOMAIN f
    <3>1. i # m
      <4>1. j \in 1 .. m /\ i \in 1 .. m /\ m \in Nat
        BY <1>1
      <4> QED BY <4>1
    <3> QED BY <1>1, <3>1
  <2>2. CASE j \in DOMAIN f
    BY <1>1, <1>4, <2>1, <2>2 DEF Rising
  <2>3. CASE j = m
    BY <1>1, <1>4, <2>1, <2>3
  <2> QED BY <1>1, <2>2, <2>3
<1> QED BY <1>1, <1>2, <1>3, <1>4 DEF g

LEMMA SendStep ==
  ASSUME TypeOK, OneChannel, FeedInv, NEW p \in Publishers, Send(p)
  PROVE  FeedInv'
<1> DEFINE c == chan[p]
           e == published + 1
<1>0. /\ p \in Threads /\ c \in DOMAIN sent
      /\ sent[c] \in Seq(Nat) /\ published \in Nat
      /\ \A w \in Watchers : w \in Threads
      /\ \A w \in Watchers : thread[w] = "reading" => chan[w] \in DOMAIN sent
  BY FeedAssumption DEF Threads, TypeOK, NoChannel, Send, Move
<1>8. \A w \in Watchers : Concerns(c, w) <=> thread[w] = "reading" /\ chan[w] = c
  <2>1. DOMAIN era = DOMAIN sent
    BY DEF TypeOK
  <2> QED BY <1>0, <2>1 DEF Concerns, OneChannel
<1>1. /\ UNCHANGED <<current, chan, next, connected, feed, skipped, closes, era>>
      /\ published' = e
      /\ \A w \in Watchers : thread'[w] = thread[w]
  BY FeedAssumption DEF Send, Move, TypeOK, reader
<1>2. /\ sent' = sent \/ sent' = [sent EXCEPT ![c] = Append(@, e)]
      /\ \A w \in Watchers : thread[w] = "reading" /\ chan[w] = c =>
            /\ sent' = [sent EXCEPT ![c] = Append(@, e)]
            /\ owed'[w] = owed[w] \union {e}
      /\ \A w \in Watchers : ~(thread[w] = "reading" /\ chan[w] = c) =>
            owed'[w] = owed[w]
  BY <1>0, <1>8 DEF Send, Receivers
<1>3. /\ Append(sent[c], e) \in Seq(Nat)
      /\ Len(Append(sent[c], e)) = Len(sent[c]) + 1
      /\ \A i \in 1 .. Len(sent[c]) : Append(sent[c], e)[i] = sent[c][i]
      /\ Append(sent[c], e)[Len(sent[c]) + 1] = e
  BY <1>0, AppendProperties
<1>4. SentInOrder'
  <2> SUFFICES ASSUME NEW d \in DOMAIN sent'
               PROVE  /\ Rising(sent'[d])
                      /\ \A i \in DOMAIN sent'[d] : sent'[d][i] <= e
    BY <1>1 DEF SentInOrder
  <2>1. d \in DOMAIN sent /\ sent[d] \in Seq(Nat)
    BY <1>2 DEF TypeOK
  <2>2. /\ Rising(sent[d])
        /\ \A i \in DOMAIN sent[d] : sent[d][i] <= published /\ sent[d][i] \in Nat
    BY <2>1 DEF FeedInv, SentInOrder
  <2>3. CASE sent'[d] = sent[d]
    BY <1>0, <2>2, <2>3
  <2>4. CASE d = c /\ sent'[d] = Append(sent[c], e)
    <3>1. /\ \A i \in DOMAIN sent'[d] :
                \/ i \in DOMAIN sent[c] /\ sent'[d][i] = sent[c][i]
                \/ sent'[d][i] = e
          /\ (\A i \in DOMAIN sent[c] : sent[c][i] < e) => Rising(sent'[d])
      BY <1>0, <2>2, <2>4, AppendedEvent
    <3>2. \A i \in DOMAIN sent[c] : sent[c][i] < e
      BY <1>0, <2>2, <2>4
    <3> QED BY <1>0, <2>4, <3>1, <3>2
  <2>5. sent'[d] = sent[d] \/ (d = c /\ sent'[d] = Append(sent[c], e))
    BY <1>0, <1>2, <2>1
  <2> QED BY <2>3, <2>4, <2>5
<1>5. FeedInOrder'
  <2> SUFFICES ASSUME NEW w \in Watchers
               PROVE  /\ Rising(feed[w])
                      /\ \A i \in DOMAIN feed[w] : feed[w][i] <= e
                      /\ skipped[w] \subseteq 0 .. e
    BY <1>1 DEF FeedInOrder
  <2>1. /\ Rising(feed[w]) /\ skipped[w] \subseteq 0 .. published
        /\ \A i \in DOMAIN feed[w] : feed[w][i] <= published
    BY DEF FeedInv, FeedInOrder
  <2>2. \A i \in DOMAIN feed[w] : feed[w][i] \in Nat
    BY DEF TypeOK
  <2> QED BY <1>0, <2>1, <2>2
<1>6. NothingYet'
  BY <1>1, <1>2 DEF FeedInv, NothingYet
<1>7. Accounted'
  <2> SUFFICES ASSUME NEW w \in Watchers, thread[w] = "reading"
               PROVE  /\ \A i \in DOMAIN feed[w], j \in Ahead(w)' :
                             feed[w][i] < sent'[chan[w]][j]
                      /\ Elements(feed[w]) \union {sent'[chan[w]][j] : j \in Ahead(w)'}
                             = owed'[w] \ skipped[w]
    BY <1>0, <1>1 DEF Accounted
  <2>1. CASE chan[w] = c
    <3>1. /\ next[w] \in 0 .. Len(sent[c])
          /\ feed[w] \in Seq(Nat)
          /\ e \notin skipped[w]
      <4>1. next[w] \in 0 .. Len(sent[c]) /\ feed[w] \in Seq(Nat)
        BY <2>1, ReadingFacts
      <4>2. skipped[w] \subseteq 0 .. published
        BY DEF FeedInv, FeedInOrder
      <4> QED BY <1>0, <4>1, <4>2
    <3>2. /\ sent'[c] = Append(sent[c], e)
          /\ Len(sent'[c]) = Len(sent[c]) + 1
          /\ owed'[w] = owed[w] \union {e}
      BY <1>0, <1>2, <1>3, <2>1
    <3>3. /\ Ahead(w) = next[w] + 1 .. Len(sent[c])
          /\ Ahead(w)' = Ahead(w) \union {Len(sent[c]) + 1}
      BY <1>0, <1>1, <2>1, <3>1, <3>2 DEF Ahead
    <3>4. /\ \A j \in Ahead(w) : sent'[c][j] = sent[c][j]
          /\ sent'[c][Len(sent[c]) + 1] = e
      BY <1>0, <1>3, <3>1, <3>2, <3>3
    <3>5. {sent'[c][j] : j \in Ahead(w)'} = {sent[c][j] : j \in Ahead(w)} \union {e}
      BY <3>3, <3>4
    <3>6. \A i \in DOMAIN feed[w] : feed[w][i] < e
      <4>1. \A i \in DOMAIN feed[w] : feed[w][i] <= published
        BY DEF FeedInv, FeedInOrder
      <4>2. \A i \in DOMAIN feed[w] : feed[w][i] \in Nat
        BY <3>1
      <4> QED BY <1>0, <4>1, <4>2
    <3>7. /\ \A i \in DOMAIN feed[w], j \in Ahead(w) : feed[w][i] < sent[c][j]
          /\ Elements(feed[w]) \union {sent[c][j] : j \in Ahead(w)} = owed[w] \ skipped[w]
      BY <1>0, <2>1 DEF FeedInv, Accounted
    <3>8. \A i \in DOMAIN feed[w], j \in Ahead(w)' : feed[w][i] < sent'[c][j]
      BY <3>3, <3>4, <3>6, <3>7
    <3>9. Elements(feed[w]) \union {sent'[c][j] : j \in Ahead(w)'}
             = owed'[w] \ skipped[w]
      <4>1. owed'[w] \ skipped[w] = (owed[w] \ skipped[w]) \union {e}
        BY <3>1, <3>2
      <4> QED BY <3>5, <3>7, <4>1
    <3> QED BY <2>1, <3>8, <3>9
  <2>2. CASE chan[w] # c
    <3>1. /\ sent'[chan[w]] = sent[chan[w]] /\ owed'[w] = owed[w]
      BY <1>0, <1>2, <2>2
    <3>2. Ahead(w)' = Ahead(w)
      BY <1>1, <3>1 DEF Ahead
    <3> QED BY <3>1, <3>2 DEF FeedInv, Accounted
  <2> QED BY <2>1, <2>2
<1> QED BY <1>4, <1>5, <1>6, <1>7 DEF FeedInv

LEMMA SubscribeStep ==
  ASSUME TypeOK, FeedInv, NEW w \in Watchers, Subscribe(w)
  PROVE  FeedInv'
<1>0. /\ w \in Threads /\ thread[w] = "found" /\ chan[w] \in DOMAIN sent
      /\ Len(sent[chan[w]]) \in Nat
      /\ \A v \in Watchers : v \in Threads
  BY DEF Threads, TypeOK, NoChannel, Subscribe, Move
<1>1. /\ UNCHANGED <<sent, chan, feed, skipped, owed, published>>
      /\ thread'[w] = "reading" /\ next'[w] = Len(sent[chan[w]])
      /\ \A v \in Watchers : v # w => thread'[v] = thread[v] /\ next'[v] = next[v]
  BY <1>0 DEF Subscribe, Move, TypeOK
<1>2. SentInOrder' /\ FeedInOrder' /\ NothingYet'
  BY <1>1 DEF FeedInv, SentInOrder, FeedInOrder, NothingYet
<1>3. Accounted'
  <2> SUFFICES ASSUME NEW v \in Watchers, thread'[v] = "reading"
               PROVE  /\ \A i \in DOMAIN feed[v], j \in Ahead(v)' :
                             feed[v][i] < sent[chan[v]][j]
                      /\ Elements(feed[v]) \union {sent[chan[v]][j] : j \in Ahead(v)'}
                             = owed[v] \ skipped[v]
    BY <1>1 DEF Accounted
  <2>1. CASE v = w
    <3>1. Ahead(w)' = {}
      BY <1>0, <1>1 DEF Ahead
    <3>2. feed[w] = <<>> /\ skipped[w] = {} /\ owed[w] = {}
      BY <1>0 DEF FeedInv, NothingYet
    <3> QED BY <2>1, <3>1, <3>2 DEF Elements
  <2>2. CASE v # w
    <3>1. Ahead(v)' = Ahead(v) /\ thread[v] = "reading"
      BY <1>1, <2>2 DEF Ahead
    <3> QED BY <3>1 DEF FeedInv, Accounted
  <2> QED BY <2>1, <2>2
<1> QED BY <1>2, <1>3 DEF FeedInv

\* A step of one watcher leaves what the others read as it was.
LEMMA OthersAccounted ==
  ASSUME FeedInv, NEW w \in Watchers, UNCHANGED <<sent, thread, chan, owed>>,
         \A v \in Watchers : v # w =>
             next'[v] = next[v] /\ feed'[v] = feed[v] /\ skipped'[v] = skipped[v],
         thread[w] = "reading" =>
             /\ \A i \in DOMAIN feed'[w], j \in Ahead(w)' : feed'[w][i] < sent[chan[w]][j]
             /\ Elements(feed'[w]) \union {sent[chan[w]][j] : j \in Ahead(w)'}
                    = owed[w] \ skipped'[w]
  PROVE  Accounted'
<1> SUFFICES ASSUME NEW v \in Watchers, thread[v] = "reading"
             PROVE  /\ \A i \in DOMAIN feed'[v], j \in Ahead(v)' :
                           feed'[v][i] < sent[chan[v]][j]
                    /\ Elements(feed'[v]) \union {sent[chan[v]][j] : j \in Ahead(v)'}
                           = owed[v] \ skipped'[v]
  BY DEF Accounted
<1>1. CASE v = w
  BY <1>1
<1>2. CASE v # w
  <2>1. Ahead(v)' = Ahead(v)
    BY <1>2 DEF Ahead
  <2> QED BY <1>2, <2>1 DEF FeedInv, Accounted
<1> QED BY <1>1, <1>2

LEMMA LagStep ==
  ASSUME TypeOK, FeedInv, NEW w \in Watchers, Lag(w)
  PROVE  FeedInv'
<1> DEFINE s == sent[chan[w]]
           oldest == Len(s) - Capacity
           lost == {s[i] : i \in next[w] + 1 .. oldest}
<1>0. /\ thread[w] = "reading" /\ chan[w] \in DOMAIN sent
      /\ s \in Seq(Nat) /\ next[w] \in Nat /\ Len(s) \in Nat
      /\ DOMAIN s = 1 .. Len(s) /\ feed[w] \in Seq(Nat)
      /\ oldest \in next[w] .. Len(s)
  <2>1. thread[w] = "reading" /\ Len(s) - next[w] > Capacity /\ Capacity \in Nat
    BY FeedAssumption DEF Lag, Behind
  <2> QED BY <2>1, ReadingFacts
<1>1. /\ UNCHANGED <<sent, thread, chan, feed, owed, published>>
      /\ next' = [next EXCEPT ![w] = oldest]
      /\ skipped' = [skipped EXCEPT ![w] = @ \union lost]
  BY DEF Lag, Overwritten
<1>2. /\ next'[w] = oldest
      /\ skipped'[w] = skipped[w] \union lost
      /\ \A v \in Watchers : v # w => next'[v] = next[v] /\ skipped'[v] = skipped[v]
  BY <1>1 DEF TypeOK
<1>3. /\ Rising(s)
      /\ \A i \in 1 .. Len(s) : s[i] \in 0 .. published
  <2>1. Rising(s) /\ \A i \in DOMAIN s : s[i] <= published /\ s[i] \in Nat
    BY <1>0 DEF FeedInv, SentInOrder
  <2>2. published \in Nat
    BY DEF TypeOK
  <2>3. \A i \in DOMAIN s : s[i] \in 0 .. published
    BY <2>1, <2>2
  <2> QED BY <1>0, <2>1, <2>3
<1>4. SentInOrder' /\ NothingYet'
  BY <1>0, <1>1, <1>2 DEF FeedInv, SentInOrder, NothingYet
<1>5. FeedInOrder'
  <2>1. lost \subseteq 0 .. published
    <3>1. \A i \in next[w] + 1 .. oldest : i \in 1 .. Len(s)
      BY <1>0
    <3> QED BY <1>3, <3>1
  <2>2. FeedInOrder
    BY DEF FeedInv
  <2>3. \A v \in Watchers : skipped'[v] \subseteq 0 .. published
    BY <1>1, <1>2, <2>1, <2>2 DEF FeedInOrder
  <2> QED BY <1>1, <1>2, <2>2, <2>3 DEF FeedInOrder
<1>6. Accounted'
  <2>1. /\ Ahead(w) = next[w] + 1 .. Len(s)
        /\ Ahead(w)' = oldest + 1 .. Len(s)
        /\ Ahead(w) = (next[w] + 1 .. oldest) \union Ahead(w)'
        /\ Ahead(w)' \subseteq 1 .. Len(s)
        /\ next[w] + 1 .. oldest \subseteq 1 .. Len(s)
        /\ \A i \in next[w] + 1 .. oldest, j \in Ahead(w)' : i < j
    BY <1>0, <1>1, <1>2 DEF Ahead
  <2>2. /\ \A i \in DOMAIN feed[w], j \in Ahead(w) : feed[w][i] < s[j]
        /\ Elements(feed[w]) \union {s[j] : j \in Ahead(w)} = owed[w] \ skipped[w]
    BY <1>0 DEF FeedInv, Accounted
  <2>3. ASSUME NEW i \in DOMAIN feed[w], NEW j \in next[w] + 1 .. oldest
        PROVE  feed[w][i] # s[j]
    <3>1. feed[w][i] \in Nat
      <4>1. feed[w] \in Seq(Nat)
        BY <1>0
      <4> QED BY <4>1, LenProperties
    <3>2. j \in 1 .. Len(s)
      BY <2>1
    <3>3. s[j] \in Nat
      BY <1>3, <3>2
    <3>4. feed[w][i] < s[j]
      BY <2>1, <2>2
    <3> QED BY <3>1, <3>3, <3>4
  <2>4. ASSUME NEW i \in next[w] + 1 .. oldest, NEW j \in Ahead(w)'
        PROVE  s[i] # s[j]
    <3>1. i \in DOMAIN s /\ j \in DOMAIN s /\ i < j
      BY <1>0, <2>1
    <3>2. s[i] < s[j] /\ s[i] \in Nat /\ s[j] \in Nat
      BY <1>0, <1>3, <3>1 DEF Rising
    <3> QED BY <3>2
  <2>5. {s[j] : j \in Ahead(w)} = lost \union {s[j] : j \in Ahead(w)'}
    BY <2>1
  <2>6. lost \intersect (Elements(feed[w]) \union {s[j] : j \in Ahead(w)'}) = {}
    BY <2>3, <2>4 DEF Elements
  <2>7. Elements(feed[w]) \union {s[j] : j \in Ahead(w)'} = owed[w] \ skipped'[w]
    BY <1>2, <2>2, <2>5, <2>6
  <2> QED BY <1>1, <1>2, <2>1, <2>2, <2>7, OthersAccounted
<1> QED BY <1>4, <1>5, <1>6 DEF FeedInv

LEMMA ForwardStep ==
  ASSUME TypeOK, FeedInv, NEW w \in Watchers, Forward(w)
  PROVE  FeedInv'
<1> DEFINE s == sent[chan[w]]
           n == next[w] + 1
<1>0. /\ thread[w] = "reading" /\ chan[w] \in DOMAIN sent
      /\ s \in Seq(Nat) /\ next[w] \in Nat /\ Len(s) \in Nat
      /\ DOMAIN s = 1 .. Len(s) /\ feed[w] \in Seq(Nat)
      /\ n \in 1 .. Len(s) /\ s[n] \in Nat
  <2>1. thread[w] = "reading" /\ Len(s) - next[w] \in 1 .. Capacity /\ Capacity \in Nat
    BY FeedAssumption DEF Forward, Behind
  <2>2. /\ chan[w] \in DOMAIN sent /\ s \in Seq(Nat) /\ feed[w] \in Seq(Nat)
        /\ next[w] \in Nat /\ Len(s) \in Nat /\ DOMAIN s = 1 .. Len(s)
    BY <2>1, ReadingFacts
  <2>3. n \in 1 .. Len(s)
    BY <2>1, <2>2
  <2>4. s[n] \in Nat
    BY <2>2, <2>3
  <2> QED BY <2>1, <2>2, <2>3, <2>4
<1>1. /\ UNCHANGED <<sent, thread, chan, skipped, owed, published>>
      /\ next' = [next EXCEPT ![w] = n]
      /\ feed' = [feed EXCEPT ![w] = Append(@, s[n])]
  BY DEF Forward
<1>2. /\ next'[w] = n
      /\ feed'[w] = Append(feed[w], s[n])
      /\ \A v \in Watchers : v # w => next'[v] = next[v] /\ feed'[v] = feed[v]
  BY <1>1 DEF TypeOK
<1>3. /\ Rising(s) /\ s[n] <= published /\ Rising(feed[w])
      /\ \A i \in DOMAIN feed[w] : feed[w][i] <= published
  BY <1>0 DEF FeedInv, SentInOrder, FeedInOrder
<1>4. /\ \A i \in DOMAIN feed'[w] :
            \/ i \in DOMAIN feed[w] /\ feed'[w][i] = feed[w][i]
            \/ feed'[w][i] = s[n]
      /\ Elements(feed'[w]) = Elements(feed[w]) \union {s[n]}
      /\ (\A i \in DOMAIN feed[w] : feed[w][i] < s[n]) => Rising(feed'[w])
  <2>1. feed[w] \in Seq(Nat) /\ s[n] \in Nat
    BY <1>0
  <2>2. /\ \A i \in DOMAIN Append(feed[w], s[n]) :
              \/ i \in DOMAIN feed[w] /\ Append(feed[w], s[n])[i] = feed[w][i]
              \/ Append(feed[w], s[n])[i] = s[n]
        /\ Elements(Append(feed[w], s[n])) = Elements(feed[w]) \union {s[n]}
        /\ Rising(feed[w]) /\ (\A i \in DOMAIN feed[w] : feed[w][i] < s[n])
              => Rising(Append(feed[w], s[n]))
    BY <2>1, AppendedEvent
  <2> QED BY <1>2, <1>3, <2>2
<1>5. SentInOrder' /\ NothingYet'
  <2>1. SentInOrder'
    BY <1>1 DEF FeedInv, SentInOrder
  <2>2. NothingYet'
    BY <1>0, <1>1, <1>2 DEF FeedInv, NothingYet
  <2> QED BY <2>1, <2>2
<1>6. /\ \A i \in DOMAIN feed[w], j \in Ahead(w) : feed[w][i] < s[j]
      /\ Elements(feed[w]) \union {s[j] : j \in Ahead(w)} = owed[w] \ skipped[w]
  BY <1>0 DEF FeedInv, Accounted
<1>7. /\ Ahead(w) = {n} \union Ahead(w)'
      /\ Ahead(w)' = n + 1 .. Len(s)
  BY <1>0, <1>1, <1>2 DEF Ahead
<1>8. FeedInOrder'
  <2>1. Rising(feed'[w])
    BY <1>4, <1>6, <1>7
  <2>2. \A i \in DOMAIN feed'[w] : feed'[w][i] <= published
    BY <1>3, <1>4
  <2> QED BY <1>1, <1>2, <2>1, <2>2 DEF FeedInv, FeedInOrder
<1>9. Accounted'
  <2>1. \A j \in Ahead(w)' : s[n] < s[j]
    <3> SUFFICES ASSUME NEW j \in n + 1 .. Len(s) PROVE s[n] < s[j]
      BY <1>7
    <3>1. j \in DOMAIN s /\ n \in DOMAIN s /\ n < j
      BY <1>0
    <3> QED BY <1>3, <3>1 DEF Rising
  <2>2. \A i \in DOMAIN feed'[w], j \in Ahead(w)' : feed'[w][i] < s[j]
    BY <1>4, <1>6, <1>7, <2>1
  <2>4. {s[j] : j \in Ahead(w)} = {s[n]} \union {s[j] : j \in Ahead(w)'}
    BY <1>7
  <2>5. Elements(feed'[w]) \union {s[j] : j \in Ahead(w)'} = owed[w] \ skipped'[w]
    BY <1>1, <1>4, <1>6, <2>4
  <2> QED BY <1>1, <1>2, <2>2, <2>5, OthersAccounted
<1> QED BY <1>5, <1>8, <1>9 DEF FeedInv

-----------------------------------------------------------------------------
(* The theorems.                                                            *)

\* The inductive invariant holds.
THEOREM FeedInvHolds == Spec => []FeedInv
<1>1. Init => FeedInv
  BY DEF Init, FeedInv, SentInOrder, FeedInOrder, NothingYet, Accounted, Rising, Threads
<1>2. TypeOK /\ OneChannel /\ FeedInv /\ [Next]_vars => FeedInv'
  <2> SUFFICES ASSUME TypeOK, OneChannel, FeedInv, [Next]_vars PROVE FeedInv'
    OBVIOUS
  <2>0. /\ Publishers \subseteq Threads /\ Watchers \subseteq Threads
        /\ thread \in [Threads -> {"idle", "missed", "found", "reading", "ended"}]
        /\ chan \in [Threads -> 0 .. Len(sent)]
        /\ sent \in Seq(Seq(Nat))
    BY DEF Threads, TypeOK
  <2>1. ASSUME NEW x \in Threads, Found(x) \/ Missed(x) PROVE FeedInv'
    <3>1. UNCHANGED <<sent, next, feed, skipped, owed, published>>
      BY <2>1 DEF Found, Missed, reader
    <3>2. /\ thread[x] = "idle" /\ thread'[x] \in {"found", "missed"}
          /\ \A y \in Threads : y # x => thread'[y] = thread[y] /\ chan'[y] = chan[y]
      BY <2>0, <2>1 DEF Found, Missed, Move
    <3>3. \A w \in Watchers : thread'[w] = "reading" =>
              thread[w] = "reading" /\ chan'[w] = chan[w]
      BY <2>0, <3>2
    <3>4. \A w \in Watchers : thread'[w] \in {"idle", "missed", "found"} =>
              thread[w] \in {"idle", "missed", "found"}
      BY <2>0, <3>2
    <3> QED BY <3>1, <3>3, <3>4, QuietSteps
  <2>2. ASSUME NEW x \in Threads, Insert(x) PROVE FeedInv'
    <3>1. UNCHANGED <<next, feed, skipped, owed, published>>
      BY <2>2 DEF Insert, reader
    <3>2. /\ thread[x] = "missed" /\ thread'[x] = "found"
          /\ \A y \in Threads : y # x => thread'[y] = thread[y] /\ chan'[y] = chan[y]
      BY <2>0, <2>2 DEF Insert, Move
    <3>3. /\ \A c \in DOMAIN sent : sent'[c] = sent[c]
          /\ \A c \in DOMAIN sent' : c \in DOMAIN sent \/ sent'[c] = <<>>
      <4>1. CASE sent' = sent
        BY <4>1
      <4>2. CASE sent' = Append(sent, <<>>)
        <5>1. <<>> \in Seq(Nat)
          OBVIOUS
        <5>2. /\ Len(sent) \in Nat /\ DOMAIN sent = 1 .. Len(sent)
              /\ DOMAIN sent' = 1 .. Len(sent) + 1
              /\ \A c \in 1 .. Len(sent) : sent'[c] = sent[c]
              /\ sent'[Len(sent) + 1] = <<>>
          BY <2>0, <4>2, <5>1, AppendProperties
        <5> QED BY <5>2
      <4> QED BY <2>2, <4>1, <4>2 DEF Insert, MakeChannel
    <3>4. \A w \in Watchers : thread'[w] = "reading" =>
              thread[w] = "reading" /\ chan'[w] = chan[w]
      BY <2>0, <3>2
    <3>5. \A w \in Watchers : thread'[w] \in {"idle", "missed", "found"} =>
              thread[w] \in {"idle", "missed", "found"}
      BY <2>0, <3>2
    <3> QED BY <3>1, <3>3, <3>4, <3>5, QuietSteps
  <2>3. ASSUME NEW w \in Watchers, FindGone(w) \/ FindClosed(w) \/ Disconnect(w)
        PROVE  FeedInv'
    <3>1. /\ UNCHANGED <<sent, chan, next, feed, skipped, owed, published>>
          /\ thread' = thread \/ thread' = [thread EXCEPT ![w] = "ended"]
      BY <2>3 DEF FindGone, FindClosed, Disconnect, Move, reader
    <3>2. \A v \in Watchers : thread'[v] # "ended" => thread'[v] = thread[v]
      BY <2>0, <3>1
    <3> QED BY <3>1, <3>2, QuietSteps
  <2>4. CASE UNCHANGED vars \/ Close
    BY <2>4, QuietSteps DEF vars, reader, Close
  <2> QED
    BY <2>0, <2>1, <2>2, <2>3, <2>4, SendStep, SubscribeStep, LagStep, ForwardStep
    DEF Next, Recv
<1> QED BY <1>1, <1>2, TypeCorrect, OneChannelHolds, PTL DEF Spec

\* Position j of a sequence of k elements and the last m - n of m others.
LEMMA Shift ==
  ASSUME NEW k \in Nat, NEW m \in Nat, NEW n \in Nat, n <= m,
         NEW j \in 1 .. k + (m - n), j \notin 1 .. k
  PROVE  /\ j \in k + 1 .. k + (m - n)
         /\ n + (j - k) \in n + 1 .. m
         /\ n + (j - k) \in 1 .. m
  OBVIOUS

\* What a client was shown, followed by what waits for it.
LEMMA FeedThenWaiting ==
  ASSUME NEW f \in Seq(Nat), NEW s \in Seq(Nat), NEW n \in 0 .. Len(s),
         Rising(f), Rising(s),
         \A i \in DOMAIN f, j \in n + 1 .. Len(s) : f[i] < s[j]
  PROVE  LET shown == f \o SubSeq(s, n + 1, Len(s))
         IN  /\ Rising(shown)
             /\ Elements(shown) = Elements(f) \union {s[j] : j \in n + 1 .. Len(s)}
<1> DEFINE rest == SubSeq(s, n + 1, Len(s))
           shown == f \o rest
           k == Len(f)
<1>1. /\ k \in Nat /\ DOMAIN f = 1 .. k /\ Len(s) \in Nat /\ n \in Nat
      /\ DOMAIN s = 1 .. Len(s) /\ n <= Len(s)
  BY LenProperties
<1>2. /\ rest \in Seq(Nat) /\ Len(rest) = Len(s) - n
      /\ \A i \in 1 .. Len(s) - n : rest[i] = s[n + i]
  <2>1. \A i \in n + 1 .. Len(s) : s[i] \in Nat
    BY <1>1
  <2>2. n + 1 \in Int /\ Len(s) \in Int
    BY <1>1
  <2>3. /\ rest \in Seq(Nat)
        /\ Len(rest) = IF n + 1 <= Len(s) THEN Len(s) - (n + 1) + 1 ELSE 0
        /\ \A i \in 1 .. Len(s) - (n + 1) + 1 : rest[i] = s[n + 1 + i - 1]
    BY <2>1, <2>2, SubSeqProperties
  <2>4. Len(rest) = Len(s) - n
    <3>1. CASE n + 1 <= Len(s)
      BY <1>1, <2>3, <3>1
    <3>2. CASE ~(n + 1 <= Len(s))
      <4>1. \A a, b \in Nat : a <= b /\ ~(a + 1 <= b) => b - a = 0
        OBVIOUS
      <4>2. Len(s) - n = 0
        BY <1>1, <3>2, <4>1
      <4> QED BY <2>3, <3>2, <4>2
    <3> QED BY <3>1, <3>2
  <2>5. ASSUME NEW i \in 1 .. Len(s) - n
        PROVE  rest[i] = s[n + i]
    <3>1. i \in 1 .. Len(s) - (n + 1) + 1 /\ n + 1 + i - 1 = n + i
      BY <1>1
    <3> QED BY <2>3, <3>1
  <2> QED BY <2>3, <2>4, <2>5
<1>3. /\ DOMAIN shown = 1 .. k + (Len(s) - n)
      /\ \A i \in 1 .. k : shown[i] = f[i]
      /\ \A i \in k + 1 .. k + (Len(s) - n) : shown[i] = s[n + (i - k)]
  <2>1. /\ shown \in Seq(Nat) /\ Len(shown) = k + (Len(s) - n)
        /\ \A i \in 1 .. k + (Len(s) - n) :
              shown[i] = IF i <= k THEN f[i] ELSE rest[i - k]
    BY <1>2, ConcatProperties
  <2>2. DOMAIN shown = 1 .. k + (Len(s) - n)
    BY <2>1, LenProperties
  <2>3. \A i \in 1 .. k : shown[i] = f[i]
    BY <1>1, <2>1
  <2>4. ASSUME NEW i \in k + 1 .. k + (Len(s) - n)
        PROVE  shown[i] = s[n + (i - k)]
    <3>1. shown[i] = rest[i - k]
      BY <1>1, <2>1
    <3>2. i - k \in 1 .. Len(s) - n
      BY <1>1
    <3> QED BY <1>2, <3>1, <3>2
  <2> QED BY <2>2, <2>3, <2>4
<1> HIDE DEF shown, rest, k
<1>4. Rising(shown)
  <2> SUFFICES ASSUME NEW i \in DOMAIN shown, NEW j \in DOMAIN shown, i < j
               PROVE  shown[i] < shown[j]
    BY DEF Rising
  <2>1. CASE j \in 1 .. k
    <3>1. i \in DOMAIN f /\ j \in DOMAIN f
      BY <1>1, <1>3, <2>1
    <3>2. f[i] < f[j] /\ i \in 1 .. k
      BY <1>1, <3>1 DEF Rising
    <3> QED BY <1>3, <2>1, <3>2
  <2>2. CASE i \in 1 .. k /\ j \notin 1 .. k
    <3>1. j \in k + 1 .. k + (Len(s) - n) /\ n + (j - k) \in n + 1 .. Len(s)
      BY <1>1, <1>3, <2>2, Shift
    <3>2. f[i] < s[n + (j - k)]
      BY <1>1, <2>2, <3>1
    <3> QED BY <1>3, <2>2, <3>1, <3>2
  <2>3. CASE i \notin 1 .. k /\ j \notin 1 .. k
    <3>1. /\ i \in k + 1 .. k + (Len(s) - n) /\ j \in k + 1 .. k + (Len(s) - n)
          /\ n + (i - k) \in DOMAIN s /\ n + (j - k) \in DOMAIN s
          /\ n + (i - k) < n + (j - k)
      <4>1. /\ i \in k + 1 .. k + (Len(s) - n) /\ n + (i - k) \in 1 .. Len(s)
            /\ j \in k + 1 .. k + (Len(s) - n) /\ n + (j - k) \in 1 .. Len(s)
        BY <1>1, <1>3, <2>3, Shift
      <4>2. n + (i - k) < n + (j - k)
        BY <1>1, <4>1
      <4> QED BY <1>1, <4>1, <4>2
    <3>2. s[n + (i - k)] < s[n + (j - k)]
      BY <3>1 DEF Rising
    <3> QED BY <1>3, <3>1, <3>2
  <2>4. j \notin 1 .. k => i \in 1 .. k \/ i \notin 1 .. k
    OBVIOUS
  <2> QED BY <2>1, <2>2, <2>3, <2>4
<1>5. Elements(shown) \subseteq Elements(f) \union {s[j] : j \in n + 1 .. Len(s)}
  <2> SUFFICES ASSUME NEW i \in DOMAIN shown
               PROVE  shown[i] \in Elements(f) \union {s[j] : j \in n + 1 .. Len(s)}
    BY DEF Elements
  <2>1. CASE i \in 1 .. k
    BY <1>1, <1>3, <2>1 DEF Elements
  <2>2. CASE i \notin 1 .. k
    <3>1. i \in k + 1 .. k + (Len(s) - n) /\ n + (i - k) \in n + 1 .. Len(s)
      BY <1>1, <1>3, <2>2, Shift
    <3> QED BY <1>3, <3>1
  <2> QED BY <2>1, <2>2
<1>6. Elements(f) \subseteq Elements(shown)
  <2>1. \A i \in DOMAIN f : i \in DOMAIN shown /\ shown[i] = f[i]
    BY <1>1, <1>3
  <2> QED BY <2>1 DEF Elements
<1>7. {s[j] : j \in n + 1 .. Len(s)} \subseteq Elements(shown)
  <2> SUFFICES ASSUME NEW j \in n + 1 .. Len(s) PROVE s[j] \in Elements(shown)
    OBVIOUS
  <2>1. /\ k + (j - n) \in k + 1 .. k + (Len(s) - n)
        /\ k + (j - n) \in DOMAIN shown
        /\ n + ((k + (j - n)) - k) = j
    BY <1>1, <1>3
  <2>2. shown[k + (j - n)] = s[j]
    BY <1>3, <2>1
  <2> QED BY <2>1, <2>2 DEF Elements
<1> QED BY <1>4, <1>5, <1>6, <1>7 DEF shown, rest

\* Every event published since a watcher subscribed, until its session is
\* closed, was sent to its client, waits for it or was reported lost, in order
\* and once: for any number of publishers and watchers and any capacity.
THEOREM NothingUnaccountedHolds == Spec => []NothingUnaccounted
<1>1. TypeOK /\ FeedInv => NothingUnaccounted
  <2> SUFFICES ASSUME TypeOK, FeedInv, NEW w \in Watchers, thread[w] = "reading"
               PROVE  LET shown == feed[w] \o Waiting(w)
                      IN  /\ Rising(shown)
                          /\ {shown[i] : i \in DOMAIN shown} = owed[w] \ skipped[w]
    BY DEF NothingUnaccounted
  <2>1. /\ chan[w] \in DOMAIN sent /\ sent[chan[w]] \in Seq(Nat)
        /\ next[w] \in 0 .. Len(sent[chan[w]]) /\ feed[w] \in Seq(Nat)
    BY ReadingFacts
  <2>2. Rising(feed[w]) /\ Rising(sent[chan[w]])
    BY <2>1 DEF FeedInv, FeedInOrder, SentInOrder
  <2>3. /\ \A i \in DOMAIN feed[w], j \in next[w] + 1 .. Len(sent[chan[w]]) :
               feed[w][i] < sent[chan[w]][j]
        /\ Elements(feed[w]) \union {sent[chan[w]][j] : j \in next[w] + 1 .. Len(sent[chan[w]])}
               = owed[w] \ skipped[w]
    BY DEF FeedInv, Accounted, Ahead
  <2> QED BY <2>1, <2>2, <2>3, FeedThenWaiting DEF Waiting, Elements
<1> QED BY <1>1, TypeCorrect, FeedInvHolds, PTL

-----------------------------------------------------------------------------
(* How much a watcher may lose.                                             *)

\* Events that follow each other on a channel were published at least as far
\* apart as they stand.
Spread(s) == \A i, j \in DOMAIN s : i <= j => s[i] + (j - i) <= s[j]

Spaced == \A c \in DOMAIN sent : Spread(sent[c])

LEMMA AppendSpread ==
  ASSUME NEW s \in Seq(Nat), NEW e \in Nat, Spread(s),
         \A i \in DOMAIN s : s[i] < e
  PROVE  Spread(Append(s, e))
<1> DEFINE a == Append(s, e)
           n == Len(s)
<1>1. n \in Nat /\ DOMAIN s = 1 .. n /\ \A i \in 1 .. n : s[i] \in Nat
  BY LenProperties
<1>2. /\ DOMAIN a = 1 .. n + 1 /\ a[n + 1] = e
      /\ \A i \in 1 .. n : a[i] = s[i]
  BY AppendProperties, LenProperties
<1> HIDE DEF a, n
<1> SUFFICES ASSUME NEW i \in 1 .. n + 1, NEW j \in 1 .. n + 1, i <= j
             PROVE  a[i] + (j - i) <= a[j]
  BY <1>2 DEF Spread, a
<1>3. CASE j # n + 1
  <2>1. i \in 1 .. n /\ j \in 1 .. n
    BY <1>1, <1>3
  <2>2. s[i] + (j - i) <= s[j]
    BY <1>1, <2>1 DEF Spread
  <2> QED BY <1>2, <2>1, <2>2
<1>4. CASE j = n + 1 /\ i # n + 1
  <2>1. i \in 1 .. n /\ n \in 1 .. n
    BY <1>1, <1>4
  <2>2. i \in DOMAIN s /\ n \in DOMAIN s /\ i <= n
    BY <1>1, <2>1
  <2>4. s[i] + (n - i) <= s[n]
    BY <2>2 DEF Spread
  <2>5. s[n] < e /\ s[i] \in Nat /\ s[n] \in Nat
    BY <1>1, <2>1, <2>2
  <2>3. s[i] + ((n + 1) - i) <= e
    BY <1>1, <2>1, <2>4, <2>5
  <2> QED BY <1>2, <1>4, <2>1, <2>3
<1>5. CASE j = n + 1 /\ i = n + 1
  BY <1>1, <1>2, <1>5
<1> QED BY <1>3, <1>4, <1>5

LEMMA SpacedStep ==
  ASSUME TypeOK, FeedInv, Spaced, [Next]_vars
  PROVE  Spaced'
<1>0. sent \in Seq(Seq(Nat)) /\ published \in Nat
  BY DEF TypeOK
<1>1. CASE sent' = sent
  BY <1>1 DEF Spaced
<1>2. ASSUME NEW x \in Threads, Insert(x) PROVE Spaced'
  <2>1. CASE sent' = Append(sent, <<>>)
    <3>1. <<>> \in Seq(Nat) /\ Spread(<<>>)
      BY DEF Spread
    <3>2. /\ Len(sent) \in Nat /\ DOMAIN sent = 1 .. Len(sent)
          /\ DOMAIN sent' = 1 .. Len(sent) + 1
          /\ \A c \in 1 .. Len(sent) : sent'[c] = sent[c]
          /\ sent'[Len(sent) + 1] = <<>>
      BY <1>0, <2>1, <3>1, AppendProperties
    <3> QED BY <3>1, <3>2 DEF Spaced
  <2> QED BY <1>1, <1>2, <2>1 DEF Insert, MakeChannel
<1>3. ASSUME NEW p \in Publishers, Send(p) PROVE Spaced'
  <2>1. CASE sent' = [sent EXCEPT ![chan[p]] = Append(@, published + 1)]
    <3> SUFFICES ASSUME NEW c \in DOMAIN sent PROVE Spread(sent'[c])
      BY <2>1 DEF Spaced
    <3>1. CASE c # chan[p]
      BY <2>1, <3>1 DEF Spaced
    <3>2. CASE c = chan[p]
      <4>1. sent'[c] = Append(sent[c], published + 1)
        BY <2>1, <3>2
      <4>2. sent[c] \in Seq(Nat) /\ Spread(sent[c]) /\ published + 1 \in Nat
        BY <1>0 DEF Spaced
      <4>3. \A i \in DOMAIN sent[c] : sent[c][i] < published + 1
        <5>1. \A i \in DOMAIN sent[c] : sent[c][i] <= published /\ sent[c][i] \in Nat
          BY <4>2, LenProperties DEF FeedInv, SentInOrder
        <5> QED BY <1>0, <5>1
      <4> QED BY <4>1, <4>2, <4>3, AppendSpread
    <3> QED BY <3>1, <3>2
  <2> QED BY <1>1, <1>3, <2>1 DEF Send
<1> QED
  BY <1>1, <1>2, <1>3
  DEF Next, Recv, Found, Missed, Subscribe, Lag, Forward, FindGone, FindClosed,
      Disconnect, Close, vars

\* What a watcher is told it missed was overwritten by Capacity newer events.
LEMMA LostToLag ==
  ASSUME TypeOK, FeedInv, Spaced, LossIsLag, NEW w \in Watchers, Lag(w)
  PROVE  LossIsLag'
<1> DEFINE s == sent[chan[w]]
           n == Len(s)
           lost == {s[i] : i \in next[w] + 1 .. n - Capacity}
<1>0. Capacity \in Nat \ {0} /\ published \in Nat
  BY FeedAssumption DEF TypeOK
<1>1. /\ chan[w] \in DOMAIN sent /\ s \in Seq(Nat) /\ next[w] \in Nat
      /\ n \in Nat /\ DOMAIN s = 1 .. n
  BY ReadingFacts DEF Lag
<1>2. /\ skipped' = [skipped EXCEPT ![w] = @ \union lost]
      /\ published' = published
  BY DEF Lag, Overwritten
<1>3. /\ \A i \in DOMAIN s : s[i] <= published /\ s[i] \in Nat
      /\ Spread(s)
  BY <1>1, LenProperties DEF FeedInv, SentInOrder, Spaced
<1> HIDE DEF s, n
<1>4. \A e \in lost : e + Capacity <= published
  <2> SUFFICES ASSUME NEW i \in next[w] + 1 .. n - Capacity
               PROVE  s[i] + Capacity <= published
    BY DEF lost
  <2>1. i \in 1 .. n /\ n \in 1 .. n /\ i <= n /\ Capacity <= n - i
    BY <1>0, <1>1
  <2>2. /\ s[i] + (n - i) <= s[n] /\ s[n] <= published
        /\ s[i] \in Nat /\ s[n] \in Nat
    BY <1>1, <1>3, <2>1 DEF Spread
  <2> QED BY <1>0, <1>1, <2>1, <2>2
<1> HIDE DEF lost
<1>5. skipped'[w] = skipped[w] \union lost /\ \A v \in Watchers : v # w => skipped'[v] = skipped[v]
  BY <1>2 DEF TypeOK
<1> QED BY <1>2, <1>4, <1>5 DEF LossIsLag

\* A watcher loses an event to lag only when Capacity newer ones have been
\* published since it: whatever the number of publishers, watchers and events.
THEOREM LossIsLagHolds == Spec => []LossIsLag
<1>1. Init => Spaced /\ LossIsLag
  BY DEF Init, Spaced, LossIsLag
<1>2. TypeOK /\ FeedInv /\ Spaced /\ LossIsLag /\ [Next]_vars => Spaced' /\ LossIsLag'
  <2> SUFFICES ASSUME TypeOK, FeedInv, Spaced, LossIsLag, [Next]_vars
               PROVE  LossIsLag'
    BY SpacedStep
  <2>1. CASE skipped' = skipped /\ published' = published
    BY <2>1 DEF LossIsLag
  <2>2. ASSUME NEW p \in Publishers, Send(p) PROVE LossIsLag'
    <3>1. skipped' = skipped /\ published' = published + 1
      BY <2>2 DEF Send, reader
    <3>2. \A w \in Watchers : \A e \in skipped[w] :
             e + Capacity \in Nat /\ e + Capacity <= published /\ published \in Nat
      BY FeedAssumption DEF LossIsLag, TypeOK
    <3>3. \A w \in Watchers : \A e \in skipped[w] : e + Capacity <= published + 1
      <4> SUFFICES ASSUME NEW w \in Watchers, NEW e \in skipped[w]
                   PROVE  e + Capacity <= published + 1
        OBVIOUS
      <4> DEFINE k == e + Capacity
      <4>1. k \in Nat /\ k <= published /\ published \in Nat
        BY <3>2
      <4> HIDE DEF k
      <4>2. k <= published + 1
        BY <4>1
      <4> QED BY <4>2 DEF k
    <3> QED BY <3>1, <3>3 DEF LossIsLag
  <2> QED
    BY <2>1, <2>2, LostToLag
    DEF Next, Recv, Found, Missed, Insert, Subscribe, Forward, FindGone, FindClosed,
        Disconnect, Close, vars, reader
<1> QED BY <1>1, <1>2, TypeCorrect, FeedInvHolds, PTL DEF Spec

=============================================================================
