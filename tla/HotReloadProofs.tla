-------------------------- MODULE HotReloadProofs --------------------------
(***************************************************************************)
(* Proofs about HotReload, for any files, skills, subscribers and bounds:   *)
(* types, that no change is forgotten, and that subscribers can follow the  *)
(* registry.                                                                *)
(***************************************************************************)
EXTENDS HotReload, TLAPS

(* A scan reads a file once.                                                *)

ScanOnce == /\ \A d, e \in found : d.file = e.file => d = e
            /\ \A e \in found : e.file \notin unread /\ e.file # opened
            /\ opened \notin unread

\* Of entries with different files, the winners have different names.
LEMMA WinnersDiffer ==
    ASSUME NEW entries \in SUBSET Entries,
           \A d, e \in entries : d.file = e.file => d = e
    PROVE  /\ Winners(entries) \subseteq entries
           /\ \A d, e \in Winners(entries) : Name(d) = Name(e) => d = e
<1>1. Winners(entries) \subseteq entries
  BY DEF Winners
<1>2. ASSUME NEW d \in Winners(entries), NEW e \in Winners(entries), Name(d) = Name(e)
      PROVE  d = e
  <2>1. d.file <= e.file /\ e.file <= d.file
    BY <1>2 DEF Winners
  <2>2. d.file \in Nat /\ e.file \in Nat
    BY <1>1, ReloadAssumption DEF Entries
  <2> QED BY <1>1, <2>1, <2>2
<1> QED BY <1>1, <1>2

\* What a scan would find on the disk.
LEMMA DiskEntries ==
    ASSUME disk \in [Files -> Contents]
    PROVE  /\ EntriesOnDisk \in SUBSET Entries
           /\ \A d, e \in EntriesOnDisk : d.file = e.file => d = e
           /\ BadFiles \subseteq Files
<1>1. ASSUME NEW e \in EntriesOnDisk
      PROVE  e.file \in Files /\ e = Entry(e.file, disk[e.file]) /\ e \in Entries
  <2>1. PICK f \in Files : disk[f] \in Skills /\ e = Entry(f, disk[f])
    BY DEF EntriesOnDisk
  <2> QED BY <2>1 DEF Entry, Entries
<1> QED BY <1>1 DEF BadFiles

\* The state keeps its types, and the registry one skill for a name.
THEOREM TypeCorrect == Spec => [](TypeOK /\ ScanOnce)
<1> USE ReloadAssumption
<1>1. Init => TypeOK /\ ScanOnce
  <2> SUFFICES ASSUME Init PROVE TypeOK /\ ScanOnce
    OBVIOUS
  <2>1. /\ EntriesOnDisk \in SUBSET Entries
        /\ \A d, e \in EntriesOnDisk : d.file = e.file => d = e
        /\ BadFiles \subseteq Files
    BY DiskEntries DEF Init
  <2>2. /\ registry \subseteq Entries /\ errors \subseteq Files
        /\ \A d, e \in registry : Name(d) = Name(e) => d = e
    BY <2>1, WinnersDiffer DEF Init
  <2>3. ScanOnce
    BY DEF Init, ScanOnce
  <2>4. /\ queue \in [Streams -> Seq(Events)] /\ view \in [Streams -> SUBSET Names]
        /\ changes \in 0 .. MaxChanges /\ reloads \in 0 .. MaxReloads
    BY DEF Init
  <2> QED BY <2>2, <2>3, <2>4 DEF Init, TypeOK
<1>2. TypeOK /\ ScanOnce /\ [Next]_vars => (TypeOK /\ ScanOnce)'
  <2> SUFFICES ASSUME TypeOK, ScanOnce, [Next]_vars PROVE TypeOK' /\ ScanOnce'
    OBVIOUS
  <2>0. Files \subseteq Nat /\ Nothing \notin Files
    BY DEF Nothing
  <2>1. CASE UNCHANGED vars
    BY <2>1 DEF vars, outside, scan, loaded, watch, TypeOK, ScanOnce
  <2>2. CASE World
    <3> DEFINE Typed ==
          /\ disk' \in [Files -> Contents]
          /\ watching' \in BOOLEAN /\ unheard' \in BOOLEAN /\ notices' \in Nat
          /\ changes' \in 0 .. MaxChanges
    <3>1. Typed
      <4>1. CASE StartWatching
        BY <4>1 DEF StartWatching, TypeOK
      <4>2. ASSUME NEW new \in [Files -> Contents], Becomes(new), Noticed
            PROVE  Typed
        <5>1. notices' \in Nat /\ unheard' \in BOOLEAN
          BY <4>2 DEF Noticed, TypeOK
        <5>2. /\ disk' \in [Files -> Contents] /\ watching' \in BOOLEAN
              /\ changes' \in 0 .. MaxChanges
          BY <4>2 DEF Becomes, TypeOK
        <5> QED BY <5>1, <5>2
      <4>3. ASSUME NEW f \in Files, DirectoryGoes(f) PROVE Typed
        <5>1. [disk EXCEPT ![f] = Absent] \in [Files -> Contents]
          BY DEF TypeOK, Contents
        <5> QED BY <4>3, <5>1 DEF DirectoryGoes, Becomes, TypeOK
      <4>4. ASSUME NEW f \in Files, NEW content \in Contents, Write(f, content) PROVE Typed
        <5>1. [disk EXCEPT ![f] = content] \in [Files -> Contents]
          BY DEF TypeOK
        <5> QED BY <4>2, <4>4, <5>1 DEF Write
      <4>5. ASSUME NEW f \in Files, NEW g \in Files, Move(f, g) PROVE Typed
        <5>1. [disk EXCEPT ![f] = Absent, ![g] = disk[f]] \in [Files -> Contents]
          BY DEF TypeOK, Contents
        <5> QED BY <4>2, <4>5, <5>1 DEF Move
      <4> QED BY <2>2, <4>1, <4>3, <4>4, <4>5 DEF World
    <3>2. UNCHANGED <<pending, task, phase, scan, loaded, todo, watch, reloads>>
      BY <2>2 DEF World, StartWatching, Write, Move, DirectoryGoes, Becomes
    <3> QED BY <3>1, <3>2 DEF Typed, scan, loaded, watch, TypeOK, ScanOnce
  <2>3. CASE Trigger \/ Wake \/ Reload \/ Finish
    <3>1. notices' \in Nat /\ reloads' \in 0 .. MaxReloads
      <4>1. notices \in Nat /\ reloads \in 0 .. MaxReloads
        BY DEF TypeOK
      <4>2. CASE Trigger
        <5>1. notices > 0 /\ notices' = notices - 1
          BY <4>2 DEF Trigger
        <5>2. reloads' = reloads
          BY <4>2 DEF Trigger
        <5> QED BY <4>1, <5>1, <5>2
      <4>3. CASE Reload
        <5>1. reloads < MaxReloads /\ reloads' = reloads + 1
          BY <4>3 DEF Reload
        <5>2. notices' = notices
          BY <4>3 DEF Reload
        <5> QED BY <4>1, <5>1, <5>2
      <4>4. CASE Wake \/ Finish
        BY <4>1, <4>4 DEF Wake, Finish
      <4> QED BY <2>3, <4>2, <4>3, <4>4
    <3>2. /\ pending' \in BOOLEAN
          /\ task' \in {"none", "asleep", "reloading", "done"}
          /\ phase' \in {"idle", "list", "read", "emit"}
      BY <2>3 DEF Trigger, Wake, Reload, Finish, TypeOK
    <3>3. UNCHANGED <<outside, scan, loaded, todo, watch>>
      BY <2>3 DEF Trigger, Wake, Reload, Finish
    <3> QED BY <3>1, <3>2, <3>3 DEF outside, scan, loaded, watch, TypeOK, ScanOnce
  <2>4. CASE List
    <3>1. unread' \subseteq Files
      BY <2>4 DEF List, Present
    <3> QED BY <2>0, <2>4, <3>1 DEF List, outside, loaded, watch, TypeOK, ScanOnce
  <2>5. ASSUME NEW f \in Files, Skip(f) \/ Open(f) PROVE TypeOK' /\ ScanOnce'
    <3>1. /\ unread' = unread \ {f} /\ f \in unread /\ opened = Nothing
          /\ opened' \in {Nothing, f} /\ found' = found /\ failed' = failed
      BY <2>5 DEF Skip, Open, Reach
    <3>2. UNCHANGED <<outside, notices, pending, task, phase, loaded, todo, watch,
                      reloads>>
      BY <2>5 DEF Skip, Open
    <3>3. ScanOnce'
      BY <2>0, <3>1 DEF ScanOnce, TypeOK
    <3> QED BY <3>1, <3>2, <3>3 DEF outside, loaded, watch, TypeOK
  <2>6. CASE Load
    <3>1. CASE disk[opened] \in Skills
      <4>1. opened \in Files /\ Entry(opened, disk[opened]) \in Entries
            /\ Entry(opened, disk[opened]).file = opened
        BY <2>6, <3>1 DEF Load, TypeOK, Entry, Entries
      <4>2. /\ found' = found \union {Entry(opened, disk[opened])}
            /\ opened' = Nothing /\ unread' = unread /\ failed' = failed
        BY <2>6, <3>1 DEF Load
      <4>3. ScanOnce'
        <5>1. \A e \in found : e.file \in Files
          BY DEF TypeOK, Entries
        <5> QED BY <2>0, <4>1, <4>2, <5>1 DEF ScanOnce, TypeOK
      <4> QED BY <2>6, <4>1, <4>2, <4>3 DEF Load, outside, loaded, watch, TypeOK
    <3>2. CASE disk[opened] \notin Skills
      <4>1. /\ failed' = failed \union {opened} /\ opened \in Files
            /\ opened' = Nothing /\ unread' = unread /\ found' = found
        BY <2>6, <3>2 DEF Load, TypeOK
      <4>2. \A e \in found : e.file \in Files
        BY DEF TypeOK, Entries
      <4>3. ScanOnce'
        BY <2>0, <4>1, <4>2 DEF ScanOnce, TypeOK
      <4> QED BY <2>6, <4>1, <4>3 DEF Load, outside, loaded, watch, TypeOK
    <3> QED BY <3>1, <3>2
  <2>7. CASE Replace
    <3>1. /\ registry' \subseteq Entries
          /\ \A d, e \in registry' : Name(d) = Name(e) => d = e
      BY <2>7, WinnersDiffer DEF Replace, TypeOK, ScanOnce
    <3>2. \A entries \in SUBSET Entries : NamesOf(entries) \subseteq Names
      BY DEF NamesOf, Name, Entries
    <3>3. todo' \subseteq Events
      BY <2>7, <3>1, <3>2 DEF Replace, Diff, Events, TypeOK
    <3> QED BY <2>7, <3>1, <3>3 DEF Replace, outside, scan, watch, TypeOK, ScanOnce
  <2>8. ASSUME NEW e \in todo, Emit(e) PROVE TypeOK' /\ ScanOnce'
    <3>1. queue' \in [Streams -> Seq(Events)]
      BY <2>8 DEF Emit, TypeOK
    <3> QED BY <2>8, <3>1 DEF Emit, outside, scan, loaded, TypeOK, ScanOnce
  <2>9. ASSUME NEW w \in Streams, Subscribe(w) \/ Deliver(w) \/ Unsubscribe(w)
        PROVE  TypeOK' /\ ScanOnce'
    <3>1. NamesOf(registry) \subseteq Names
      BY DEF NamesOf, Name, Entries, TypeOK
    <3>2. ASSUME queue[w] # <<>>
          PROVE  /\ Tail(queue[w]) \in Seq(Events)
                 /\ Heard(view[w], Head(queue[w])) \subseteq Names
      <4>1. queue[w] \in Seq(Events) /\ view[w] \subseteq Names
        BY DEF TypeOK
      <4>2. Tail(queue[w]) \in Seq(Events) /\ Head(queue[w]) \in Events
        BY <3>2, <4>1
      <4> QED BY <4>1, <4>2 DEF Heard, Events
    <3>3. /\ open' \subseteq Streams
          /\ queue' \in [Streams -> Seq(Events)]
          /\ view' \in [Streams -> SUBSET Names]
      <4>1. /\ open \subseteq Streams /\ queue \in [Streams -> Seq(Events)]
            /\ view \in [Streams -> SUBSET Names] /\ <<>> \in Seq(Events)
        BY DEF TypeOK
      <4>2. CASE Subscribe(w)
        BY <3>1, <4>1, <4>2 DEF Subscribe
      <4>3. CASE Deliver(w)
        BY <3>2, <4>1, <4>3 DEF Deliver
      <4>4. CASE Unsubscribe(w)
        BY <4>1, <4>4 DEF Unsubscribe
      <4> QED BY <2>9, <4>2, <4>3, <4>4
    <3>4. UNCHANGED <<outside, notices, pending, task, phase, scan, loaded, todo, reloads>>
      BY <2>9 DEF Subscribe, Deliver, Unsubscribe
    <3> QED BY <3>3, <3>4 DEF outside, scan, loaded, TypeOK, ScanOnce
  <2> QED
    BY <2>1, <2>2, <2>3, <2>4, <2>5, <2>6, <2>7, <2>8, <2>9
    DEF Next, Reloading, Clients
<1> QED BY <1>1, <1>2, PTL DEF Spec

(* No change is forgotten.                                                  *)

\* A scan no change has come into: it has what is on the disk, but for the
\* files still to be read.
Faithful ==
    /\ found \subseteq EntriesOnDisk
    /\ failed \subseteq BadFiles
    /\ opened # Nothing => opened \in Present
    /\ \A f \in Present : \/ f \in unread \/ f = opened \/ f \in failed
                          \/ Entry(f, disk[f]) \in found

\* No notice is on its way, and the last change gave one.
NoNews == notices = 0 /\ ~unheard

QuietInv == /\ NoNews /\ phase = "read" => Faithful
            /\ NoNews /\ phase = "emit" => Current
            /\ NoNews /\ phase = "idle" /\ ~pending => Current

\* When such a scan is over it has found just what is on the disk.
LEMMA FaithfulScan ==
    ASSUME TypeOK, Faithful, Scanned
    PROVE  found = EntriesOnDisk /\ failed = BadFiles
<1>0. \A f \in Present : f \in failed \/ Entry(f, disk[f]) \in found
  <2>1. unread = {} /\ opened = Nothing /\ \A f \in Files : f # Nothing
    BY ReloadAssumption DEF Scanned, Nothing
  <2> QED BY <2>1 DEF Faithful, Present
<1>1. ASSUME NEW e \in EntriesOnDisk PROVE e \in found
  <2>1. PICK f \in Files : disk[f] \in Skills /\ e = Entry(f, disk[f])
    BY DEF EntriesOnDisk
  <2>2. f \in Present /\ f \notin BadFiles
    BY <2>1, ReloadAssumption DEF Present, BadFiles
  <2> QED BY <1>0, <2>1, <2>2 DEF Faithful
<1>2. ASSUME NEW f \in BadFiles PROVE f \in failed
  <2>1. f \in Files /\ disk[f] = Malformed /\ f \in Present
    BY ReloadAssumption DEF BadFiles, Present
  <2>2. Entry(f, Malformed) \notin EntriesOnDisk
    BY ReloadAssumption DEF EntriesOnDisk, Entry
  <2> QED BY <1>0, <2>1, <2>2 DEF Faithful
<1> QED BY <1>1, <1>2 DEF Faithful

\* A change of the disk is on its way to the loop, or gave no notice.
LEMMA ChangeNotQuiet ==
    ASSUME TypeOK, World, ~StartWatching
    PROVE  ~NoNews' /\ UNCHANGED <<phase, opened>>
<1>1. ASSUME NEW new, Becomes(new) PROVE UNCHANGED <<phase, opened>>
  BY <1>1 DEF Becomes, scan
<1>2. ASSUME Noticed PROVE ~NoNews'
  <2>1. CASE watching
    BY <1>2, <2>1 DEF Noticed, NoNews, TypeOK
  <2>2. CASE ~watching
    BY <1>2, <2>2 DEF Noticed, NoNews
  <2> QED BY <2>1, <2>2
<1> QED BY <1>1, <1>2 DEF World, Write, Move, DirectoryGoes, NoNews

\* No change of the disk is forgotten: when the watcher has nothing under way
\* the registry is what the disk holds (skills/watcher.py), whatever other files
\* do not parse.
THEOREM QuietIsCurrentHolds == Spec => []QuietIsCurrent
<1>1. Init => QuietInv
  BY DEF Init, QuietInv, Current, Nothing
<1>2. TypeOK /\ QuietInv /\ [Next]_vars => QuietInv'
  <2> SUFFICES ASSUME TypeOK, QuietInv, [Next]_vars PROVE QuietInv'
    OBVIOUS
  <2>1. CASE UNCHANGED vars
    BY <2>1 DEF vars, outside, scan, loaded, QuietInv, NoNews, Faithful, Current,
                EntriesOnDisk, BadFiles, Present
  <2>2. CASE World
    <3>1. CASE StartWatching
      BY <3>1 DEF StartWatching, scan, loaded, QuietInv, NoNews, Faithful, Current,
                  EntriesOnDisk, BadFiles, Present
    <3>2. CASE ~StartWatching
      BY <2>2, <3>2, ChangeNotQuiet DEF QuietInv
    <3> QED BY <3>1, <3>2
  <2>3. CASE Trigger \/ Wake \/ Reload
    <3>1. /\ opened' = opened
          /\ phase = "idle"
          /\ \/ phase' = "list"
             \/ phase' = "idle" /\ pending'
      <4>1. CASE Trigger
        BY <4>1 DEF Trigger, Idle, scan
      <4>2. CASE Wake \/ Reload
        BY <4>2 DEF Wake, Reload, Idle, scan
      <4> QED BY <2>3, <4>1, <4>2
    <3> QED BY <3>1 DEF QuietInv
  <2>4. CASE List
    <3>1. /\ phase' = "read" /\ opened' = Nothing /\ found' = {} /\ failed' = {}
          /\ Present \subseteq unread' /\ disk' = disk
      BY <2>4 DEF List, outside
    <3> QED BY <3>1 DEF QuietInv, Faithful, Present
  <2>5. ASSUME NEW f \in Files, Skip(f) \/ Open(f) PROVE QuietInv'
    <3>1. /\ phase = "read" /\ phase' = phase /\ disk' = disk /\ NoNews' = NoNews
          /\ unread' = unread \ {f} /\ opened = Nothing
          /\ found' = found /\ failed' = failed
          /\ \/ f \notin Present /\ opened' = opened
             \/ f \in Present /\ opened' = f
      BY <2>5 DEF Skip, Open, Reach, outside, Present, NoNews
    <3>2. /\ EntriesOnDisk' = EntriesOnDisk /\ BadFiles' = BadFiles
          /\ Present' = Present
      BY <3>1 DEF EntriesOnDisk, BadFiles, Present
    <3>3. Faithful => Faithful'
      <4>1. \A g \in Present : g # Nothing
        BY ReloadAssumption DEF Present
      <4> QED BY <3>1, <3>2, <4>1 DEF Faithful
    <3> QED BY <3>1, <3>3 DEF QuietInv
  <2>6. CASE Load
    <3>1. /\ phase = "read" /\ phase' = phase /\ disk' = disk /\ NoNews' = NoNews
          /\ unread' = unread /\ opened # Nothing /\ opened' = Nothing
      BY <2>6 DEF Load, outside, NoNews
    <3>2. /\ EntriesOnDisk' = EntriesOnDisk /\ BadFiles' = BadFiles
          /\ Present' = Present
      BY <3>1 DEF EntriesOnDisk, BadFiles, Present
    <3>3. Faithful => Faithful'
      <4> SUFFICES ASSUME Faithful PROVE Faithful'
        OBVIOUS
      <4>1. opened \in Files /\ disk[opened] \in Contents /\ disk[opened] # Absent
        BY <3>1 DEF Faithful, Present, TypeOK
      <4>2. CASE disk[opened] \in Skills
        <5>1. found' = found \union {Entry(opened, disk[opened])} /\ failed' = failed
          BY <2>6, <4>2 DEF Load
        <5>2. Entry(opened, disk[opened]) \in EntriesOnDisk
          BY <4>1, <4>2 DEF EntriesOnDisk
        <5> QED BY <3>1, <3>2, <5>1, <5>2 DEF Faithful
      <4>3. CASE disk[opened] \notin Skills
        <5>1. failed' = failed \union {opened} /\ found' = found
          BY <2>6, <4>3 DEF Load
        <5>2. opened \in BadFiles
          BY <2>6, <4>1, <4>3 DEF Load, BadFiles, Contents
        <5> QED BY <3>1, <3>2, <5>1, <5>2 DEF Faithful
      <4> QED BY <4>2, <4>3
    <3> QED BY <3>1, <3>3 DEF QuietInv
  <2>7. CASE Replace
    <3>1. /\ Scanned /\ phase' = "emit" /\ disk' = disk /\ NoNews' = NoNews
          /\ opened' = opened
          /\ registry' = Winners(found) /\ errors' = failed
      BY <2>7 DEF Replace, outside, scan, NoNews
    <3>2. EntriesOnDisk' = EntriesOnDisk /\ BadFiles' = BadFiles
      BY <3>1 DEF EntriesOnDisk, BadFiles
    <3>3. NoNews => Current'
      BY <3>1, <3>2, FaithfulScan DEF Scanned, QuietInv, Current, Winners
    <3> QED BY <3>1, <3>3 DEF Scanned, QuietInv
  <2>8. CASE Finish \/ \E e \in todo : Emit(e)
    <3>1. /\ phase = "emit" /\ phase' \in {"emit", "idle"} /\ opened' = opened
          /\ disk' = disk /\ NoNews' = NoNews
          /\ registry' = registry /\ errors' = errors
      BY <2>8 DEF Finish, Emit, outside, scan, loaded, NoNews
    <3>2. Current' = Current
      BY <3>1 DEF Current, EntriesOnDisk, BadFiles
    <3> QED BY <3>1, <3>2 DEF QuietInv
  <2>9. ASSUME NEW w \in Streams, Subscribe(w) \/ Deliver(w) \/ Unsubscribe(w)
        PROVE  QuietInv'
    <3>1. UNCHANGED <<outside, notices, pending, phase, scan, loaded>>
      BY <2>9 DEF Subscribe, Deliver, Unsubscribe
    <3> QED BY <3>1 DEF outside, scan, loaded, QuietInv, NoNews, Faithful, Current,
                        EntriesOnDisk, BadFiles, Present
  <2> QED
    BY <2>1, <2>2, <2>3, <2>4, <2>5, <2>6, <2>7, <2>8, <2>9
    DEF Next, Reloading, Clients
<1>3. QuietInv => QuietIsCurrent
  BY DEF QuietInv, QuietIsCurrent, Quiet, NoNews, Idle
<1> QED BY <1>1, <1>2, <1>3, TypeCorrect, PTL DEF Spec

(* Subscribers can follow the registry.                                     *)

\* Follows, of any queue q, view v and set of names.
FollowsIn(q, v, n, names) ==
    /\ (\A i \in 1 .. Len(q) : q[i].name # n) => (n \in v <=> n \in names)
    /\ \A i \in 1 .. Len(q) :
          /\ q[i].name = n
          /\ \A j \in 1 .. Len(q) : q[j].name = n => j <= i
          => (q[i].kind = "removed" <=> n \notin names)

LEMMA FollowsIsIn ==
    ASSUME TypeOK, NEW w \in Streams, NEW n \in Names
    PROVE  Follows(w, n) <=> FollowsIn(queue[w], view[w], n, NamesOf(registry))
<1>1. DOMAIN queue[w] = 1 .. Len(queue[w])
  <2>1. queue[w] \in Seq(Events)
    BY DEF TypeOK
  <2> QED BY <2>1
<1> QED BY <1>1 DEF Follows, About, FollowsIn

\* An event that tells whether the registry has a name settles it, and leaves
\* the other names alone.
LEMMA FollowsAppend ==
    ASSUME NEW q \in Seq(Events), NEW v, NEW n, NEW names, NEW e \in Events,
           \/ e.name = n /\ (e.kind = "removed" <=> n \notin names)
           \/ e.name # n /\ FollowsIn(q, v, n, names)
    PROVE  FollowsIn(Append(q, e), v, n, names)
<1> DEFINE r == Append(q, e)
<1>1. /\ Len(q) \in Nat /\ Len(r) = Len(q) + 1
      /\ r[Len(q) + 1] = e
      /\ \A i \in 1 .. Len(q) : r[i] = q[i]
  OBVIOUS
<1>2. \A i \in 1 .. Len(r) : i \in 1 .. Len(q) \/ i = Len(q) + 1
  BY <1>1
<1>3. Len(q) + 1 \in 1 .. Len(r) /\ 1 .. Len(q) \subseteq 1 .. Len(r)
  BY <1>1
<1> HIDE DEF r
<1>4. CASE e.name = n /\ (e.kind = "removed" <=> n \notin names)
  <2>1. ~\A i \in 1 .. Len(r) : r[i].name # n
    BY <1>1, <1>3, <1>4
  <2>2. ASSUME NEW i \in 1 .. Len(r), \A j \in 1 .. Len(r) : r[j].name = n => j <= i
        PROVE  r[i] = e
    BY <1>1, <1>2, <1>3, <1>4, <2>2
  <2>3. FollowsIn(r, v, n, names)
    BY <1>4, <2>1, <2>2 DEF FollowsIn
  <2> QED BY <2>3 DEF r
<1>5. CASE e.name # n /\ FollowsIn(q, v, n, names)
  <2>1. (\A i \in 1 .. Len(r) : r[i].name # n) => (\A i \in 1 .. Len(q) : q[i].name # n)
    BY <1>1, <1>3
  <2>2. ASSUME NEW i \in 1 .. Len(r), r[i].name = n,
               \A j \in 1 .. Len(r) : r[j].name = n => j <= i
        PROVE  r[i].kind = "removed" <=> n \notin names
    <3>1. i \in 1 .. Len(q) /\ r[i] = q[i]
      BY <1>1, <1>2, <1>5, <2>2
    <3>2. \A j \in 1 .. Len(q) : q[j].name = n => j <= i
      BY <1>1, <1>3, <2>2
    <3> QED BY <1>5, <2>2, <3>1, <3>2 DEF FollowsIn
  <2>3. FollowsIn(r, v, n, names)
    BY <1>5, <2>1, <2>2 DEF FollowsIn
  <2> QED BY <2>3 DEF r
<1> QED BY <1>4, <1>5

\* The client's view of a name stays right as it takes the next event.
LEMMA FollowsTail ==
    ASSUME NEW q \in Seq(Events), q # <<>>, NEW v, NEW n, NEW names,
           FollowsIn(q, v, n, names)
    PROVE  FollowsIn(Tail(q), Heard(v, Head(q)), n, names)
<1> DEFINE r == Tail(q)
           h == Head(q)
<1>1. /\ Len(q) \in Nat \ {0} /\ Len(r) = Len(q) - 1
      /\ h = q[1]
      /\ \A i \in 1 .. Len(r) : r[i] = q[i + 1]
  OBVIOUS
<1>2. \A i \in 1 .. Len(r) : i + 1 \in 1 .. Len(q)
  BY <1>1
<1>3. \A i \in 1 .. Len(q) : i = 1 \/ i - 1 \in 1 .. Len(r)
  BY <1>1
<1>4. \A i \in 1 .. Len(q) : i # 1 => q[i] = r[i - 1]
  BY <1>1
<1> HIDE DEF r, h
<1>5. ASSUME \A i \in 1 .. Len(r) : r[i].name # n
      PROVE  n \in Heard(v, h) <=> n \in names
  <2>1. \A i \in 1 .. Len(q) : q[i].name = n => i = 1
    BY <1>3, <1>4, <1>5
  <2>2. 1 \in 1 .. Len(q)
    BY <1>1
  <2>3. CASE h.name = n
    <3>1. \A j \in 1 .. Len(q) : q[j].name = n => j <= 1
      BY <2>1
    <3>2. h.kind = "removed" <=> n \notin names
      BY <1>1, <2>2, <2>3, <3>1 DEF FollowsIn
    <3> QED BY <2>3, <3>2 DEF Heard
  <2>4. CASE h.name # n
    <3>1. \A i \in 1 .. Len(q) : q[i].name # n
      BY <1>1, <2>1, <2>4
    <3>2. n \in v <=> n \in names
      BY <3>1 DEF FollowsIn
    <3> QED BY <2>4, <3>2 DEF Heard
  <2> QED BY <2>3, <2>4
<1>6. ASSUME NEW i \in 1 .. Len(r), r[i].name = n,
             \A j \in 1 .. Len(r) : r[j].name = n => j <= i
      PROVE  r[i].kind = "removed" <=> n \notin names
  <2>1. i + 1 \in 1 .. Len(q) /\ q[i + 1] = r[i]
    BY <1>1, <1>2
  <2>2. ASSUME NEW j \in 1 .. Len(q), q[j].name = n PROVE j <= i + 1
    <3>1. CASE j = 1
      BY <3>1
    <3>2. CASE j # 1
      <4>1. j - 1 \in 1 .. Len(r) /\ r[j - 1].name = n
        BY <1>3, <1>4, <2>2, <3>2
      <4>2. j - 1 <= i
        BY <1>6, <4>1
      <4> QED BY <4>2
    <3> QED BY <3>1, <3>2
  <2> QED BY <1>6, <2>1, <2>2 DEF FollowsIn
<1>7. FollowsIn(r, Heard(v, h), n, names)
  BY <1>5, <1>6 DEF FollowsIn
<1> QED BY <1>7 DEF r, h

\* The events reload has yet to emit: one for a name, each right about it.
TodoTrue ==
    /\ phase # "emit" => todo = {}
    /\ \A d, e \in todo : d.name = e.name => d = e
    /\ \A e \in todo : e.kind = "removed" <=> e.name \notin NamesOf(registry)

\* The difference has one event for each name there is or was.
LEMMA DiffTrue ==
    ASSUME NEW old, NEW new
    PROVE  /\ \A d, e \in Diff(old, new) : d.name = e.name => d = e
           /\ \A e \in Diff(old, new) : e.kind = "removed" <=> e.name \notin NamesOf(new)
           /\ \A n \in NamesOf(old) \union NamesOf(new) :
                 \E e \in Diff(old, new) : e.name = n
<1> DEFINE Event(k, n) == [kind |-> k, name |-> n]
<1>1. ASSUME NEW e \in Diff(old, new)
      PROVE  \/ e = Event("added", e.name) /\ e.name \in NamesOf(new) \ NamesOf(old)
             \/ e = Event("removed", e.name) /\ e.name \in NamesOf(old) \ NamesOf(new)
             \/ e = Event("modified", e.name) /\ e.name \in NamesOf(old) \cap NamesOf(new)
  BY DEF Diff
<1>2. ASSUME NEW d \in Diff(old, new), NEW e \in Diff(old, new), d.name = e.name
      PROVE  d = e
  <2>1. d.name \in NamesOf(old) <=> e.name \in NamesOf(old)
    BY <1>2
  <2>2. d.name \in NamesOf(new) <=> e.name \in NamesOf(new)
    BY <1>2
  <2> QED BY <1>1, <1>2, <2>1, <2>2
<1>3. ASSUME NEW e \in Diff(old, new)
      PROVE  e.kind = "removed" <=> e.name \notin NamesOf(new)
  BY <1>1
<1>4. ASSUME NEW n \in NamesOf(old) \union NamesOf(new)
      PROVE  \E e \in Diff(old, new) : e.name = n
  <2>1. CASE n \in NamesOf(new) \ NamesOf(old)
    <3>1. Event("added", n) \in Diff(old, new) /\ Event("added", n).name = n
      BY <2>1 DEF Diff
    <3> QED BY <3>1
  <2>2. CASE n \in NamesOf(old) \ NamesOf(new)
    <3>1. Event("removed", n) \in Diff(old, new) /\ Event("removed", n).name = n
      BY <2>2 DEF Diff
    <3> QED BY <3>1
  <2>3. CASE n \in NamesOf(old) \cap NamesOf(new)
    <3>1. Event("modified", n) \in Diff(old, new) /\ Event("modified", n).name = n
      BY <2>3 DEF Diff
    <3> QED BY <3>1
  <2> QED BY <2>1, <2>2, <2>3
<1> QED BY <1>2, <1>3, <1>4

\* Every subscriber can tell the registry's names from the events it is sent
\* (skills/registry.py, reload and _emit_event).
THEOREM ViewFollowsHolds == Spec => []ViewFollows
<1> DEFINE Inv == TodoTrue /\ ViewFollows
<1>1. Init => Inv
  BY DEF Init, TodoTrue, ViewFollows
<1>2. TypeOK /\ TypeOK' /\ Inv /\ [Next]_vars => Inv'
  <2> SUFFICES ASSUME TypeOK, TypeOK', TodoTrue, ViewFollows, [Next]_vars
               PROVE  TodoTrue' /\ ViewFollows'
    OBVIOUS
  <2> DEFINE regNames == NamesOf(registry)
  <2>0. ASSUME NEW w \in open, NEW n \in Names, \A e \in todo : e.name # n
        PROVE  w \in Streams /\ FollowsIn(queue[w], view[w], n, regNames)
    BY <2>0, FollowsIsIn DEF ViewFollows, TypeOK
  <2>1. ASSUME UNCHANGED <<loaded, todo, watch>>, phase' = phase
        PROVE  TodoTrue' /\ ViewFollows'
    BY <2>1 DEF loaded, watch, TodoTrue, ViewFollows, Follows, About, NamesOf
  <2>2. CASE UNCHANGED vars \/ World \/ Trigger \/ (\E f \in Files : Skip(f) \/ Open(f)) \/ Load
    <3>1. UNCHANGED <<loaded, todo, watch>> /\ phase' = phase
      BY <2>2 DEF vars, World, StartWatching, Write, Move, DirectoryGoes, Becomes,
                  Trigger, Skip, Open, Load
    <3> QED BY <2>1, <3>1
  <2>3. CASE Wake \/ Reload \/ List \/ Finish
    <3>1. /\ UNCHANGED <<loaded, todo, watch>>
          /\ phase' \in {"idle", "list", "read"} /\ todo = {}
      BY <2>3 DEF Wake, Reload, List, Finish, Idle, TodoTrue
    <3>2. ViewFollows'
      BY <3>1 DEF loaded, watch, ViewFollows, Follows, About, NamesOf
    <3> QED BY <3>1, <3>2 DEF TodoTrue
  <2>4. CASE Replace
    <3>1. /\ phase' = "emit" /\ todo = {} /\ todo' = Diff(registry, registry')
          /\ open' = open /\ queue' = queue /\ view' = view
      BY <2>4 DEF Replace, Scanned, TodoTrue, watch
    <3>2. TodoTrue'
      BY <3>1, DiffTrue DEF TodoTrue
    <3>3. ASSUME NEW w \in open', NEW n \in Names, \A e \in todo' : e.name # n
          PROVE  Follows(w, n)'
      <4>1. n \in NamesOf(registry) <=> n \in NamesOf(registry')
        BY <3>1, <3>3, DiffTrue
      <4>2. Follows(w, n)
        BY <3>1, <3>3 DEF ViewFollows
      <4>3. NamesOf(registry)' = NamesOf(registry')
        BY DEF NamesOf, Name
      <4> QED BY <3>1, <4>1, <4>2, <4>3 DEF Follows, About
    <3> QED BY <3>2, <3>3 DEF ViewFollows
  <2>5. ASSUME NEW e \in todo, Emit(e) PROVE TodoTrue' /\ ViewFollows'
    <3>1. /\ phase' = phase /\ todo' = todo \ {e} /\ open' = open
          /\ view' = view /\ registry' = registry
          /\ queue' = [w \in Streams |-> IF w \in open THEN Append(queue[w], e) ELSE queue[w]]
      BY <2>5 DEF Emit, loaded, watch
    <3>2. NamesOf(registry)' = regNames
      BY <3>1 DEF NamesOf
    <3>3. TodoTrue'
      BY <3>1, <3>2 DEF TodoTrue
    <3>4. ASSUME NEW w \in open', NEW n \in Names, \A d \in todo' : d.name # n
          PROVE  Follows(w, n)'
      <4>1. w \in open /\ w \in Streams /\ e \in Events /\ queue[w] \in Seq(Events)
        BY <3>1, <3>4 DEF TypeOK
      <4>2. queue'[w] = Append(queue[w], e) /\ view'[w] = view[w]
        BY <3>1, <4>1
      <4>3. \/ e.name = n /\ (e.kind = "removed" <=> n \notin regNames)
            \/ e.name # n /\ FollowsIn(queue[w], view[w], n, regNames)
        <5>1. CASE e.name = n
          BY <5>1 DEF TodoTrue
        <5>2. CASE e.name # n
          <6>1. \A d \in todo : d.name # n
            BY <3>1, <3>4, <5>2
          <6> QED BY <2>0, <4>1, <5>2, <6>1
        <5> QED BY <5>1, <5>2
      <4>4. FollowsIn(queue'[w], view'[w], n, regNames)
        BY <4>1, <4>2, <4>3, FollowsAppend
      <4>5. queue'[w] \in Seq(Events)
        BY <4>1 DEF TypeOK
      <4>6. DOMAIN queue'[w] = 1 .. Len(queue'[w])
        BY <4>5
      <4> QED BY <3>2, <4>4, <4>6 DEF Follows, About, FollowsIn
    <3> QED BY <3>3, <3>4 DEF ViewFollows
  <2>6. ASSUME NEW w \in Streams, Subscribe(w) \/ Deliver(w) \/ Unsubscribe(w)
        PROVE  TodoTrue' /\ ViewFollows'
    <3>1. /\ phase' = phase /\ todo' = todo /\ registry' = registry
      BY <2>6 DEF Subscribe, Deliver, Unsubscribe, loaded
    <3>2. NamesOf(registry)' = regNames
      BY <3>1 DEF NamesOf
    <3>3. \A u \in Streams : u # w => (/\ queue'[u] = queue[u] /\ view'[u] = view[u]
                                       /\ u \in open' <=> u \in open)
      BY <2>6 DEF Subscribe, Deliver, Unsubscribe, TypeOK
    <3>4. ASSUME NEW u \in open', NEW n \in Names, \A d \in todo' : d.name # n
          PROVE  Follows(u, n)'
      <4>1. u \in Streams
        BY <3>4 DEF TypeOK
      <4>2. FollowsIn(queue'[u], view'[u], n, regNames)
        <5>1. CASE u # w
          BY <2>0, <3>1, <3>3, <3>4, <4>1, <5>1
        <5>2. CASE u = w /\ Subscribe(w)
          <6>1. queue'[w] = <<>> /\ view'[w] = regNames
            BY <5>2 DEF Subscribe, TypeOK
          <6> QED BY <5>2, <6>1 DEF FollowsIn
        <5>3. CASE u = w /\ Deliver(w)
          <6>1. /\ w \in open /\ queue[w] # <<>> /\ queue[w] \in Seq(Events)
                /\ queue'[w] = Tail(queue[w]) /\ view'[w] = Heard(view[w], Head(queue[w]))
            BY <5>3 DEF Deliver, TypeOK
          <6>2. FollowsIn(queue[w], view[w], n, regNames)
            BY <2>0, <3>1, <3>4, <6>1
          <6> QED BY <5>3, <6>1, <6>2, FollowsTail
        <5>4. CASE u = w /\ Unsubscribe(w)
          BY <3>4, <5>4 DEF Unsubscribe
        <5> QED BY <2>6, <5>1, <5>2, <5>3, <5>4
      <4>3. queue'[u] \in Seq(Events)
        BY <4>1 DEF TypeOK
      <4>4. DOMAIN queue'[u] = 1 .. Len(queue'[u])
        BY <4>3
      <4> QED BY <3>2, <4>2, <4>4 DEF Follows, About, FollowsIn
    <3>5. TodoTrue'
      BY <3>1, <3>2 DEF TodoTrue
    <3> QED BY <3>4, <3>5 DEF ViewFollows
  <2> QED
    BY <2>2, <2>3, <2>4, <2>5, <2>6 DEF Next, Reloading, Clients
<1>3. Inv => ViewFollows
  OBVIOUS
<1> QED BY <1>1, <1>2, <1>3, TypeCorrect, PTL DEF Spec

=============================================================================
